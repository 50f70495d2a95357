--------------------------- MODULE FileSystemProofs ---------------------------
(***************************************************************************)
(* FileSystemInv is inductive, for every image that holds a tree, every    *)
(* set of paths and every number of descriptors; the properties of         *)
(* FileSystem follow from it.  Only the path of the working directory      *)
(* needs that no path has an empty name in it.                             *)
(***************************************************************************)
EXTENDS FileSystem, Numbers, SequenceTheorems

-----------------------------------------------------------------------------
(* The invariant, of a file system fs with the root root                   *)

Dir(fs, i) == i \in DOMAIN fs /\ fs[i].type = "DIR"

FsTyped(fs) ==
  /\ fs \in Seq(inode_t)
  /\ \A i \in DOMAIN fs :
       /\ fs[i].parent \in DOMAIN fs \cup {NULL}
       /\ \A k \in DOMAIN fs[i].entries : fs[i].entries[k].inode \in DOMAIN fs

\* Files fit and have no bytes that were skipped; only directories have entries.
FilesFit(fs) ==
  \A i \in DOMAIN fs :
    /\ fs[i].size <= fs[i].capacity /\ fs[i].written = 0 .. fs[i].size - 1
    /\ fs[i].type = "FILE" => fs[i].entries = <<>>

\* The directories are a tree, numbered from the root.
Tree(fs, root) ==
  /\ Dir(fs, root) /\ fs[root].parent = NULL
  /\ \A d \in DOMAIN fs \ {root} :
       fs[d].type = "DIR" => Dir(fs, fs[d].parent) /\ fs[d].parent < d

Special == {".", ".."}

\* A directory is an entry of its parent only, and the first one of its name.
EntriesInv(fs) ==
  \A i \in DOMAIN fs : \A k \in DOMAIN fs[i].entries :
    LET e == fs[i].entries[k]
    IN  fs[e.inode].type = "DIR" /\ e.name \notin Special =>
          /\ fs[e.inode].parent = i
          /\ \A j \in 1 .. k - 1 : fs[i].entries[j].name # e.name

\* d bears a name in the directory above it that lookup does not treat apart.
Named(fs, d) ==
  \E k \in DOMAIN fs[fs[d].parent].entries :
    /\ fs[fs[d].parent].entries[k].inode = d
    /\ fs[fs[d].parent].entries[k].name \notin Special

\* where a process can be
Place(fs, root, d) == Dir(fs, d) /\ (d = root \/ Named(fs, d))

\* Every directory is made in a place, though it may itself be none: in a root
\* without entries, `mkdir /.` makes a directory that lookup never finds.
PlacesInv(fs, root) ==
  \A d \in DOMAIN fs \ {root} : fs[d].type = "DIR" => Place(fs, root, fs[d].parent)

FsInv(fs, root) ==
  FsTyped(fs) /\ FilesFit(fs) /\ Tree(fs, root) /\ EntriesInv(fs) /\ PlacesInv(fs, root)

\* An offset is at most the length of what it is an offset in.
FdInv(fs, fds) ==
  /\ fds \in [Fd -> [inode : DOMAIN fs \cup {NULL}, offset : Nat]]
  /\ \A fd \in Fd :
       /\ fds[fd].inode = NULL => fds[fd].offset = 0
       /\ fds[fd].inode # NULL =>
            fds[fd].offset <= IF fs[fds[fd].inode].type = "FILE" THEN fs[fds[fd].inode].size
                              ELSE Len(fs[fds[fd].inode].entries)

FileSystemInv ==
  FsInv(inode, root_inode) /\ FdInv(inode, fd_table) /\ Place(inode, root_inode, cwd)

-----------------------------------------------------------------------------
(* Sequences of inodes and entries                                         *)

EntryType == [name : Name, inode : Nat]

LEMMA InodeFields ==
  ASSUME NEW fs \in Seq(inode_t), NEW i \in DOMAIN fs
  PROVE  /\ fs[i] \in inode_t
         /\ fs[i].type \in {"FILE", "DIR"} /\ fs[i].parent \in Nat
         /\ fs[i].ref_count \in Int /\ fs[i].file_ops \in BOOLEAN
         /\ fs[i].entries \in Seq(EntryType)
         /\ fs[i].size \in Nat /\ fs[i].capacity \in Nat /\ fs[i].written \in SUBSET Nat
         /\ Len(fs) \in Nat /\ DOMAIN fs = 1 .. Len(fs) /\ i \in Nat
<1>1. Len(fs) \in Nat /\ DOMAIN fs = 1 .. Len(fs) /\ fs[i] \in inode_t /\ i \in Nat
  OBVIOUS
<1> QED BY <1>1 DEF inode_t, EntryType

\* gs goes on from fs: inodes stay what and where they are, entries stay in
\* their places, and files do not shrink.
Keeps(fs, gs) ==
  /\ DOMAIN fs \subseteq DOMAIN gs
  /\ \A i \in DOMAIN fs :
       /\ gs[i].type = fs[i].type /\ gs[i].parent = fs[i].parent
       /\ fs[i].size <= gs[i].size
       /\ Len(fs[i].entries) <= Len(gs[i].entries)
       /\ DOMAIN fs[i].entries \subseteq DOMAIN gs[i].entries
       /\ \A k \in DOMAIN fs[i].entries : gs[i].entries[k] = fs[i].entries[k]

\* gs differs from fs in reference counts only.
Alike(fs, gs) ==
  /\ gs \in Seq(inode_t) /\ DOMAIN gs = DOMAIN fs
  /\ \A i \in DOMAIN fs :
       /\ gs[i].type = fs[i].type /\ gs[i].parent = fs[i].parent
       /\ gs[i].file_ops = fs[i].file_ops /\ gs[i].entries = fs[i].entries
       /\ gs[i].size = fs[i].size /\ gs[i].capacity = fs[i].capacity
       /\ gs[i].written = fs[i].written

\* gs has one inode more, new, under the name name in dir.
Added(fs, gs, dir, name, new) ==
  /\ gs \in Seq(inode_t) /\ DOMAIN gs = 1 .. Len(fs) + 1 /\ gs[Len(fs) + 1] = new
  /\ \A i \in DOMAIN fs :
       /\ gs[i].type = fs[i].type /\ gs[i].parent = fs[i].parent
       /\ gs[i].size = fs[i].size /\ gs[i].capacity = fs[i].capacity
       /\ gs[i].written = fs[i].written
       /\ gs[i].entries = IF i = dir THEN Append(fs[i].entries, Entry(name, Len(fs) + 1))
                          ELSE fs[i].entries

\* gs has size bytes more stored at the offset in the file i.
Wrote(fs, gs, i, offset, size) ==
  /\ gs \in Seq(inode_t) /\ DOMAIN gs = DOMAIN fs
  /\ \A j \in DOMAIN fs :
       /\ gs[j].type = fs[j].type /\ gs[j].parent = fs[j].parent
       /\ gs[j].entries = fs[j].entries /\ gs[j].capacity = fs[j].capacity
       /\ j # i => gs[j].size = fs[j].size /\ gs[j].written = fs[j].written
  /\ gs[i].size = IF fs[i].size <= offset + size THEN offset + size ELSE fs[i].size
  /\ gs[i].written = fs[i].written \cup (offset .. offset + size - 1)

\* The entries of gs are those of fs, and one for the new inode.
OldOrNew(fs, gs, dir, name) ==
  \A i \in DOMAIN fs : \A k \in DOMAIN gs[i].entries :
    \/ k \in DOMAIN fs[i].entries /\ gs[i].entries[k] = fs[i].entries[k]
    \/ /\ i = dir /\ k = Len(fs[i].entries) + 1
       /\ gs[i].entries[k] = Entry(name, Len(fs) + 1)

LEMMA AlikeKeeps ==
  ASSUME NEW fs \in Seq(inode_t), NEW gs, Alike(fs, gs)
  PROVE  Keeps(fs, gs)
<1> SUFFICES ASSUME NEW i \in DOMAIN fs
             PROVE  fs[i].size <= gs[i].size /\ Len(fs[i].entries) <= Len(gs[i].entries)
  BY DEF Alike, Keeps
<1>1. fs[i].size \in Nat /\ Len(fs[i].entries) \in Nat
  BY InodeFields
<1> QED BY <1>1 DEF Alike

LEMMA AddedKeeps ==
  ASSUME NEW fs \in Seq(inode_t), NEW gs, NEW dir, NEW name \in Name, NEW new,
         Added(fs, gs, dir, name, new)
  PROVE  /\ Keeps(fs, gs)
         /\ DOMAIN gs = DOMAIN fs \cup {Len(fs) + 1} /\ Len(fs) + 1 \notin DOMAIN fs
         /\ OldOrNew(fs, gs, dir, name)
<1>1. Len(fs) \in Nat /\ DOMAIN fs = 1 .. Len(fs)
  OBVIOUS
<1>2. DOMAIN gs = DOMAIN fs \cup {Len(fs) + 1} /\ Len(fs) + 1 \notin DOMAIN fs
  BY <1>1 DEF Added
<1>3. ASSUME NEW i \in DOMAIN fs
      PROVE  /\ fs[i].size <= gs[i].size
             /\ Len(fs[i].entries) <= Len(gs[i].entries)
             /\ DOMAIN fs[i].entries \subseteq DOMAIN gs[i].entries
             /\ \A k \in DOMAIN fs[i].entries : gs[i].entries[k] = fs[i].entries[k]
             /\ \A k \in DOMAIN gs[i].entries :
                  \/ k \in DOMAIN fs[i].entries
                  \/ i = dir /\ k = Len(fs[i].entries) + 1 /\ gs[i].entries[k] = Entry(name, Len(fs) + 1)
  <2> DEFINE s == fs[i].entries
             e == Entry(name, Len(fs) + 1)
  <2>1. fs[i].size \in Nat /\ s \in Seq(EntryType)
    BY InodeFields
  <2>2. e \in EntryType
    BY <1>1 DEF Entry, EntryType
  <2>3. gs[i].size = fs[i].size /\ gs[i].entries = IF i = dir THEN Append(s, e) ELSE s
    BY DEF Added
  <2> HIDE DEF s, e
  <2>4. /\ Len(s) \in Nat /\ DOMAIN s = 1 .. Len(s)
        /\ DOMAIN Append(s, e) = 1 .. Len(s) + 1 /\ Len(Append(s, e)) = Len(s) + 1
        /\ Append(s, e)[Len(s) + 1] = e
        /\ \A k \in 1 .. Len(s) : Append(s, e)[k] = s[k]
    BY <2>1, <2>2
  <2>5. \A k \in 1 .. Len(s) + 1 : k \in 1 .. Len(s) \/ k = Len(s) + 1
    BY <2>4
  <2> QED BY <2>1, <2>3, <2>4, <2>5 DEF s, e
<1> QED BY <1>2, <1>3 DEF Keeps, Added, OldOrNew

LEMMA KeepsOn ==
  ASSUME NEW fs \in Seq(inode_t), NEW gs \in Seq(inode_t), NEW hs \in Seq(inode_t),
         Keeps(fs, gs), Keeps(gs, hs)
  PROVE  Keeps(fs, hs)
<1> SUFFICES ASSUME NEW i \in DOMAIN fs
             PROVE  fs[i].size <= hs[i].size /\ Len(fs[i].entries) <= Len(hs[i].entries)
  BY DEF Keeps
<1>1. i \in DOMAIN gs /\ i \in DOMAIN hs
  BY DEF Keeps
<1> DEFINE a == Len(fs[i].entries) b == Len(gs[i].entries) c == Len(hs[i].entries)
<1>2. /\ fs[i].size \in Nat /\ gs[i].size \in Nat /\ hs[i].size \in Nat
      /\ a \in Nat /\ b \in Nat /\ c \in Nat
  BY <1>1, InodeFields
<1>3. fs[i].size <= gs[i].size /\ gs[i].size <= hs[i].size /\ a <= b /\ b <= c
  BY <1>1 DEF Keeps
<1> HIDE DEF a, b, c
<1>4. fs[i].size <= hs[i].size /\ a <= c
  BY <1>2, <1>3
<1> QED BY <1>4 DEF a, c

LEMMA WroteKeeps ==
  ASSUME NEW fs \in Seq(inode_t), NEW gs, NEW i \in DOMAIN fs, NEW offset \in Nat,
         NEW size \in Nat, Wrote(fs, gs, i, offset, size)
  PROVE  Keeps(fs, gs)
<1> SUFFICES ASSUME NEW j \in DOMAIN fs
             PROVE  fs[j].size <= gs[j].size /\ Len(fs[j].entries) <= Len(gs[j].entries)
  BY DEF Wrote, Keeps
<1>1. fs[j].size \in Nat /\ Len(fs[j].entries) \in Nat
  BY InodeFields
<1> QED BY <1>1 DEF Wrote

-----------------------------------------------------------------------------
(* What each kind of step preserves                                        *)

LEMMA KeepsPlace ==
  ASSUME NEW fs, NEW gs, NEW root, NEW d, FsTyped(fs), Keeps(fs, gs), Dir(fs, d),
         d # root => Dir(fs, fs[d].parent), Place(fs, root, d)
  PROVE  Place(gs, root, d)
BY DEF Keeps, Place, Named, Dir

LEMMA KeepsPlaces ==
  ASSUME NEW fs, NEW gs, NEW root, FsInv(fs, root), Keeps(fs, gs),
         NEW d \in DOMAIN fs \ {root}, fs[d].type = "DIR"
  PROVE  Place(gs, root, fs[d].parent)
<1> DEFINE p == fs[d].parent
<1>1. Place(fs, root, p) /\ Dir(fs, p)
  BY DEF FsInv, PlacesInv, Place
<1>2. p # root => Dir(fs, fs[p].parent)
  BY <1>1 DEF FsInv, Tree, Dir
<1>3. FsTyped(fs)
  BY DEF FsInv
<1> HIDE DEF p
<1>4. Place(gs, root, p)
  BY <1>1, <1>2, <1>3, KeepsPlace
<1> QED BY <1>4 DEF p

LEMMA KeepsFds ==
  ASSUME NEW fs, NEW gs, NEW fds, FsTyped(fs), FsTyped(gs), Keeps(fs, gs), FdInv(fs, fds)
  PROVE  FdInv(gs, fds)
<1> SUFFICES ASSUME NEW fd \in Fd, fds[fd].inode # NULL
             PROVE  fds[fd].offset <= IF gs[fds[fd].inode].type = "FILE"
                                      THEN gs[fds[fd].inode].size
                                      ELSE Len(gs[fds[fd].inode].entries)
  <2>1. fds \in [Fd -> [inode : DOMAIN gs \cup {NULL}, offset : Nat]]
    BY DEF FdInv, Keeps
  <2> QED BY <2>1 DEF FdInv
<1> DEFINE i == fds[fd].inode
<1>1. i \in DOMAIN fs /\ fds[fd].offset \in Nat
  BY DEF FdInv
<1>2. i \in DOMAIN gs
  BY <1>1 DEF Keeps
<1>3. fs[i].size \in Nat /\ Len(fs[i].entries) \in Nat /\ gs[i].size \in Nat
      /\ Len(gs[i].entries) \in Nat
  <2>1. fs \in Seq(inode_t) /\ gs \in Seq(inode_t)
    BY DEF FsTyped
  <2> HIDE DEF i
  <2>2. fs[i].size \in Nat /\ Len(fs[i].entries) \in Nat
    BY ONLY <1>1, <2>1, InodeFields
  <2>3. gs[i].size \in Nat /\ Len(gs[i].entries) \in Nat
    BY ONLY <1>2, <2>1, InodeFields
  <2> QED BY ONLY <2>2, <2>3
<1>4. gs[i].type = fs[i].type /\ fs[i].size <= gs[i].size
      /\ Len(fs[i].entries) <= Len(gs[i].entries)
  BY <1>1 DEF Keeps
<1>5. fds[fd].offset <= IF fs[i].type = "FILE" THEN fs[i].size ELSE Len(fs[i].entries)
  BY DEF FdInv
<1> HIDE DEF i
<1>6. fds[fd].offset <= IF gs[i].type = "FILE" THEN gs[i].size ELSE Len(gs[i].entries)
  <2>1. CASE fs[i].type = "FILE"
    BY <1>1, <1>3, <1>4, <1>5, <2>1
  <2>2. CASE fs[i].type # "FILE"
    <3> DEFINE a == Len(fs[i].entries) b == Len(gs[i].entries)
    <3>1. a \in Nat /\ b \in Nat /\ a <= b /\ fds[fd].offset <= a
      BY <1>3, <1>4, <1>5, <2>2
    <3> HIDE DEF a, b
    <3>2. fds[fd].offset <= b
      BY <1>1, <3>1
    <3> QED BY <1>4, <2>2, <3>2 DEF b
  <2> QED BY <2>1, <2>2
<1> QED BY <1>6 DEF i

\* Reference counts are in no part of the invariant.
LEMMA AlikeHolds ==
  ASSUME NEW fs, NEW gs, NEW root, FsInv(fs, root), Alike(fs, gs)
  PROVE  FsInv(gs, root)
<1>1. FsTyped(gs)
  BY DEF FsInv, FsTyped, Alike
<1>2. FilesFit(gs)
  BY DEF FsInv, FilesFit, Alike
<1>3. Tree(gs, root)
  BY DEF FsInv, Tree, Dir, Alike
<1>4. EntriesInv(gs)
  <2> SUFFICES ASSUME NEW i \in DOMAIN gs, NEW k \in DOMAIN gs[i].entries,
                      gs[gs[i].entries[k].inode].type = "DIR",
                      gs[i].entries[k].name \notin Special
               PROVE  /\ gs[gs[i].entries[k].inode].parent = i
                      /\ \A j \in 1 .. k - 1 :
                           gs[i].entries[j].name # gs[i].entries[k].name
    BY DEF EntriesInv
  <2>1. i \in DOMAIN fs /\ gs[i].entries = fs[i].entries
    BY DEF Alike
  <2>2. fs[i].entries[k].inode \in DOMAIN fs
    BY <2>1 DEF FsInv, FsTyped
  <2>3. fs[fs[i].entries[k].inode].type = "DIR"
    BY <2>1, <2>2 DEF Alike
  <2>4. /\ fs[fs[i].entries[k].inode].parent = i
        /\ \A j \in 1 .. k - 1 : fs[i].entries[j].name # fs[i].entries[k].name
    BY <2>1, <2>3 DEF FsInv, EntriesInv
  <2> QED BY <2>1, <2>2, <2>4 DEF Alike
<1>5. PlacesInv(gs, root)
  <2>1. Keeps(fs, gs)
    BY AlikeKeeps DEF FsInv, FsTyped
  <2>2. \A d \in DOMAIN fs \ {root} : fs[d].type = "DIR" => Place(gs, root, fs[d].parent)
    BY <2>1, KeepsPlaces
  <2> QED BY <2>2 DEF PlacesInv, Alike
<1> QED BY <1>1, <1>2, <1>3, <1>4, <1>5 DEF FsInv

\* A file takes bytes up to its capacity, from an offset inside of it.
LEMMA WroteHolds ==
  ASSUME NEW fs, NEW gs, NEW root, NEW i \in DOMAIN fs, NEW offset \in Nat, NEW size \in Nat,
         FsInv(fs, root), Wrote(fs, gs, i, offset, size), fs[i].type = "FILE",
         offset <= fs[i].size, offset + size <= fs[i].capacity
  PROVE  FsInv(gs, root)
<1>1. FsTyped(gs)
  BY DEF FsInv, FsTyped, Wrote
<1>2. FilesFit(gs)
  <2> SUFFICES ASSUME NEW j \in DOMAIN fs
               PROVE  /\ gs[j].size <= gs[j].capacity /\ gs[j].written = 0 .. gs[j].size - 1
                      /\ gs[j].type = "FILE" => gs[j].entries = <<>>
    BY DEF FilesFit, Wrote
  <2>1. /\ fs[j].size <= fs[j].capacity /\ fs[j].written = 0 .. fs[j].size - 1
        /\ fs[j].type = "FILE" => fs[j].entries = <<>>
        /\ fs[j].size \in Nat /\ fs[j].capacity \in Nat
    BY InodeFields DEF FsInv, FsTyped, FilesFit
  <2>2. CASE j # i
    BY <2>1, <2>2 DEF Wrote
  <2>3. CASE j = i
    <3> DEFINE old == fs[i].size
               end == offset + size
               new == IF old <= end THEN end ELSE old
    <3>1. /\ gs[i].size = new /\ gs[i].capacity = fs[i].capacity
          /\ gs[i].written = (0 .. old - 1) \cup (offset .. end - 1)
          /\ gs[i].entries = <<>>
      BY <2>1, <2>3 DEF Wrote
    <3>2. (0 .. old - 1) \cup (offset .. offset + size - 1) = 0 .. new - 1
      <4>1. old \in Nat
        BY <2>1, <2>3
      <4> HIDE DEF old
      <4>2. ASSUME NEW x
            PROVE  x \in (0 .. old - 1) \cup (offset .. offset + size - 1) <=> x \in 0 .. new - 1
        <5>1. offset <= old
          BY DEF old
        <5> QED BY <4>1, <5>1
      <4> QED BY <4>2
    <3>3. new <= fs[i].capacity
      BY <2>1, <2>3
    <3> QED BY <2>3, <3>1, <3>2, <3>3
  <2> QED BY <2>2, <2>3
<1>3. Tree(gs, root)
  BY DEF FsInv, Tree, Dir, Wrote
<1>4. EntriesInv(gs)
  <2> SUFFICES ASSUME NEW j \in DOMAIN gs, NEW k \in DOMAIN gs[j].entries,
                      gs[gs[j].entries[k].inode].type = "DIR",
                      gs[j].entries[k].name \notin Special
               PROVE  /\ gs[gs[j].entries[k].inode].parent = j
                      /\ \A l \in 1 .. k - 1 :
                           gs[j].entries[l].name # gs[j].entries[k].name
    BY DEF EntriesInv
  <2>1. j \in DOMAIN fs /\ gs[j].entries = fs[j].entries
    BY DEF Wrote
  <2>2. fs[j].entries[k].inode \in DOMAIN fs
    BY <2>1 DEF FsInv, FsTyped
  <2>3. fs[fs[j].entries[k].inode].type = "DIR"
    BY <2>1, <2>2 DEF Wrote
  <2>4. /\ fs[fs[j].entries[k].inode].parent = j
        /\ \A l \in 1 .. k - 1 : fs[j].entries[l].name # fs[j].entries[k].name
    BY <2>1, <2>3 DEF FsInv, EntriesInv
  <2> QED BY <2>1, <2>2, <2>4 DEF Wrote
<1>5. PlacesInv(gs, root)
  <2>1. Keeps(fs, gs)
    BY WroteKeeps DEF FsInv, FsTyped
  <2>2. \A d \in DOMAIN fs \ {root} : fs[d].type = "DIR" => Place(gs, root, fs[d].parent)
    BY <2>1, KeepsPlaces
  <2> QED BY <2>2 DEF PlacesInv, Wrote
<1> QED BY <1>1, <1>2, <1>3, <1>4, <1>5 DEF FsInv

\* An empty file, or a directory with the entries . and ..
Fresh(fs, dir, new) ==
  /\ new \in inode_t /\ new.size = 0 /\ new.written = {}
  /\ \/ new.type = "FILE" /\ new.parent = NULL /\ new.entries = <<>>
     \/ /\ new.type = "DIR" /\ new.parent = dir
        /\ new.entries = <<Entry(".", Len(fs) + 1), Entry("..", dir)>>

\* An inode is added in a place; the name of a directory is a new one there.
LEMMA AddedHolds ==
  ASSUME NEW fs, NEW gs, NEW root, NEW dir, NEW name \in Name, NEW new,
         FsInv(fs, root), Place(fs, root, dir), Added(fs, gs, dir, name, new),
         Fresh(fs, dir, new),
         new.type = "DIR" => \A k \in DOMAIN fs[dir].entries : fs[dir].entries[k].name # name
  PROVE  FsInv(gs, root)
<1> DEFINE n == Len(fs) + 1
<1>0. /\ Keeps(fs, gs) /\ n \notin DOMAIN fs
      /\ DOMAIN gs = DOMAIN fs \cup {n} /\ gs[n] = new /\ gs \in Seq(inode_t)
      /\ dir \in DOMAIN fs /\ fs[dir].type = "DIR" /\ n \in Nat /\ fs \in Seq(inode_t)
      /\ \A i \in DOMAIN fs : i < n
  <2>1. fs \in Seq(inode_t) /\ dir \in DOMAIN fs /\ fs[dir].type = "DIR"
    BY DEF FsInv, FsTyped, Place, Dir
  <2>2. Len(fs) \in Nat /\ DOMAIN fs = 1 .. Len(fs)
    BY <2>1
  <2>3. Keeps(fs, gs) /\ n \notin DOMAIN fs /\ DOMAIN gs = DOMAIN fs \cup {n}
    BY <2>1, AddedKeeps
  <2>4. gs[n] = new /\ gs \in Seq(inode_t)
    BY DEF Added
  <2> QED BY <2>1, <2>2, <2>3, <2>4
<1>1. \A i \in DOMAIN fs : \A k \in DOMAIN gs[i].entries :
        \/ k \in DOMAIN fs[i].entries /\ gs[i].entries[k] = fs[i].entries[k]
        \/ i = dir /\ k = Len(fs[i].entries) + 1 /\ gs[i].entries[k] = Entry(name, n)
  <2>1. fs \in Seq(inode_t)
    BY <1>0
  <2>2. OldOrNew(fs, gs, dir, name)
    BY <2>1, AddedKeeps
  <2> QED BY <2>2 DEF OldOrNew
<1>2. \A k \in DOMAIN new.entries :
        \/ new.entries[k] = Entry(".", n) \/ new.entries[k] = Entry("..", dir)
  BY DEF Fresh
<1>3. \A i \in DOMAIN fs : /\ gs[i].type = fs[i].type /\ gs[i].parent = fs[i].parent
                           /\ gs[i].size = fs[i].size /\ gs[i].capacity = fs[i].capacity
                           /\ gs[i].written = fs[i].written
                           /\ fs[i].type = "FILE" => gs[i].entries = fs[i].entries
  BY <1>0 DEF Added
<1> HIDE DEF n
<1>4. FsTyped(gs)
  <2>1. \A i \in DOMAIN fs : /\ gs[i].parent \in DOMAIN gs \cup {NULL}
                             /\ \A k \in DOMAIN gs[i].entries :
                                  gs[i].entries[k].inode \in DOMAIN gs
    BY <1>0, <1>1, <1>3 DEF FsInv, FsTyped, Entry
  <2>2. gs[n].parent \in DOMAIN gs \cup {NULL}
    BY <1>0 DEF Fresh
  <2>3. \A k \in DOMAIN gs[n].entries : gs[n].entries[k].inode \in DOMAIN gs
    BY <1>0, <1>2 DEF Entry
  <2> QED BY <1>0, <2>1, <2>2, <2>3 DEF FsTyped
<1>5. FilesFit(gs)
  <2>1. new.capacity \in Nat
    BY DEF Fresh, inode_t
  <2>2. new.size <= new.capacity /\ new.written = 0 .. new.size - 1
    BY <2>1 DEF Fresh
  <2>3. new.type = "FILE" => new.entries = <<>>
    BY DEF Fresh
  <2> QED BY <1>0, <1>3, <2>2, <2>3 DEF FsInv, FilesFit
<1>6. Tree(gs, root)
  <2>1. Dir(gs, root) /\ gs[root].parent = NULL
    BY <1>0, <1>3 DEF FsInv, Tree, Dir
  <2>2. \A d \in DOMAIN fs \ {root} :
          gs[d].type = "DIR" => Dir(gs, gs[d].parent) /\ gs[d].parent < d
    BY <1>0, <1>3 DEF FsInv, Tree, Dir
  <2>3. gs[n].type = "DIR" => Dir(gs, gs[n].parent) /\ gs[n].parent < n
    BY <1>0, <1>3 DEF Fresh, Dir
  <2> QED BY <1>0, <2>1, <2>2, <2>3 DEF Tree
<1>7. EntriesInv(gs)
  <2> SUFFICES ASSUME NEW i \in DOMAIN gs, NEW k \in DOMAIN gs[i].entries,
                      gs[gs[i].entries[k].inode].type = "DIR",
                      gs[i].entries[k].name \notin Special
               PROVE  /\ gs[gs[i].entries[k].inode].parent = i
                      /\ \A j \in 1 .. k - 1 :
                           gs[i].entries[j].name # gs[i].entries[k].name
    BY DEF EntriesInv
  <2>1. i \in DOMAIN fs
    BY <1>0, <1>2 DEF Entry, Special
  <2>2. fs[i].entries \in Seq(EntryType) /\ Len(fs[i].entries) \in Nat
        /\ DOMAIN fs[i].entries = 1 .. Len(fs[i].entries)
    BY <1>0, <2>1, InodeFields
  <2>3. CASE k \in DOMAIN fs[i].entries /\ gs[i].entries[k] = fs[i].entries[k]
    <3> DEFINE e == fs[i].entries[k]
    <3>1. e.inode \in DOMAIN fs
      BY <2>1, <2>3 DEF FsInv, FsTyped
    <3>2. fs[e.inode].type = "DIR"
      BY <1>3, <2>3, <3>1
    <3>3. /\ fs[e.inode].parent = i
          /\ \A j \in 1 .. k - 1 : fs[i].entries[j].name # e.name
      BY <2>1, <2>3, <3>2 DEF FsInv, EntriesInv
    <3>4. \A j \in 1 .. k - 1 : j \in DOMAIN fs[i].entries
      BY <2>2, <2>3
    <3>5. \A j \in 1 .. k - 1 : gs[i].entries[j] = fs[i].entries[j]
      BY <1>0, <2>1, <3>4 DEF Keeps
    <3> QED BY <1>3, <2>3, <3>1, <3>3, <3>5
  <2>4. CASE i = dir /\ k = Len(fs[i].entries) + 1 /\ gs[i].entries[k] = Entry(name, n)
    <3>1. gs[i].entries[k].inode = n /\ gs[i].entries[k].name = name
      BY <2>4 DEF Entry
    <3>2. new.type = "DIR"
      BY <1>0, <3>1
    <3>3. gs[n].parent = dir
      BY <1>0, <3>2 DEF Fresh
    <3>4. \A j \in 1 .. k - 1 : j \in DOMAIN fs[i].entries
      BY <2>2, <2>4
    <3>5. \A j \in 1 .. k - 1 : gs[i].entries[j] = fs[i].entries[j]
      BY <1>0, <2>1, <3>4 DEF Keeps
    <3> QED BY <2>4, <3>1, <3>2, <3>3, <3>4, <3>5
  <2> QED BY <1>1, <2>1, <2>3, <2>4
<1>8. PlacesInv(gs, root)
  <2>1. \A d \in DOMAIN fs \ {root} : fs[d].type = "DIR" => Place(gs, root, fs[d].parent)
    BY <1>0, KeepsPlaces
  <2>2. Place(gs, root, dir)
    <3>1. Dir(fs, dir) /\ (dir # root => Dir(fs, fs[dir].parent)) /\ FsTyped(fs)
      BY <1>0 DEF FsInv, Tree, Dir
    <3> QED BY <1>0, <3>1, KeepsPlace
  <2> QED BY <1>0, <1>3, <2>1, <2>2 DEF PlacesInv, Fresh
<1> QED BY <1>4, <1>5, <1>6, <1>7, <1>8 DEF FsInv

-----------------------------------------------------------------------------
(* Lookup                                                                  *)

\* what lookup returns: nothing, a file, or a place
Found(fs, root, d) ==
  d = NULL \/ (d \in DOMAIN fs /\ (fs[d].type = "DIR" => Place(fs, root, d)))

LEMMA FirstHit ==
  ASSUME FsInv(inode, root_inode), NEW dir \in DOMAIN inode, NEW name, Hits(dir, name) # {}
  PROVE  LET k == Min(Hits(dir, name))
         IN  /\ k \in Hits(dir, name) /\ k \in DOMAIN inode[dir].entries
             /\ inode[dir].entries[k].name = name
             /\ \A j \in Hits(dir, name) : k <= j
<1>1. inode[dir].entries \in Seq(EntryType)
  BY InodeFields DEF FsInv, FsTyped
<1>2. DOMAIN inode[dir].entries \subseteq Nat
  BY <1>1
<1>3. Hits(dir, name) \in SUBSET Nat
  BY <1>2 DEF Hits
<1>4. Min(Hits(dir, name)) \in Hits(dir, name)
      /\ \A j \in Hits(dir, name) : Min(Hits(dir, name)) <= j
  BY <1>3, MinExists
<1> QED BY <1>4 DEF Hits

\* From a place lookup leads to a place.
LEMMA LookupFinds ==
  ASSUME FsInv(inode, root_inode), NEW dir, Found(inode, root_inode, dir), dir # NULL, NEW name
  PROVE  Found(inode, root_inode, ramfs_lookup(dir, name))
<1>1. dir \in DOMAIN inode
  BY DEF Found
<1>2. CASE inode[dir].type # "DIR"
  BY <1>2 DEF ramfs_lookup, Found
<1>3. CASE inode[dir].type = "DIR" /\ name = "."
  BY <1>1, <1>3 DEF ramfs_lookup, Found
<1>4. CASE inode[dir].type = "DIR" /\ name = ".."
  <2>1. CASE inode[dir].parent # NULL
    <3>1. dir # root_inode
      BY <2>1 DEF FsInv, Tree
    <3>2. Place(inode, root_inode, inode[dir].parent)
      BY <1>1, <1>4, <3>1 DEF FsInv, PlacesInv
    <3>3. ramfs_lookup(dir, name) = inode[dir].parent
      BY <1>4, <2>1 DEF ramfs_lookup
    <3> QED BY <3>2, <3>3 DEF Found, Place, Dir
  <2>2. CASE inode[dir].parent = NULL
    BY <1>1, <1>4, <2>2 DEF ramfs_lookup, Found
  <2> QED BY <2>1, <2>2
<1>5. CASE inode[dir].type = "DIR" /\ name \notin Special /\ Hits(dir, name) = {}
  BY <1>5 DEF ramfs_lookup, Found, Special
<1>6. CASE inode[dir].type = "DIR" /\ name \notin Special /\ Hits(dir, name) # {}
  <2> DEFINE k == Min(Hits(dir, name))
             d == inode[dir].entries[k].inode
  <2>1. k \in DOMAIN inode[dir].entries /\ inode[dir].entries[k].name = name
    BY <1>1, <1>6, FirstHit
  <2>2. ramfs_lookup(dir, name) = d
    BY <1>6 DEF ramfs_lookup, Special
  <2> HIDE DEF k
  <2>3. d \in DOMAIN inode
    BY <1>1, <2>1 DEF FsInv, FsTyped
  <2>4. inode[d].type = "DIR" => Place(inode, root_inode, d)
    <3> SUFFICES ASSUME inode[d].type = "DIR" PROVE Place(inode, root_inode, d)
      OBVIOUS
    <3>1. inode[d].parent = dir
      BY <1>1, <1>6, <2>1 DEF FsInv, EntriesInv
    <3> QED BY <1>6, <2>1, <2>3, <3>1 DEF Place, Named, Dir
  <2> QED BY <2>2, <2>3, <2>4 DEF Found
<1> QED BY <1>2, <1>3, <1>4, <1>5, <1>6 DEF Special

\* An entry that names a directory is the one lookup finds under its name.
LEMMA NotHidden ==
  ASSUME FsInv(inode, root_inode), NEW dir \in DOMAIN inode, NEW k \in DOMAIN inode[dir].entries,
         inode[inode[dir].entries[k].inode].type = "DIR",
         inode[dir].entries[k].name \notin Special
  PROVE  ramfs_lookup(dir, inode[dir].entries[k].name) = inode[dir].entries[k].inode
<1> DEFINE e == inode[dir].entries[k]
           first == Min(Hits(dir, e.name))
<1>1. inode \in Seq(inode_t)
  BY DEF FsInv, FsTyped
<1>2. inode[dir].type = "DIR"
  <2>1. inode[dir].entries # <<>>
    OBVIOUS
  <2>2. inode[dir].type \in {"FILE", "DIR"}
    BY <1>1, InodeFields
  <2> QED BY <2>1, <2>2 DEF FsInv, FilesFit
<1>3. \A j \in 1 .. k - 1 : inode[dir].entries[j].name # e.name
  BY DEF FsInv, EntriesInv
<1>4. k \in Hits(dir, e.name)
  BY DEF Hits
<1>5. first \in DOMAIN inode[dir].entries /\ inode[dir].entries[first].name = e.name /\ first <= k
  BY <1>4, FirstHit
<1>6. DOMAIN inode[dir].entries \in SUBSET (Nat \ {0})
  <2>1. inode[dir].entries \in Seq(EntryType)
    BY <1>1, InodeFields
  <2> QED BY <2>1
<1>7. ramfs_lookup(dir, e.name) = inode[dir].entries[first].inode
  BY <1>2, <1>4 DEF ramfs_lookup, Special
<1> HIDE DEF first
<1>8. first = k
  BY <1>3, <1>5, <1>6
<1> QED BY <1>7, <1>8

LEMMA FrontNames ==
  ASSUME NEW pieces \in Seq(Name), pieces # <<>>
  PROVE  /\ Front(pieces) \in Seq(Name) /\ Last(pieces) \in Name
         /\ Len(pieces) \in 1 .. Len(pieces)
<1> DEFINE n == Len(pieces)
<1>1. n \in Nat /\ n # 0 /\ \A i \in 1 .. n : pieces[i] \in Name
  BY EmptySeq
<1> HIDE DEF n
<1>2. \A i \in 1 .. n - 1 : pieces[i] \in Name
  BY <1>1
<1>3. SubSeq(pieces, 1, n - 1) \in Seq(Name)
  BY <1>1, <1>2, SubSeqProperties
<1> QED BY <1>1, <1>3 DEF Front, Last, n

LEMMA ComponentNames ==
  ASSUME NEW pieces \in Seq(Name)
  PROVE  Components(pieces) \in Seq(Name)
<1>1. pieces # <<>> => Front(pieces) \in Seq(Name)
  BY FrontNames
<1> QED BY <1>1 DEF Components

\* Walk is defined by its recursion, and meets places only.
LEMMA WalkFinds ==
  ASSUME FsInv(inode, root_inode), Place(inode, root_inode, cwd), NEW path \in Path
  PROVE  LET names == Components(path.pieces)
             at == Walk(path)
         IN  /\ names \in Seq(Name) /\ Len(names) \in Nat
             /\ DOMAIN at = 0 .. Len(names)
             /\ \A k \in 0 .. Len(names) : Found(inode, root_inode, at[k])
             /\ at[0] = IF path.absolute THEN root_inode ELSE cwd
             /\ \A k \in 1 .. Len(names) :
                  at[k] = IF at[k - 1] = NULL THEN NULL ELSE ramfs_lookup(at[k - 1], names[k])
<1> DEFINE names == Components(path.pieces)
           n == Len(names)
           first == IF path.absolute THEN root_inode ELSE cwd
           X == {d \in DOMAIN inode \cup {NULL} : Found(inode, root_inode, d)}
           next(k, d) == IF d = NULL THEN NULL ELSE ramfs_lookup(d, names[k])
           step == [k \in 1 .. n |-> [d \in X |-> next(k, d)]]
           Walks(f) == f = [k \in 0 .. n |-> IF k = 0 THEN first ELSE next(k, f[k - 1])]
<1>1. names \in Seq(Name) /\ n \in Nat
  BY ComponentNames DEF Path
<1>2. first \in X
  BY DEF FsInv, Tree, Place, Dir, Found
<1>3. \A k \in 1 .. n : \A d \in X : next(k, d) \in X
  <2>1. \A e : Found(inode, root_inode, e) => e \in X
    BY DEF Found
  <2>2. \A d \in X : \A name : d # NULL => Found(inode, root_inode, ramfs_lookup(d, name))
    BY LookupFinds
  <2> QED BY <2>1, <2>2 DEF Found
<1>4. step \in [1 .. n -> [X -> X]]
  BY <1>3
<1>5. \E f : Walks(f)
  <2> HIDE DEF X, names, n, first, step
  <2>1. PICK f \in [0 .. n -> X] : Iterates(f, n, first, step)
    BY <1>1, <1>2, <1>4, Recursion
  <2>2. ASSUME NEW k \in 0 .. n
        PROVE  f[k] = IF k = 0 THEN first ELSE next(k, f[k - 1])
    <3>1. f[k] = IF k = 0 THEN first ELSE step[k][f[k - 1]]
      BY <2>1 DEF Iterates
    <3>2. CASE k # 0
      <4>1. k \in 1 .. n /\ k - 1 \in 0 .. n
        BY <1>1, <3>2
      <4>2. f[k - 1] \in X
        BY <2>1, <4>1
      <4>3. step[k][f[k - 1]] = next(k, f[k - 1])
        BY <4>1, <4>2 DEF step
      <4> QED BY <3>1, <3>2, <4>3
    <3> QED BY <3>1, <3>2
  <2>3. Walks(f)
    <3>1. f = [k \in 0 .. n |-> f[k]]
      BY <2>1
    <3> QED BY <2>2, <3>1
  <2> QED BY <2>3
<1>6. Walk(path) = CHOOSE f : Walks(f)
  BY DEF Walk
<1>7. Walks(Walk(path))
  <2> HIDE DEF Walks
  <2> QED BY <1>5, <1>6
<1> DEFINE at == Walk(path)
<1>8. DOMAIN at = 0 .. n /\ \A k \in 0 .. n : at[k] = IF k = 0 THEN first ELSE next(k, at[k - 1])
  <2> HIDE DEF at, names, n, first, next
  <2>1. Walks(at)
    BY <1>7 DEF at
  <2> QED BY <2>1
<1>9. \A k \in 0 .. n : at[k] \in X
  <2> DEFINE T == {k \in Nat : k <= n => at[k] \in X}
  <2> HIDE DEF at, names, n, first, X, next
  <2>1. 0 \in T
    BY <1>1, <1>2, <1>8
  <2>2. ASSUME NEW k \in Nat, k \in T PROVE k + 1 \in T
    <3> SUFFICES ASSUME k + 1 <= n PROVE at[k + 1] \in X
      OBVIOUS
    <3>1. k + 1 \in 1 .. n /\ k + 1 \in 0 .. n /\ k + 1 # 0 /\ (k + 1) - 1 = k /\ k <= n
      BY <1>1
    <3>2. at[k] \in X
      BY <2>2, <3>1
    <3>3. at[k + 1] = next(k + 1, at[k])
      BY <1>8, <3>1
    <3> QED BY <1>3, <3>1, <3>2, <3>3
  <2>3. \A k \in Nat : k \in T
    <3> HIDE DEF T
    <3> QED BY <2>1, <2>2, Induction
  <2> QED BY <1>1, <2>3
<1>10. \A k \in 1 .. n : at[k] = next(k, at[k - 1])
  <2> HIDE DEF at, names, n, first, next
  <2> QED BY <1>1, <1>8
<1>11. at[0] = first
  <2> HIDE DEF at, names, n, first, next
  <2> QED BY <1>1, <1>8
<1> QED BY <1>1, <1>8, <1>9, <1>10, <1>11

LEMMA LookupPath ==
  ASSUME FsInv(inode, root_inode), Place(inode, root_inode, cwd), NEW path \in Path
  PROVE  Found(inode, root_inode, vfs_lookup(path))
<1> DEFINE n == Len(Components(path.pieces))
<1>1. n \in Nat /\ \A k \in 0 .. n : Found(inode, root_inode, Walk(path)[k])
  BY WalkFinds
<1> HIDE DEF n
<1>2. n \in 0 .. n
  BY <1>1
<1> QED BY <1>1, <1>2 DEF vfs_lookup, n

-----------------------------------------------------------------------------
(* What the calls do to the inodes                                         *)

LEMMA SameAlike ==
  ASSUME NEW fs \in Seq(inode_t)
  PROVE  Alike(fs, fs)
BY DEF Alike

LEMMA RefsAlike ==
  ASSUME FsInv(inode, root_inode), Place(inode, root_inode, cwd), NEW path \in Path
  PROVE  Alike(inode, inode_ref(path))
<1>0. inode \in Seq(inode_t) /\ Inode = 1 .. Len(inode) /\ Len(inode) \in Nat
  BY DEF FsInv, FsTyped, Inode
<1>1. CASE ~CountRefs
  BY <1>0, <1>1, SameAlike DEF inode_ref
<1>2. CASE CountRefs
  <2> DEFINE refs(i) == Cardinality({k \in DOMAIN Walk(path) \ {0} : Walk(path)[k] = i})
             counted(i) == [inode[i] EXCEPT !.ref_count = @ + refs(i)]
             gs == [i \in Inode |-> counted(i)]
  <2>1. inode_ref(path) = gs
    BY <1>2 DEF inode_ref
  <2>2. ASSUME NEW i \in Inode PROVE refs(i) \in Nat
    <3> DEFINE n == Len(Components(path.pieces))
               S == {k \in DOMAIN Walk(path) \ {0} : Walk(path)[k] = i}
    <3>1. n \in Nat /\ DOMAIN Walk(path) = 0 .. n
      BY WalkFinds
    <3> HIDE DEF n
    <3>2. IsFiniteSet(0 .. n) /\ S \in SUBSET (0 .. n)
      BY <3>1, FS_Interval
    <3>3. IsFiniteSet(S)
      BY <3>2, FS_Subset
    <3>4. Cardinality(S) \in Nat
      BY <3>3, FS_CardinalityType
    <3> QED BY <3>4
  <2> HIDE DEF refs
  <2>3. ASSUME NEW i \in Inode
        PROVE  /\ counted(i) \in inode_t
               /\ counted(i).type = inode[i].type /\ counted(i).parent = inode[i].parent
               /\ counted(i).file_ops = inode[i].file_ops
               /\ counted(i).entries = inode[i].entries
               /\ counted(i).size = inode[i].size
               /\ counted(i).capacity = inode[i].capacity
               /\ counted(i).written = inode[i].written
    <3> DEFINE c == inode[i].ref_count + refs(i)
    <3>1. inode[i] \in inode_t /\ refs(i) \in Nat
      BY <1>0, <2>2
    <3>2. c \in Int
      BY <3>1 DEF inode_t
    <3>3. counted(i) = [inode[i] EXCEPT !.ref_count = c]
      OBVIOUS
    <3> HIDE DEF c, counted
    <3> QED BY <3>1, <3>2, <3>3 DEF inode_t
  <2> HIDE DEF counted
  <2>4. gs \in Seq(inode_t) /\ DOMAIN gs = Inode
    BY <1>0, <2>3
  <2>5. Alike(inode, gs)
    BY <2>3, <2>4 DEF Alike, Inode
  <2> QED BY <2>1, <2>5
<1> QED BY <1>1, <1>2

LEMMA AddEntryAdds ==
  ASSUME NEW fs \in Seq(inode_t), NEW dir \in DOMAIN fs, NEW name \in Name, NEW new \in inode_t
  PROVE  Added(fs, AddEntry(fs, dir, name, new), dir, name, new)
<1> DEFINE n == Len(fs)
           e == Entry(name, n + 1)
           gs == [fs EXCEPT ![dir].entries = Append(@, e)]
<1>1. n \in Nat /\ DOMAIN fs = 1 .. n /\ fs[dir] \in inode_t
  BY InodeFields
<1>2. e \in EntryType /\ fs[dir].entries \in Seq(EntryType)
  <2>1. n + 1 \in Nat /\ fs[dir].entries \in Seq(EntryType)
    BY <1>1, InodeFields
  <2> HIDE DEF n
  <2>2. e \in EntryType
    BY <2>1 DEF Entry, EntryType
  <2> QED BY <2>1, <2>2
<1>3. AddEntry(fs, dir, name, new) = Append(gs, new)
  BY DEF AddEntry
<1> HIDE DEF e
<1> DEFINE more == Append(fs[dir].entries, e)
           row == [fs[dir] EXCEPT !.entries = more]
<1>4. more \in Seq(EntryType)
  BY <1>2
<1>5. gs = [fs EXCEPT ![dir] = row]
  OBVIOUS
<1> HIDE DEF more
<1>6. /\ row \in inode_t
      /\ row.type = fs[dir].type /\ row.parent = fs[dir].parent /\ row.size = fs[dir].size
      /\ row.capacity = fs[dir].capacity /\ row.written = fs[dir].written
      /\ row.entries = more
  BY <1>1, <1>4 DEF inode_t, EntryType
<1> HIDE DEF row, gs
<1>7. /\ gs \in Seq(inode_t) /\ DOMAIN gs = 1 .. n /\ Len(gs) = n
      /\ \A i \in 1 .. n : gs[i] = IF i = dir THEN row ELSE fs[i]
  BY <1>1, <1>5, <1>6 DEF n
<1> HIDE DEF n
<1> DEFINE all == Append(gs, new)
<1>8. /\ all \in Seq(inode_t) /\ DOMAIN all = 1 .. n + 1 /\ all[n + 1] = new
      /\ \A i \in 1 .. n : all[i] = gs[i]
  BY <1>1, <1>7
<1> HIDE DEF all
<1>9. \A i \in DOMAIN fs :
       /\ all[i].type = fs[i].type /\ all[i].parent = fs[i].parent
       /\ all[i].size = fs[i].size /\ all[i].capacity = fs[i].capacity
       /\ all[i].written = fs[i].written
       /\ all[i].entries = IF i = dir THEN Append(fs[i].entries, Entry(name, n + 1))
                           ELSE fs[i].entries
  BY <1>1, <1>6, <1>7, <1>8 DEF more, e
<1>10. Added(fs, all, dir, name, new)
  BY <1>8, <1>9 DEF Added, n
<1> QED BY <1>3, <1>10 DEF all

LEMMA NewFile ==
  ASSUME NEW fs, NEW dir
  PROVE  /\ Fresh(fs, dir, File(0, RAMFS_FILE_CAPACITY))
         /\ File(0, RAMFS_FILE_CAPACITY).type = "FILE"
         /\ File(0, RAMFS_FILE_CAPACITY) \in inode_t
<1>1. <<>> \in Seq([name : Name, inode : Nat]) /\ 0 .. 0 - 1 = {}
  OBVIOUS
<1>2. RAMFS_FILE_CAPACITY \in Nat
  BY FileSystemAssumption
<1>3. File(0, RAMFS_FILE_CAPACITY) \in inode_t
  BY <1>1, <1>2 DEF File, inode_t, NULL
<1> QED BY <1>1, <1>3 DEF Fresh, File

LEMMA NewDirectoryFresh ==
  ASSUME NEW fs \in Seq(inode_t), NEW dir \in DOMAIN fs
  PROVE  Fresh(fs, dir, NewDirectory(fs, dir)) /\ NewDirectory(fs, dir) \in inode_t
<1>1. Len(fs) \in Nat /\ dir \in Nat
  BY InodeFields
<1> DEFINE entries == <<Entry(".", Len(fs) + 1), Entry("..", dir)>>
           refs == IF CountRefs THEN 0 ELSE 1
<1>2. entries \in Seq([name : Name, inode : Nat])
  <2>1. /\ Entry(".", Len(fs) + 1) \in [name : Name, inode : Nat]
        /\ Entry("..", dir) \in [name : Name, inode : Nat]
    <3> DEFINE n == Len(fs) + 1
    <3>1. n \in Nat /\ dir \in Nat
      BY <1>1
    <3> HIDE DEF n
    <3>2. /\ Entry(".", n) \in [name : Name, inode : Nat]
          /\ Entry("..", dir) \in [name : Name, inode : Nat]
      BY <3>1, FileSystemAssumption DEF Entry
    <3> QED BY <3>2 DEF n
  <2> QED BY <2>1
<1>3. refs \in Int
  OBVIOUS
<1>4. NewDirectory(fs, dir) =
        [type |-> "DIR", parent |-> dir, ref_count |-> refs, file_ops |-> FALSE,
         entries |-> entries, size |-> 0, capacity |-> 0, written |-> {}]
  BY DEF NewDirectory, Directory
<1> HIDE DEF entries, refs
<1>5. NewDirectory(fs, dir) \in inode_t
  BY <1>1, <1>2, <1>3, <1>4 DEF inode_t
<1> QED BY <1>4, <1>5 DEF Fresh, entries

\* touch: an empty file, or nothing
LEMMA CreateHolds ==
  ASSUME NEW fs, NEW root, NEW dir, NEW name \in Name,
         FsInv(fs, root), Place(fs, root, dir)
  PROVE  FsInv(ramfs_create(fs, dir, name), root) /\ Keeps(fs, ramfs_create(fs, dir, name))
<1> DEFINE new == File(0, RAMFS_FILE_CAPACITY)
           gs == AddEntry(fs, dir, name, new)
<1>1. fs \in Seq(inode_t) /\ dir \in DOMAIN fs
  BY DEF FsInv, FsTyped, Place, Dir
<1>2. Fresh(fs, dir, new) /\ new.type = "FILE" /\ new \in inode_t
  BY NewFile
<1> HIDE DEF new
<1>3. Added(fs, gs, dir, name, new)
  BY <1>1, <1>2, AddEntryAdds
<1> HIDE DEF gs
<1>5. FsInv(gs, root) /\ Keeps(fs, gs)
  BY <1>1, <1>2, <1>3, AddedHolds, AddedKeeps
<1>6. Keeps(fs, fs)
  BY <1>1, SameAlike, AlikeKeeps
<1> QED BY <1>5, <1>6 DEF ramfs_create, gs, new

\* mkdir: a directory of a name that is not there yet, or nothing
LEMMA MkdirHolds ==
  ASSUME NEW fs, NEW root, NEW dir, NEW name \in Name,
         FsInv(fs, root), Place(fs, root, dir)
  PROVE  FsInv(ramfs_mkdir(fs, dir, name), root) /\ Keeps(fs, ramfs_mkdir(fs, dir, name))
<1> DEFINE new == NewDirectory(fs, dir)
           gs == AddEntry(fs, dir, name, new)
           full == \/ Len(fs[dir].entries) >= MKDIR_MAX_ENTRIES
                   \/ \E e \in Range(fs[dir].entries) : e.name = name
<1>1. fs \in Seq(inode_t) /\ dir \in DOMAIN fs
  BY DEF FsInv, FsTyped, Place, Dir
<1>2. Fresh(fs, dir, new) /\ new \in inode_t
  BY <1>1, NewDirectoryFresh
<1>3. ~full => \A k \in DOMAIN fs[dir].entries : fs[dir].entries[k].name # name
  BY DEF Range
<1>4. ramfs_mkdir(fs, dir, name) = IF full THEN fs ELSE gs
  BY DEF ramfs_mkdir
<1> HIDE DEF new, full
<1>5. Added(fs, gs, dir, name, new)
  BY <1>1, <1>2, AddEntryAdds
<1> HIDE DEF gs
<1>6. ~full => FsInv(gs, root) /\ Keeps(fs, gs)
  BY <1>1, <1>2, <1>3, <1>5, AddedHolds, AddedKeeps
<1>7. Keeps(fs, fs)
  BY <1>1, SameAlike, AlikeKeeps
<1> QED BY <1>4, <1>6, <1>7

-----------------------------------------------------------------------------
(* The path of a directory                                                 *)

\* one step of Ascent
Step(x) ==
  IF EndsPath(x.dir) THEN x
  ELSE [dir |-> inode[x.dir].parent, pieces |-> <<NameAbove(x.dir)>> \o x.pieces]

\* The name is that of an entry through which lookup finds the directory.
LEMMA NameFound ==
  ASSUME FsInv(inode, root_inode), NEW d \in DOMAIN inode, ~EndsPath(d)
  PROVE  /\ inode[d].parent \in DOMAIN inode /\ inode[d].parent # d
         /\ NameAbove(d) \in Name
         /\ ramfs_lookup(inode[d].parent, NameAbove(d)) = d
         /\ \E k \in DOMAIN inode[inode[d].parent].entries :
              NameAbove(d) = inode[inode[d].parent].entries[k].name
<1> DEFINE up == inode[d].parent
           k == Min(NamesOf(up, d))
<1>1. up \in DOMAIN inode /\ up # d /\ NamesOf(up, d) # {}
  BY DEF EndsPath, FsInv, FsTyped
<1> HIDE DEF up
<1>2. inode[up].entries \in Seq(EntryType)
  BY <1>1, InodeFields DEF FsInv, FsTyped
<1>3. NamesOf(up, d) \in SUBSET Nat
  BY <1>2 DEF NamesOf
<1>4. k \in NamesOf(up, d)
  BY <1>1, <1>3, MinExists
<1>5. k \in DOMAIN inode[up].entries
      /\ ramfs_lookup(up, inode[up].entries[k].name) = d
  BY <1>4 DEF NamesOf
<1>6. NameAbove(d) = inode[up].entries[k].name
  BY DEF NameAbove, up
<1>7. inode[up].entries[k] \in EntryType
  BY <1>2, <1>5
<1>8. inode[up].entries[k].name \in Name
  BY <1>7 DEF EntryType
<1> QED BY <1>1, <1>5, <1>6, <1>8 DEF up

LEMMA AscentSteps ==
  ASSUME FsInv(inode, root_inode), NEW dir \in DOMAIN inode
  PROVE  LET above == Ascent(dir)
             n == Len(inode)
         IN  /\ n \in Nat
             /\ above \in [0 .. n -> [dir : DOMAIN inode, pieces : Seq(Name)]]
             /\ above[0] = [dir |-> dir, pieces |-> <<>>]
             /\ \A k \in 1 .. n : above[k] = Step(above[k - 1])
<1> DEFINE n == Len(inode)
           X == [dir : DOMAIN inode, pieces : Seq(Name)]
           first == [dir |-> dir, pieces |-> <<>>]
           step == [k \in 1 .. n |-> [x \in X |-> Step(x)]]
           Climbs(f) == f = [k \in 0 .. n |-> IF k = 0 THEN first ELSE Step(f[k - 1])]
<1>1. n \in Nat
  BY DEF FsInv, FsTyped
<1>2. first \in X
  OBVIOUS
<1>3. \A x \in X : Step(x) \in X
  <2> TAKE x \in X
  <2>1. CASE EndsPath(x.dir)
    BY <2>1 DEF Step
  <2>2. CASE ~EndsPath(x.dir)
    <3>1. inode[x.dir].parent \in DOMAIN inode /\ NameAbove(x.dir) \in Name
      BY <2>2, NameFound
    <3>2. x.pieces \in Seq(Name) /\ <<NameAbove(x.dir)>> \in Seq(Name)
      BY <3>1
    <3>3. <<NameAbove(x.dir)>> \o x.pieces \in Seq(Name)
      BY <3>2, ConcatProperties
    <3> QED BY <2>2, <3>1, <3>3 DEF Step
  <2> QED BY <2>1, <2>2
<1>4. step \in [1 .. n -> [X -> X]]
  BY <1>3
<1>5. \E f \in [0 .. n -> X] : Climbs(f)
  <2> HIDE DEF X, n, first, step
  <2>1. PICK f \in [0 .. n -> X] : Iterates(f, n, first, step)
    BY <1>1, <1>2, <1>4, Recursion
  <2>2. ASSUME NEW k \in 0 .. n
        PROVE  f[k] = IF k = 0 THEN first ELSE Step(f[k - 1])
    <3>1. f[k] = IF k = 0 THEN first ELSE step[k][f[k - 1]]
      BY <2>1 DEF Iterates
    <3>2. CASE k # 0
      <4>1. k \in 1 .. n /\ k - 1 \in 0 .. n
        BY <1>1, <3>2
      <4>2. f[k - 1] \in X
        BY <2>1, <4>1
      <4>3. step[k][f[k - 1]] = Step(f[k - 1])
        BY <4>1, <4>2 DEF step
      <4> QED BY <3>1, <3>2, <4>3
    <3> QED BY <3>1, <3>2
  <2>3. Climbs(f)
    <3>1. f = [k \in 0 .. n |-> f[k]]
      BY <2>1
    <3> QED BY <2>2, <3>1
  <2> QED BY <2>1, <2>3
<1>6. Ascent(dir) = CHOOSE f : Climbs(f)
  BY DEF Ascent, Step
<1>7. Climbs(Ascent(dir))
  <2> HIDE DEF Climbs
  <2> QED BY <1>5, <1>6
<1> DEFINE above == Ascent(dir)
<1>8. DOMAIN above = 0 .. n /\ \A k \in 0 .. n : above[k] = IF k = 0 THEN first ELSE Step(above[k - 1])
  <2> HIDE DEF above, n, first
  <2>1. Climbs(above)
    BY <1>7 DEF above
  <2> QED BY <2>1
<1>9. \A k \in 0 .. n : above[k] \in X
  <2> DEFINE T == {k \in Nat : k <= n => above[k] \in X}
  <2> HIDE DEF above, n, first, X
  <2>1. 0 \in T
    BY <1>1, <1>2, <1>8
  <2>2. ASSUME NEW k \in Nat, k \in T PROVE k + 1 \in T
    <3> SUFFICES ASSUME k + 1 <= n PROVE above[k + 1] \in X
      OBVIOUS
    <3>1. k + 1 \in 0 .. n /\ k + 1 # 0 /\ (k + 1) - 1 = k /\ k <= n
      BY <1>1
    <3>2. above[k] \in X
      BY <2>2, <3>1
    <3>3. above[k + 1] = Step(above[k])
      BY <1>8, <3>1
    <3> QED BY <1>3, <3>2, <3>3
  <2>3. \A k \in Nat : k \in T
    <3> HIDE DEF T
    <3> QED BY <2>1, <2>2, Induction
  <2> QED BY <1>1, <2>3
<1>10. above \in [0 .. n -> X]
  <2> HIDE DEF n, X
  <2>1. \E f \in [0 .. n -> X] : Climbs(f)
    BY <1>5
  <2>2. above = [k \in 0 .. n |-> IF k = 0 THEN first ELSE Step(above[k - 1])]
    BY <1>7
  <2> HIDE DEF above, first
  <2>3. above = [k \in 0 .. n |-> above[k]]
    BY <1>8, <2>2
  <2> QED BY <1>9, <2>3
<1>11. \A k \in 1 .. n : above[k] = Step(above[k - 1])
  <2> HIDE DEF above, n, first
  <2> QED BY <1>1, <1>8
<1>12. above[0] = first
  <2> HIDE DEF above, n, first
  <2> QED BY <1>1, <1>8
<1> QED BY <1>1, <1>10, <1>11, <1>12

LEMMA PathBuilt ==
  ASSUME FsInv(inode, root_inode), Place(inode, root_inode, cwd)
  PROVE  build_path(cwd) \in Path
<1>1. cwd \in DOMAIN inode
  BY DEF Place, Dir
<1> DEFINE n == Len(inode) above == Ascent(cwd)
<1>2. n \in Nat /\ above \in [0 .. n -> [dir : DOMAIN inode, pieces : Seq(Name)]]
  BY <1>1, AscentSteps
<1>3. build_path(cwd) = [absolute |-> TRUE, pieces |-> above[n].pieces]
  BY DEF build_path
<1> HIDE DEF n, above
<1>4. above[n].pieces \in Seq(Name)
  BY <1>2
<1> QED BY <1>3, <1>4 DEF Path

-----------------------------------------------------------------------------
(* Descriptors                                                             *)

LEMMA OpenFile ==
  ASSUME FdInv(inode, fd_table), NEW fd \in Fd, Open(fd)
  PROVE  /\ fd_table[fd].inode \in DOMAIN inode /\ fd_table[fd].offset \in Nat
         /\ fd_table[fd].offset <= IF Target(fd).type = "FILE" THEN Target(fd).size
                                   ELSE Len(Target(fd).entries)
<1>1. fd_table[fd] \in [inode : DOMAIN inode \cup {NULL}, offset : Nat]
  BY DEF FdInv
<1>2. fd_table[fd].inode # NULL
  <2> SUFFICES ASSUME fd_table[fd].inode = NULL PROVE fd_table[fd] = None
    BY DEF Open
  <2>1. fd_table[fd].offset = 0
    BY DEF FdInv
  <2> QED BY <1>1, <2>1 DEF None
<1> QED BY <1>1, <1>2 DEF FdInv, Target

\* A step that keeps the inodes keeps descriptors and places good.
LEMMA Inherits ==
  ASSUME FileSystemInv, NEW fs, FsInv(fs, root_inode), Keeps(inode, fs)
  PROVE  /\ FdInv(fs, fd_table)
         /\ \A d : Place(inode, root_inode, d) => Place(fs, root_inode, d)
<1>1. FsTyped(inode) /\ FsTyped(fs) /\ FdInv(inode, fd_table)
  BY DEF FileSystemInv, FsInv
<1>2. ASSUME NEW d, Place(inode, root_inode, d) PROVE Place(fs, root_inode, d)
  <2>1. Dir(inode, d) /\ (d # root_inode => Dir(inode, inode[d].parent))
    BY <1>2 DEF Place, FileSystemInv, FsInv, Tree, Dir
  <2> QED BY <1>1, <1>2, <2>1, KeepsPlace
<1> QED BY <1>1, <1>2, KeepsFds

\* fd_alloc opens an inode that was there at offset 0.
LEMMA Allocates ==
  ASSUME NEW fs, FdInv(fs, fd_table), FsTyped(fs), FreeFds # {}, NEW i \in DOMAIN fs
  PROVE  FdInv(fs, [fd_table EXCEPT ![Min(FreeFds)] = [inode |-> i, offset |-> 0]])
<1> DEFINE new == [inode |-> i, offset |-> 0]
           slot == Min(FreeFds)
           fds == [fd_table EXCEPT ![slot] = new]
<1>1. slot \in Fd
  <2>0. MAX_FD \in Nat
    BY FileSystemAssumption
  <2>1. FreeFds \in SUBSET Fd /\ Fd \in SUBSET Nat
    BY <2>0 DEF FreeFds, Fd
  <2>2. FreeFds \in SUBSET Nat
    BY <2>1
  <2>3. slot \in FreeFds
    BY <2>2, MinExists
  <2> QED BY <2>1, <2>3
<1>2. fs[i].size \in Nat /\ Len(fs[i].entries) \in Nat /\ i # NULL
  <2>1. fs \in Seq(inode_t)
    BY DEF FsTyped
  <2> QED BY <2>1, InodeFields DEF NULL
<1>3. fd_table \in [Fd -> [inode : DOMAIN fs \cup {NULL}, offset : Nat]]
  BY DEF FdInv
<1> HIDE DEF slot
<1>4. new \in [inode : DOMAIN fs \cup {NULL}, offset : Nat]
  OBVIOUS
<1>5. new.inode = i /\ new.offset = 0
  OBVIOUS
<1> HIDE DEF new
<1>6. fds \in [Fd -> [inode : DOMAIN fs \cup {NULL}, offset : Nat]]
  BY <1>3, <1>4
<1>7. \A fd \in Fd : fds[fd] = IF fd = slot THEN new ELSE fd_table[fd]
  BY <1>1, <1>3
<1> HIDE DEF fds
<1>8. ASSUME NEW fd \in Fd
      PROVE  /\ fds[fd].inode = NULL => fds[fd].offset = 0
             /\ fds[fd].inode # NULL =>
                  fds[fd].offset <= IF fs[fds[fd].inode].type = "FILE"
                                    THEN fs[fds[fd].inode].size
                                    ELSE Len(fs[fds[fd].inode].entries)
  <2>1. CASE fd = slot
    <3> DEFINE size == fs[i].size count == Len(fs[i].entries)
    <3>1. size \in Nat /\ count \in Nat
      BY <1>2
    <3> HIDE DEF size, count
    <3>2. 0 <= IF fs[i].type = "FILE" THEN size ELSE count
      BY <3>1
    <3>3. 0 <= IF fs[i].type = "FILE" THEN fs[i].size ELSE Len(fs[i].entries)
      BY <3>2 DEF size, count
    <3> QED BY <1>2, <1>5, <1>7, <2>1, <3>3
  <2>2. CASE fd # slot
    BY <1>7, <2>2 DEF FdInv
  <2> QED BY <2>1, <2>2
<1>9. FdInv(fs, fds)
  BY <1>6, <1>8 DEF FdInv
<1> QED BY <1>9 DEF fds, new, slot

-----------------------------------------------------------------------------
(* The calls                                                               *)

LEMMA OpenStep ==
  ASSUME FileSystemInv, NEW path \in Paths, sys_open(path)
  PROVE  FileSystemInv'
<1> DEFINE i == vfs_lookup(path)
<1>1. path \in Path
  BY FileSystemAssumption
<1>2. Alike(inode, inode') /\ Found(inode, root_inode, i)
  BY <1>1, RefsAlike, LookupPath DEF FileSystemInv, sys_open
<1>3. FsInv(inode', root_inode) /\ Keeps(inode, inode') /\ FsTyped(inode')
  BY <1>2, AlikeHolds, AlikeKeeps DEF FileSystemInv, FsInv, FsTyped
<1>4. FdInv(inode', fd_table) /\ Place(inode', root_inode, cwd)
  BY <1>3, Inherits DEF FileSystemInv
<1>5. FdInv(inode', fd_table')
  <2>1. CASE i # NULL /\ FreeFds # {}
    <3>1. i \in DOMAIN inode'
      BY <1>2, <2>1 DEF Found, Alike
    <3>2. fd_table' = [fd_table EXCEPT ![Min(FreeFds)] = [inode |-> i, offset |-> 0]]
      BY <2>1 DEF sys_open, fd_alloc
    <3> QED BY <1>3, <1>4, <2>1, <3>1, <3>2, Allocates
  <2>2. CASE ~(i # NULL /\ FreeFds # {})
    BY <1>4, <2>2 DEF sys_open
  <2> QED BY <2>1, <2>2
<1> QED BY <1>3, <1>4, <1>5 DEF sys_open, FileSystemInv

LEMMA CloseStep ==
  ASSUME FileSystemInv, NEW fd \in Fd, sys_close(fd)
  PROVE  FileSystemInv'
<1> DEFINE i == fd_table[fd].inode
<1>1. inode \in Seq(inode_t) /\ i \in DOMAIN inode /\ fd_table \in [Fd -> [inode : DOMAIN inode \cup {NULL}, offset : Nat]]
  BY OpenFile DEF sys_close, FileSystemInv, FsInv, FsTyped, FdInv
<1>2. Alike(inode, inode')
  <2>1. CASE ~CountRefs
    BY <1>1, <2>1, SameAlike DEF sys_close
  <2>2. CASE CountRefs
    <3> DEFINE row == [inode[i] EXCEPT !.ref_count = @ - 1]
    <3>1. inode' = [inode EXCEPT ![i] = row]
      BY <2>2 DEF sys_close
    <3>2. /\ row \in inode_t
          /\ row.type = inode[i].type /\ row.parent = inode[i].parent
          /\ row.file_ops = inode[i].file_ops /\ row.entries = inode[i].entries
          /\ row.size = inode[i].size /\ row.capacity = inode[i].capacity
          /\ row.written = inode[i].written
      <4> DEFINE c == inode[i].ref_count - 1
      <4>1. inode[i] \in inode_t
        BY <1>1
      <4>2. c \in Int
        <5>1. inode[i].ref_count \in Int
          BY <1>1, InodeFields
        <5> HIDE DEF i
        <5> QED BY <5>1
      <4>3. row = [inode[i] EXCEPT !.ref_count = c]
        OBVIOUS
      <4> HIDE DEF c, row, i
      <4> QED BY <4>1, <4>2, <4>3 DEF inode_t
    <3> HIDE DEF row, i
    <3> QED BY <1>1, <3>1, <3>2 DEF Alike
  <2> QED BY <2>1, <2>2
<1>3. FsInv(inode', root_inode) /\ Keeps(inode, inode')
  BY <1>1, <1>2, AlikeHolds, AlikeKeeps DEF FileSystemInv
<1>4. FdInv(inode', fd_table) /\ Place(inode', root_inode, cwd)
  BY <1>3, Inherits DEF FileSystemInv
<1>5. FdInv(inode', fd_table')
  <2>1. fd_table' = [fd_table EXCEPT ![fd] = None]
    BY DEF sys_close
  <2>2. None.inode = NULL /\ None.offset = 0
        /\ None \in [inode : DOMAIN inode' \cup {NULL}, offset : Nat]
    BY DEF None
  <2>3. fd_table \in [Fd -> [inode : DOMAIN inode' \cup {NULL}, offset : Nat]]
    BY <1>4 DEF FdInv
  <2>4. fd_table' \in [Fd -> [inode : DOMAIN inode' \cup {NULL}, offset : Nat]]
    BY <2>1, <2>2, <2>3
  <2>5. \A f \in Fd : fd_table'[f] = IF f = fd THEN None ELSE fd_table[f]
    BY <2>1, <2>3
  <2> QED BY <1>4, <2>2, <2>4, <2>5 DEF FdInv
<1> QED BY <1>3, <1>4, <1>5 DEF sys_close, FileSystemInv

\* A descriptor that moves inside of what it is open on stays good.
LEMMA Advances ==
  ASSUME NEW fs, FdInv(fs, fd_table), NEW fd \in Fd, NEW count \in Nat,
         fd_table[fd].inode # NULL,
         fd_table[fd].offset + count <=
           IF fs[fd_table[fd].inode].type = "FILE" THEN fs[fd_table[fd].inode].size
           ELSE Len(fs[fd_table[fd].inode].entries)
  PROVE  FdInv(fs, [fd_table EXCEPT ![fd].offset = @ + count])
<1> DEFINE old == fd_table[fd]
           new == [old EXCEPT !.offset = old.offset + count]
           fds == [fd_table EXCEPT ![fd] = new]
<1>1. fd_table \in [Fd -> [inode : DOMAIN fs \cup {NULL}, offset : Nat]]
  BY DEF FdInv
<1>2. old \in [inode : DOMAIN fs \cup {NULL}, offset : Nat]
  BY <1>1
<1>3. new.inode = old.inode /\ new.offset = old.offset + count
      /\ new \in [inode : DOMAIN fs \cup {NULL}, offset : Nat]
  <2> HIDE DEF old
  <2> QED BY <1>2
<1>4. [fd_table EXCEPT ![fd].offset = @ + count] = fds
  OBVIOUS
<1> HIDE DEF new
<1>5. fds \in [Fd -> [inode : DOMAIN fs \cup {NULL}, offset : Nat]]
  BY <1>1, <1>3
<1>6. \A f \in Fd : fds[f] = IF f = fd THEN new ELSE fd_table[f]
  BY <1>1
<1> HIDE DEF fds
<1>7. ASSUME NEW f \in Fd
      PROVE  /\ fds[f].inode = NULL => fds[f].offset = 0
             /\ fds[f].inode # NULL =>
                  fds[f].offset <= IF fs[fds[f].inode].type = "FILE"
                                   THEN fs[fds[f].inode].size
                                   ELSE Len(fs[fds[f].inode].entries)
  <2>1. CASE f = fd
    BY <1>3, <1>6, <2>1
  <2>2. CASE f # fd
    BY <1>6, <2>2 DEF FdInv
  <2> QED BY <2>1, <2>2
<1>8. FdInv(fs, fds)
  BY <1>5, <1>7 DEF FdInv
<1> QED BY <1>4, <1>8

LEMMA ReadStep ==
  ASSUME FileSystemInv, NEW fd \in Fd, NEW size \in Sizes, sys_read(fd, size)
  PROVE  FileSystemInv'
<1> DEFINE offset == fd_table[fd].offset
           end == Target(fd).size
           ret == ramfs_read(fd, size)
<1>1. /\ fd_table[fd].inode \in DOMAIN inode /\ fd_table[fd].inode # NULL
      /\ Target(fd).type = "FILE" /\ offset \in Nat /\ offset <= end /\ end \in Nat
  <2>1. inode \in Seq(inode_t) /\ FdInv(inode, fd_table)
    BY DEF FileSystemInv, FsInv, FsTyped
  <2>2. Open(fd) /\ Target(fd).type = "FILE"
    BY DEF sys_read, UsesFile
  <2>3. fd_table[fd].inode \in DOMAIN inode /\ offset \in Nat /\ offset <= end
    BY <2>1, <2>2, OpenFile
  <2>4. end \in Nat /\ fd_table[fd].inode # NULL
    BY <2>1, <2>3, InodeFields DEF Target, NULL
  <2> QED BY <2>2, <2>3, <2>4
<1>2. ret \in Nat /\ offset + ret <= end
  <2>1. size \in Nat
    BY FileSystemAssumption
  <2> DEFINE left == end - offset
  <2>2. left \in Int /\ left >= 0
    <3> HIDE DEF end, offset
    <3> QED BY <1>1
  <2>3. ret = IF left <= 0 THEN 0 ELSE IF size <= left THEN size ELSE left
    <3>1. Min({size, left}) = IF size <= left THEN size ELSE left
      BY <2>1, <2>2, OfTwo
    <3> QED BY <3>1 DEF ramfs_read
  <2> HIDE DEF ret
  <2>4. ret \in Nat /\ ret <= left
    <3> HIDE DEF left
    <3> QED BY <2>1, <2>2, <2>3
  <2> HIDE DEF end, offset
  <2> QED BY <1>1, <2>4
<1>3. fd_table' = [fd_table EXCEPT ![fd].offset = @ + ret]
  BY DEF sys_read
<1>4. FdInv(inode, fd_table)
  BY DEF FileSystemInv
<1> HIDE DEF ret
<1>5. FdInv(inode, fd_table')
  BY <1>1, <1>2, <1>3, <1>4, Advances DEF Target
<1> QED BY <1>5 DEF sys_read, FileSystemInv

LEMMA ReaddirStep ==
  ASSUME FileSystemInv, NEW fd \in Fd, sys_readdir(fd)
  PROVE  FileSystemInv'
<1> DEFINE count == Len(Target(fd).entries)
<1>1. /\ fd_table[fd].inode \in DOMAIN inode /\ fd_table[fd].inode # NULL
      /\ fd_table[fd].offset \in Nat /\ count \in Nat
  <2>1. inode \in Seq(inode_t) /\ FdInv(inode, fd_table)
    BY DEF FileSystemInv, FsInv, FsTyped
  <2>2. Open(fd)
    BY DEF sys_readdir
  <2>3. fd_table[fd].inode \in DOMAIN inode /\ fd_table[fd].offset \in Nat
    BY <2>1, <2>2, OpenFile
  <2>4. Target(fd).entries \in Seq(EntryType) /\ fd_table[fd].inode # NULL
    BY <2>1, <2>3, InodeFields DEF Target, NULL
  <2> QED BY <2>3, <2>4
<1>2. fd_table[fd].offset < count /\ Target(fd).type # "FILE"
  BY DEF sys_readdir
<1> HIDE DEF count
<1>3. fd_table[fd].offset + 1 <= count
  BY <1>1, <1>2
<1>4. FdInv(inode, [fd_table EXCEPT ![fd].offset = @ + 1])
  <2>1. FdInv(inode, fd_table) /\ 1 \in Nat
    BY DEF FileSystemInv
  <2>2. fd_table[fd].offset + 1 <=
           IF inode[fd_table[fd].inode].type = "FILE" THEN inode[fd_table[fd].inode].size
           ELSE Len(inode[fd_table[fd].inode].entries)
    BY <1>2, <1>3 DEF Target, count
  <2> QED BY <1>1, <2>1, <2>2, Advances
<1> QED BY <1>4 DEF sys_readdir, FileSystemInv

LEMMA ChdirStep ==
  ASSUME FileSystemInv, NEW path \in Paths, sys_chdir(path)
  PROVE  FileSystemInv'
<1> DEFINE i == vfs_lookup(path)
<1>1. path \in Path
  BY FileSystemAssumption
<1>2. Alike(inode, inode') /\ Found(inode, root_inode, i)
  BY <1>1, RefsAlike, LookupPath DEF FileSystemInv, sys_chdir
<1>3. FsInv(inode', root_inode) /\ Keeps(inode, inode')
  BY <1>2, AlikeHolds, AlikeKeeps DEF FileSystemInv, FsInv, FsTyped
<1>4. Place(inode, root_inode, cwd')
  BY <1>2 DEF sys_chdir, Found, FileSystemInv
<1>5. FdInv(inode', fd_table) /\ Place(inode', root_inode, cwd')
  BY <1>3, <1>4, Inherits
<1> QED BY <1>3, <1>5 DEF sys_chdir, FileSystemInv

LEMMA WriteStep ==
  ASSUME FileSystemInv, NEW fd \in Fd, NEW size \in Sizes, sys_write(fd, size)
  PROVE  FileSystemInv'
<1> DEFINE i == fd_table[fd].inode
           offset == fd_table[fd].offset
           ret == ramfs_write(fd, size)
           row == Stored(fd, ret)
<1>1. /\ inode \in Seq(inode_t) /\ i \in DOMAIN inode /\ i # NULL /\ Target(fd) = inode[i]
      /\ inode[i].type = "FILE" /\ offset \in Nat /\ offset <= inode[i].size
      /\ inode[i].size \in Nat /\ inode[i].capacity \in Nat /\ inode[i].size <= inode[i].capacity
  <2>1. inode \in Seq(inode_t) /\ FdInv(inode, fd_table) /\ FilesFit(inode)
    BY DEF FileSystemInv, FsInv, FsTyped
  <2>2. Open(fd) /\ Target(fd).type = "FILE"
    BY DEF sys_write, UsesFile
  <2>3. i \in DOMAIN inode /\ offset \in Nat /\ offset <= Target(fd).size
    BY <2>1, <2>2, OpenFile
  <2>4. inode[i].size \in Nat /\ inode[i].capacity \in Nat /\ i # NULL
    BY <2>1, <2>3, InodeFields DEF NULL
  <2> QED BY <2>1, <2>2, <2>3, <2>4 DEF Target, FilesFit
<1>2. ret \in Nat /\ offset + ret <= inode[i].capacity
  <2>1. size \in Nat
    BY FileSystemAssumption
  <2> DEFINE left == inode[i].capacity - offset
  <2>2. left \in Nat
    <3> HIDE DEF i, offset
    <3> QED BY <1>1
  <2>3. ret = Min({size, left})
    BY <1>1 DEF ramfs_write
  <2>4. ret = IF size <= left THEN size ELSE left
    <3> HIDE DEF left, ret
    <3> QED BY <2>1, <2>2, <2>3, OfTwo
  <2> HIDE DEF ret
  <2>5. ret \in Nat /\ ret <= left
    <3> HIDE DEF left
    <3> QED BY <2>1, <2>2, <2>4
  <2> HIDE DEF i, offset
  <2> QED BY <1>1, <2>5
<1>3. inode' = [inode EXCEPT ![i] = row] /\ fd_table' = [fd_table EXCEPT ![fd].offset = @ + ret]
  BY DEF sys_write
<1> HIDE DEF ret
<1>4. /\ row \in inode_t
      /\ row.type = inode[i].type /\ row.parent = inode[i].parent
      /\ row.entries = inode[i].entries /\ row.capacity = inode[i].capacity
      /\ row.size = IF inode[i].size <= offset + ret THEN offset + ret ELSE inode[i].size
      /\ row.written = inode[i].written \cup (offset .. offset + ret - 1)
  <2> DEFINE end == offset + ret
             w == inode[i].written \cup (offset .. offset + ret - 1)
             old == inode[i].size
             s == Max({old, end})
  <2>1. row = [inode[i] EXCEPT !.written = w, !.size = s]
    BY <1>1 DEF Stored
  <2>2. end \in Nat /\ old \in Nat
    <3> HIDE DEF offset, i
    <3> QED BY <1>1, <1>2
  <2>3. s = IF old <= end THEN end ELSE old
    <3> HIDE DEF end, old
    <3> QED BY <2>2, OfTwo
  <2>4. s \in Nat
    <3> HIDE DEF s, end, old
    <3> QED BY <2>2, <2>3
  <2>5. w \in SUBSET Nat
    <3>1. inode[i].written \in SUBSET Nat
      BY <1>1, InodeFields
    <3> HIDE DEF offset, i
    <3> QED BY <1>1, <1>2, <3>1
  <2>6. inode[i] \in inode_t
    BY <1>1
  <2> HIDE DEF row, i, w, s
  <2>7. /\ row \in inode_t
        /\ row.type = inode[i].type /\ row.parent = inode[i].parent
        /\ row.entries = inode[i].entries /\ row.capacity = inode[i].capacity
        /\ row.size = s /\ row.written = w
    BY <2>1, <2>4, <2>5, <2>6 DEF inode_t
  <2> QED BY <2>3, <2>7 DEF w
<1> HIDE DEF row, i, offset
<1>5. Wrote(inode, inode', i, offset, ret)
  BY <1>1, <1>3, <1>4 DEF Wrote
<1>6. FsInv(inode, root_inode) /\ FdInv(inode, fd_table) /\ Place(inode, root_inode, cwd)
  BY DEF FileSystemInv
<1>7. FsInv(inode', root_inode) /\ Keeps(inode, inode')
  BY <1>1, <1>2, <1>5, <1>6, WroteHolds, WroteKeeps
<1>8. FdInv(inode', fd_table) /\ Place(inode', root_inode, cwd)
  BY <1>6, <1>7, Inherits
<1>9. FdInv(inode', fd_table')
  <2>1. inode'[i].type = "FILE" /\ offset + ret <= inode'[i].size
    <3>1. /\ inode'[i].type = "FILE"
          /\ inode'[i].size = IF inode[i].size <= offset + ret THEN offset + ret ELSE inode[i].size
      BY <1>1, <1>5 DEF Wrote
    <3> QED BY <1>1, <1>2, <3>1
  <2>2. fd_table[fd].offset + ret <=
           IF inode'[fd_table[fd].inode].type = "FILE" THEN inode'[fd_table[fd].inode].size
           ELSE Len(inode'[fd_table[fd].inode].entries)
    BY <2>1 DEF i, offset
  <2>3. fd_table[fd].inode # NULL
    BY <1>1 DEF i
  <2> QED BY <1>2, <1>3, <1>8, <2>2, <2>3, Advances
<1> QED BY <1>7, <1>8, <1>9 DEF sys_write, FileSystemInv

LEMMA CreateStep ==
  ASSUME FileSystemInv, NEW path \in Paths, sys_create(path)
  PROVE  FileSystemInv'
<1> DEFINE above == Parent(path)
           dir == vfs_lookup(above)
           found == inode_ref(above)
           name == Last(path.pieces)
<1>1. above \in Path /\ name \in Name
  <2>1. path \in Path /\ path.pieces # <<>>
    BY FileSystemAssumption DEF sys_create
  <2>2. path.pieces \in Seq(Name)
    BY <2>1 DEF Path
  <2>3. Front(path.pieces) \in Seq(Name) /\ name \in Name
    BY <2>1, <2>2, FrontNames
  <2> QED BY <2>1, <2>3 DEF Parent, Path
<1> HIDE DEF above, name
<1>2. Alike(inode, found) /\ Found(inode, root_inode, dir)
  BY <1>1, RefsAlike, LookupPath DEF FileSystemInv
<1>3. /\ dir # NULL /\ inode[dir].type = "DIR"
      /\ inode' = ramfs_create(found, dir, name)
      /\ UNCHANGED <<root_inode, fd_table, cwd>>
  BY DEF sys_create, above, name
<1> HIDE DEF dir, found
<1>4. FsInv(found, root_inode) /\ Keeps(inode, found)
  BY <1>2, AlikeHolds, AlikeKeeps DEF FileSystemInv, FsInv, FsTyped
<1>5. Place(found, root_inode, dir)
  BY <1>2, <1>3, <1>4, Inherits DEF Found
<1>6. FsInv(inode', root_inode) /\ Keeps(found, inode')
  BY <1>1, <1>3, <1>4, <1>5, CreateHolds
<1>7. Keeps(inode, inode')
  BY <1>4, <1>6, KeepsOn DEF FileSystemInv, FsInv, FsTyped
<1>8. FdInv(inode', fd_table) /\ Place(inode', root_inode, cwd)
  BY <1>6, <1>7, Inherits DEF FileSystemInv
<1> QED BY <1>3, <1>6, <1>8 DEF FileSystemInv

LEMMA MkdirStep ==
  ASSUME FileSystemInv, NEW path \in Paths, sys_mkdir(path)
  PROVE  FileSystemInv'
<1> DEFINE up == IF path.absolute \/ Len(path.pieces) > 1 THEN Parent(path) ELSE build_path(cwd)
           dir == vfs_lookup(up)
           found == inode_ref(up)
           name == Last(path.pieces)
<1>1. up \in Path /\ name \in Name
  <2>1. path \in Path /\ path.pieces # <<>>
    BY FileSystemAssumption DEF sys_mkdir
  <2>2. path.pieces \in Seq(Name)
    BY <2>1 DEF Path
  <2>3. Front(path.pieces) \in Seq(Name) /\ name \in Name
    BY <2>1, <2>2, FrontNames
  <2>4. Parent(path) \in Path
    BY <2>1, <2>3 DEF Parent, Path
  <2>5. build_path(cwd) \in Path
    BY PathBuilt DEF FileSystemInv
  <2> QED BY <2>3, <2>4, <2>5
<1> HIDE DEF up, name
<1>2. Alike(inode, found) /\ Found(inode, root_inode, dir)
  BY <1>1, RefsAlike, LookupPath DEF FileSystemInv
<1>3. /\ dir # NULL /\ FreeFds # {}
      /\ fd_table' = [fd_table EXCEPT ![Min(FreeFds)] = [inode |-> dir, offset |-> 0]]
      /\ inode' = IF found[dir].type = "DIR" THEN ramfs_mkdir(found, dir, name) ELSE found
      /\ UNCHANGED <<root_inode, cwd>>
  BY DEF sys_mkdir, up, name, fd_alloc
<1> HIDE DEF dir, found
<1>4. FsInv(found, root_inode) /\ Keeps(inode, found)
  BY <1>2, AlikeHolds, AlikeKeeps DEF FileSystemInv, FsInv, FsTyped
<1>5. FsInv(inode', root_inode) /\ Keeps(found, inode')
  <2>1. CASE found[dir].type = "DIR"
    <3>1. Place(inode, root_inode, dir)
      BY <1>2, <1>3, <2>1 DEF Found, Alike
    <3>2. Place(found, root_inode, dir)
      BY <1>4, <3>1, Inherits
    <3> QED BY <1>1, <1>3, <1>4, <2>1, <3>2, MkdirHolds
  <2>2. CASE found[dir].type # "DIR"
    <3>1. Keeps(found, found)
      BY <1>4, SameAlike, AlikeKeeps DEF FsInv, FsTyped
    <3> QED BY <1>3, <1>4, <2>2, <3>1
  <2> QED BY <2>1, <2>2
<1>6. Keeps(inode, inode')
  BY <1>4, <1>5, KeepsOn DEF FileSystemInv, FsInv, FsTyped
<1>7. FdInv(inode', fd_table) /\ Place(inode', root_inode, cwd)
  BY <1>5, <1>6, Inherits DEF FileSystemInv
<1>8. dir \in DOMAIN inode'
  BY <1>2, <1>3, <1>6 DEF Found, Keeps
<1>9. FdInv(inode', fd_table')
  BY <1>3, <1>5, <1>7, <1>8, Allocates DEF FsInv
<1> QED BY <1>3, <1>5, <1>7, <1>9 DEF FileSystemInv

-----------------------------------------------------------------------------
(* The file system the boot loader hands over                              *)

\* The entries of a directory of the image: its children, then . and ..
LEMMA Loaded ==
  ASSUME NEW image \in Images, NEW i \in DOMAIN image.table, image.table[i].type = "DIR"
  PROVE  LET entries == LoadEntries(image, i)
             row == image.table[i]
         IN  /\ entries \in Seq(EntryType)
             /\ \A k \in 1 .. row.child_count :
                  /\ k \in DOMAIN entries
                  /\ row.first_child + k - 1 \in DOMAIN image.table
                  /\ row.first_child + k - 1 \in Children(row)
                  /\ entries[k] = Entry(image.table[row.first_child + k - 1].name,
                                        row.first_child + k - 1)
             /\ \A k \in DOMAIN entries : k \notin 1 .. row.child_count =>
                  entries[k].name \in Special /\ entries[k].inode \in DOMAIN image.table
<1> DEFINE row == image.table[i]
           n == row.child_count
           first == row.first_child
           up == IF row.parent = NULL THEN i ELSE row.parent
           e == [k \in 1 .. n |-> Entry(image.table[first + k - 1].name, first + k - 1)]
           dots == <<Entry(".", i), Entry("..", up)>>
<1>1. /\ image.table \in Seq(ramfs_disk_inode_t) /\ row \in ramfs_disk_inode_t
      /\ DOMAIN image.table \subseteq Nat
  <2>1. image.table \in Seq(ramfs_disk_inode_t)
    BY ImagesAssumption
  <2> QED BY <2>1
<1>2. n \in Nat /\ first \in Nat
  <2> HIDE DEF row
  <2> QED BY <1>1 DEF ramfs_disk_inode_t
<1>3. \A k \in Children(row) : k \in DOMAIN image.table
  BY ImagesAssumption
<1>4. ASSUME NEW k \in 1 .. n
      PROVE  first + k - 1 \in DOMAIN image.table /\ first + k - 1 \in Children(row)
  <2>1. first + k - 1 \in first .. first + n - 1
    <3> HIDE DEF n, first
    <3> QED BY <1>2
  <2> QED BY <1>3, <2>1 DEF Children
<1>5. up \in DOMAIN image.table
  <2>1. CASE row.parent = NULL
    BY <2>1
  <2>2. CASE row.parent # NULL
    <3>1. i # image.root
      <4>1. row.parent # NULL
        BY <2>2
      <4>2. image.table # <<>>
        BY <1>1
      <4>3. image.table[image.root].parent = NULL
        BY <4>2, ImagesAssumption
      <4> QED BY ONLY <4>1, <4>3 DEF row
    <3> QED BY <2>2, <3>1, ImagesAssumption
  <2> QED BY <2>1, <2>2
<1>6. e \in Seq(EntryType)
  <2>1. ASSUME NEW k \in 1 .. n
        PROVE  Entry(image.table[first + k - 1].name, first + k - 1) \in EntryType
    <3> DEFINE c == first + k - 1
    <3>1. c \in DOMAIN image.table
      BY <1>4
    <3> HIDE DEF c
    <3>2. c \in Nat /\ image.table[c] \in ramfs_disk_inode_t
      BY <1>1, <3>1
    <3>3. Entry(image.table[c].name, c) \in EntryType
      BY <3>2 DEF Entry, EntryType, ramfs_disk_inode_t
    <3> QED BY <3>3 DEF c
  <2> HIDE DEF n, first
  <2> QED BY <1>2, <2>1
<1>7. dots \in Seq(EntryType) /\ DOMAIN dots = 1 .. 2
      /\ dots[1] = Entry(".", i) /\ dots[2] = Entry("..", up)
  <2>1. i \in Nat /\ up \in Nat
    BY <1>1, <1>5
  <2> HIDE DEF up
  <2>2. Entry(".", i) \in EntryType /\ Entry("..", up) \in EntryType
    BY <2>1, FileSystemAssumption DEF Entry, EntryType
  <2> QED BY <2>2
<1>8. LoadEntries(image, i) = IF n < RAMFS_MAX_ENTRIES - 2 THEN e \o dots ELSE e
  BY DEF LoadEntries
<1>9. DOMAIN e = 1 .. n /\ Len(e) = n
      /\ \A k \in 1 .. n : e[k] = Entry(image.table[first + k - 1].name, first + k - 1)
  <2> HIDE DEF n, first
  <2> QED BY <1>2
<1>10. Entry(".", i).name \in Special /\ Entry("..", up).name \in Special
       /\ Entry(".", i).inode = i /\ Entry("..", up).inode = up
  BY DEF Entry, Special
<1> DEFINE all == e \o dots
<1>11. /\ all \in Seq(EntryType) /\ DOMAIN all = 1 .. n + 2
       /\ \A k \in 1 .. n : all[k] = e[k]
       /\ \A k \in 1 .. n + 2 : k \in 1 .. n \/ all[k] = dots[1] \/ all[k] = dots[2]
  <2> HIDE DEF e, dots, n
  <2>1. Len(dots) = 2
    BY <1>7
  <2>2. /\ all \in Seq(EntryType) /\ Len(all) = n + 2
        /\ \A k \in 1 .. n + 2 : all[k] = IF k <= n THEN e[k] ELSE dots[k - n]
    <3>1. e \in Seq(EntryType) /\ dots \in Seq(EntryType) /\ Len(e) = n
      BY <1>6, <1>7, <1>9
    <3>2. /\ all \in Seq(EntryType) /\ Len(all) = Len(e) + Len(dots)
          /\ \A k \in 1 .. Len(e) + Len(dots) :
               all[k] = IF k <= Len(e) THEN e[k] ELSE dots[k - Len(e)]
      BY ONLY <3>1, ConcatProperties
    <3> QED BY ONLY <2>1, <3>1, <3>2
  <2>3. \A k \in 1 .. n + 2 : all[k] = IF k <= n THEN e[k] ELSE dots[k - n]
    BY <2>2
  <2>4. \A k \in 1 .. n + 2 : k \in 1 .. n \/ (~(k <= n) /\ (k - n = 1 \/ k - n = 2))
    BY <1>2
  <2>5. \A k \in 1 .. n : k \in 1 .. n + 2 /\ k <= n
    BY <1>2
  <2>6. DOMAIN all = 1 .. n + 2
    BY <2>2
  <2> HIDE DEF all
  <2> QED BY <2>2, <2>3, <2>4, <2>5, <2>6
<1> HIDE DEF all
<1>12. 1 .. n \subseteq 1 .. n + 2
  <2> HIDE DEF n
  <2> QED BY <1>2
<1> DEFINE entries == LoadEntries(image, i)
<1>13. /\ entries \in Seq(EntryType) /\ 1 .. n \subseteq DOMAIN entries
       /\ \A k \in 1 .. n : entries[k] = e[k]
       /\ \A k \in DOMAIN entries : k \in 1 .. n \/ entries[k] = dots[1] \/ entries[k] = dots[2]
  <2>1. CASE n < RAMFS_MAX_ENTRIES - 2
    <3>1. entries = all
      BY <1>8, <2>1 DEF all
    <3> QED BY <1>11, <1>12, <3>1
  <2>2. CASE ~(n < RAMFS_MAX_ENTRIES - 2)
    <3>1. entries = e
      BY <1>8, <2>2
    <3> HIDE DEF e, n, entries
    <3> QED BY <1>6, <1>9, <3>1
  <2> QED BY <2>1, <2>2
<1> HIDE DEF entries, e, dots, up
<1>14. \A k \in 1 .. n : /\ k \in DOMAIN entries
                        /\ first + k - 1 \in DOMAIN image.table
                        /\ first + k - 1 \in Children(row)
                        /\ entries[k] = Entry(image.table[first + k - 1].name, first + k - 1)
  BY <1>4, <1>9, <1>13
<1>15. \A k \in DOMAIN entries : k \notin 1 .. n =>
         entries[k].name \in Special /\ entries[k].inode \in DOMAIN image.table
  BY <1>5, <1>7, <1>10, <1>13
<1> QED BY <1>13, <1>14, <1>15 DEF entries

LEMMA LoadHolds ==
  ASSUME NEW image \in Images, image.table # <<>>
  PROVE  FsInv(ramfs_create_root(image), image.root)
<1> DEFINE table == image.table
           root == image.root
           fs == ramfs_create_root(image)
           node(i) == LET row == image.table[i]
                      IN  IF row.type = "DIR"
                          THEN Directory(LoadEntries(image, i), row.parent, TRUE, 1)
                          ELSE [File(row.size, row.size) EXCEPT !.parent = row.parent]
<1>1. /\ table \in Seq(ramfs_disk_inode_t) /\ Len(table) \in Nat /\ DOMAIN table = 1 .. Len(table)
      /\ root \in DOMAIN table /\ table[root].type = "DIR" /\ table[root].parent = NULL
  <2>1. table \in Seq(ramfs_disk_inode_t)
    BY ImagesAssumption
  <2>2. root \in DOMAIN table /\ table[root].type = "DIR" /\ table[root].parent = NULL
    BY ImagesAssumption
  <2> HIDE DEF table
  <2>3. Len(table) \in Nat /\ DOMAIN table = 1 .. Len(table)
    BY <2>1
  <2> QED BY <2>1, <2>2, <2>3
<1>2. \A i \in DOMAIN table \ {root} :
         /\ table[i].parent \in DOMAIN table /\ table[table[i].parent].type = "DIR"
         /\ i \in Children(table[table[i].parent])
  BY ImagesAssumption
<1>3. \A i \in DOMAIN table : table[i].type = "DIR" =>
         \A k \in Children(table[i]) :
           /\ k \in DOMAIN table /\ i < k /\ table[k].parent = i
           /\ table[k].name \notin {"", ".", ".."}
           /\ \A j \in Children(table[i]) : table[j].name = table[k].name => j = k
  BY ImagesAssumption
<1>4. fs = [i \in DOMAIN table |-> node(i)]
  BY DEF ramfs_create_root
<1>5. ASSUME NEW i \in DOMAIN table
      PROVE  /\ node(i) \in inode_t
             /\ node(i).type = table[i].type /\ node(i).parent = table[i].parent
             /\ node(i).size <= node(i).capacity /\ node(i).written = 0 .. node(i).size - 1
             /\ table[i].type = "FILE" => node(i).entries = <<>>
             /\ table[i].type = "DIR" => node(i).entries = LoadEntries(image, i)
             /\ table[i].type \in {"FILE", "DIR"}
             /\ table[i].child_count \in Nat /\ table[i].first_child \in Nat
  <2>1. table[i] \in ramfs_disk_inode_t
    BY <1>1
  <2> DEFINE row == table[i]
  <2>2. /\ row.type \in {"FILE", "DIR"} /\ row.parent \in Nat /\ row.size \in Nat
        /\ row.child_count \in Nat /\ row.first_child \in Nat
    BY <2>1 DEF ramfs_disk_inode_t
  <2>3. CASE row.type = "DIR"
    <3>1. node(i) = Directory(LoadEntries(image, i), row.parent, TRUE, 1)
      BY <2>3
    <3> DEFINE entries == LoadEntries(image, i)
    <3>2. entries \in Seq(EntryType)
      BY <2>3, Loaded
    <3> HIDE DEF entries, row, node
    <3>3. Directory(entries, row.parent, TRUE, 1) \in inode_t
      BY <2>2, <3>2 DEF Directory, inode_t, EntryType
    <3>4. /\ node(i).type = "DIR" /\ node(i).parent = row.parent /\ node(i).size = 0
          /\ node(i).capacity = 0 /\ node(i).written = {} /\ node(i).entries = entries
      BY <3>1 DEF Directory, entries
    <3>5. node(i) \in inode_t
      BY <3>1, <3>3 DEF row, entries
    <3>6. 0 <= 0 /\ {} = 0 .. 0 - 1
      OBVIOUS
    <3>7. node(i).size <= node(i).capacity /\ node(i).written = 0 .. node(i).size - 1
      BY <3>4, <3>6
    <3>8. row.type # "FILE"
      BY <2>3
    <3> QED BY <2>2, <2>3, <3>4, <3>5, <3>7, <3>8 DEF row, entries
  <2>4. CASE row.type # "DIR"
    <3> DEFINE f == [type |-> "FILE", parent |-> row.parent, ref_count |-> 1, file_ops |-> TRUE,
                     entries |-> <<>>, size |-> row.size, capacity |-> row.size,
                     written |-> 0 .. row.size - 1]
    <3>1. node(i) = f
      BY <2>4 DEF File
    <3> HIDE DEF row, node
    <3>2. <<>> \in Seq(EntryType) /\ 0 .. row.size - 1 \in SUBSET Nat
      BY <2>2
    <3>3. f \in inode_t
      BY <2>2, <3>2 DEF inode_t, EntryType
    <3> QED BY <2>2, <2>4, <3>1, <3>3 DEF row
  <2> QED BY <2>3, <2>4
<1> HIDE DEF node
<1>6. fs \in Seq(inode_t) /\ DOMAIN fs = DOMAIN table
  BY <1>1, <1>4, <1>5
<1>7. \A i \in DOMAIN table :
        /\ fs[i].type = table[i].type /\ fs[i].parent = table[i].parent
        /\ fs[i].size <= fs[i].capacity /\ fs[i].written = 0 .. fs[i].size - 1
        /\ table[i].type = "FILE" => fs[i].entries = <<>>
        /\ table[i].type = "DIR" => fs[i].entries = LoadEntries(image, i)
        /\ table[i].type \in {"FILE", "DIR"}
        /\ table[i].child_count \in Nat /\ table[i].first_child \in Nat
  BY <1>4, <1>5
<1>8. ASSUME NEW i \in DOMAIN table, NEW k
      PROVE  LET row == table[i]
                 c == row.first_child + k - 1
             IN  /\ k \in DOMAIN fs[i].entries => row.type = "DIR"
                 /\ row.type = "DIR" /\ k \in 1 .. row.child_count =>
                      /\ k \in DOMAIN fs[i].entries
                      /\ c \in DOMAIN table /\ c \in Children(row)
                      /\ fs[i].entries[k] = Entry(table[c].name, c)
                 /\ k \in DOMAIN fs[i].entries /\ k \notin 1 .. row.child_count =>
                      /\ fs[i].entries[k].name \in Special
                      /\ fs[i].entries[k].inode \in DOMAIN table
  <2>1. ASSUME k \in DOMAIN fs[i].entries PROVE table[i].type = "DIR"
    <3>1. DOMAIN <<>> = {}
      OBVIOUS
    <3> QED BY <1>7, <2>1, <3>1
  <2>2. table[i].type = "DIR" => fs[i].entries = LoadEntries(image, i)
    BY <1>7
  <2> QED BY <2>1, <2>2, Loaded
<1>9. FsTyped(fs)
  <2>1. \A i \in DOMAIN table : fs[i].parent \in DOMAIN fs \cup {NULL}
    BY <1>1, <1>2, <1>6, <1>7
  <2>2. \A i \in DOMAIN table : \A k \in DOMAIN fs[i].entries :
           fs[i].entries[k].inode \in DOMAIN fs
    <3> TAKE i \in DOMAIN table
    <3> TAKE k \in DOMAIN fs[i].entries
    <3> DEFINE row == table[i] c == row.first_child + k - 1
    <3>1. CASE k \in 1 .. row.child_count
      <4>1. c \in DOMAIN table /\ fs[i].entries[k] = Entry(table[c].name, c)
        BY <1>8, <3>1
      <4> HIDE DEF c
      <4> QED BY <1>6, <4>1 DEF Entry
    <3>2. CASE k \notin 1 .. row.child_count
      BY <1>6, <1>8, <3>2
    <3> QED BY <3>1, <3>2
  <2> QED BY <1>6, <2>1, <2>2 DEF FsTyped
<1>10. FilesFit(fs)
  BY <1>6, <1>7 DEF FilesFit
<1>11. Tree(fs, root)
  <2>1. Dir(fs, root) /\ fs[root].parent = NULL
    BY <1>1, <1>6, <1>7 DEF Dir
  <2>2. ASSUME NEW d \in DOMAIN fs \ {root}, fs[d].type = "DIR"
        PROVE  Dir(fs, fs[d].parent) /\ fs[d].parent < d
    <3> DEFINE p == table[d].parent
    <3>1. d \in DOMAIN table \ {root} /\ table[d].type = "DIR"
      BY <1>6, <1>7, <2>2
    <3>2. p \in DOMAIN table /\ table[p].type = "DIR" /\ d \in Children(table[p])
      BY <1>2, <3>1
    <3>3. p < d
      BY <1>3, <3>2
    <3> QED BY <1>6, <1>7, <3>1, <3>2, <3>3 DEF Dir
  <2> QED BY <2>1, <2>2 DEF Tree
<1>12. EntriesInv(fs)
  <2> SUFFICES ASSUME NEW i \in DOMAIN table, NEW k \in DOMAIN fs[i].entries,
                      fs[i].entries[k].name \notin Special
               PROVE  /\ fs[fs[i].entries[k].inode].parent = i
                      /\ \A j \in 1 .. k - 1 :
                           fs[i].entries[j].name # fs[i].entries[k].name
    BY <1>6 DEF EntriesInv
  <2> DEFINE row == table[i]
             c(x) == row.first_child + x - 1
  <2>1. /\ k \in 1 .. row.child_count /\ c(k) \in DOMAIN table /\ c(k) \in Children(row)
        /\ fs[i].entries[k] = Entry(table[c(k)].name, c(k)) /\ row.type = "DIR"
    BY <1>8
  <2>2. fs[c(k)].parent = i
    BY <1>3, <1>7, <2>1
  <2>3. ASSUME NEW j \in 1 .. k - 1
        PROVE  fs[i].entries[j].name # fs[i].entries[k].name
    <3>1. row.child_count \in Nat /\ row.first_child \in Nat
      BY <1>7
    <3>2. j \in 1 .. row.child_count /\ c(j) # c(k)
      <4> HIDE DEF row
      <4> QED BY <2>1, <3>1
    <3>3. c(j) \in Children(row) /\ fs[i].entries[j] = Entry(table[c(j)].name, c(j))
      BY <1>8, <2>1, <3>2
    <3>4. table[c(j)].name # table[c(k)].name
      BY <1>3, <2>1, <3>2, <3>3
    <3> QED BY <2>1, <3>3, <3>4 DEF Entry
  <2> QED BY <2>1, <2>2, <2>3 DEF Entry
<1>13. ASSUME NEW d \in DOMAIN table \ {root} PROVE Named(fs, d)
  <2> DEFINE up == table[d].parent
             row == table[up]
             k == d - row.first_child + 1
  <2>1. up \in DOMAIN table /\ row.type = "DIR" /\ d \in Children(row) /\ fs[d].parent = up
    BY <1>2, <1>7
  <2>2. row.child_count \in Nat /\ row.first_child \in Nat /\ d \in Int
    BY <1>1, <1>7, <2>1
  <2>3. k \in 1 .. row.child_count /\ row.first_child + k - 1 = d
    <3>1. d \in row.first_child .. row.first_child + row.child_count - 1
      BY <2>1 DEF Children
    <3> HIDE DEF row
    <3> QED BY <2>2, <3>1
  <2>4. k \in DOMAIN fs[up].entries /\ fs[up].entries[k] = Entry(table[d].name, d)
    <3>1. /\ k \in DOMAIN fs[up].entries
          /\ fs[up].entries[k] = Entry(table[row.first_child + k - 1].name,
                                      row.first_child + k - 1)
      BY <1>8, <2>1, <2>3
    <3> HIDE DEF k, row
    <3> QED BY <2>3, <3>1
  <2>5. table[d].name \notin Special
    BY <1>3, <2>1 DEF Special
  <2>6. /\ k \in DOMAIN fs[fs[d].parent].entries
        /\ fs[fs[d].parent].entries[k] = Entry(table[d].name, d)
    BY <2>1, <2>4
  <2> HIDE DEF k, table
  <2>7. fs[fs[d].parent].entries[k].inode = d /\ fs[fs[d].parent].entries[k].name \notin Special
    BY <2>5, <2>6 DEF Entry
  <2> QED BY <2>6, <2>7 DEF Named
<1>14. PlacesInv(fs, root)
  BY <1>1, <1>2, <1>6, <1>7, <1>13 DEF PlacesInv, Place, Dir
<1> QED BY <1>9, <1>10, <1>11, <1>12, <1>14 DEF FsInv

LEMMA InitHolds ==
  ASSUME Init
  PROVE  FileSystemInv
<1>1. PICK image \in Images :
        /\ root_inode = IF image.table = <<>> THEN 1 ELSE image.root
        /\ inode = LET fs == ramfs_create_root(image)
                   IN  IF CountRefs THEN [fs EXCEPT ![root_inode].ref_count = @ + 1] ELSE fs
  BY DEF Init
<1> DEFINE fs == ramfs_create_root(image)
<1>2. FsInv(fs, root_inode)
  <2>1. CASE image.table # <<>>
    BY <1>1, <2>1, LoadHolds
  <2>2. CASE image.table = <<>>
    <3> DEFINE empty == Directory(<<>>, NULL, TRUE, 1)
    <3>1. fs = <<empty>> /\ root_inode = 1
      BY <1>1, <2>2 DEF ramfs_create_root
    <3>2. empty \in inode_t
      <4>1. <<>> \in Seq([name : Name, inode : Nat])
        OBVIOUS
      <4> QED BY <4>1 DEF Directory, inode_t, NULL
    <3>3. /\ empty.type = "DIR" /\ empty.parent = NULL /\ empty.size = 0
          /\ empty.capacity = 0 /\ empty.written = {} /\ empty.entries = <<>>
      BY DEF Directory
    <3> HIDE DEF empty, fs
    <3>4. fs \in Seq(inode_t) /\ DOMAIN fs = {1} /\ fs[1] = empty
      BY <3>1, <3>2
    <3>5. DOMAIN <<>> = {}
      OBVIOUS
    <3>6. FsTyped(fs) /\ FilesFit(fs)
      <4>1. 0 <= 0 /\ {} = 0 .. 0 - 1
        OBVIOUS
      <4>2. FsTyped(fs)
        BY <3>3, <3>4, <3>5 DEF FsTyped
      <4>3. FilesFit(fs)
        BY <3>3, <3>4, <4>1 DEF FilesFit
      <4> QED BY <4>2, <4>3
    <3>7. Tree(fs, root_inode) /\ EntriesInv(fs) /\ PlacesInv(fs, root_inode)
      BY <3>1, <3>3, <3>4, <3>5 DEF Tree, Dir, EntriesInv, PlacesInv
    <3> QED BY <3>6, <3>7 DEF FsInv
  <2> QED BY <2>1, <2>2
<1>3. fs \in Seq(inode_t) /\ root_inode \in DOMAIN fs
  BY <1>2 DEF FsInv, FsTyped, Tree, Dir
<1> HIDE DEF fs
<1>4. Alike(fs, inode)
  <2>1. CASE ~CountRefs
    BY <1>1, <1>3, <2>1, SameAlike DEF fs
  <2>2. CASE CountRefs
    <3> DEFINE c == fs[root_inode].ref_count + 1
               row == [fs[root_inode] EXCEPT !.ref_count = c]
    <3>1. inode = [fs EXCEPT ![root_inode] = row]
      BY <1>1, <2>2 DEF fs
    <3>2. c \in Int /\ fs[root_inode] \in inode_t
      BY <1>3, InodeFields
    <3> HIDE DEF c
    <3>3. /\ row \in inode_t
          /\ row.type = fs[root_inode].type /\ row.parent = fs[root_inode].parent
          /\ row.file_ops = fs[root_inode].file_ops /\ row.entries = fs[root_inode].entries
          /\ row.size = fs[root_inode].size /\ row.capacity = fs[root_inode].capacity
          /\ row.written = fs[root_inode].written
      BY <3>2 DEF inode_t
    <3> HIDE DEF row
    <3> QED BY <1>3, <3>1, <3>3 DEF Alike
  <2> QED BY <2>1, <2>2
<1>5. FsInv(inode, root_inode)
  BY <1>2, <1>4, AlikeHolds
<1>6. FdInv(inode, fd_table)
  <2>1. fd_table = [fd \in Fd |-> None]
    BY DEF Init
  <2>2. None \in [inode : DOMAIN inode \cup {NULL}, offset : Nat]
        /\ None.inode = NULL /\ None.offset = 0
    BY DEF None
  <2> QED BY <2>1, <2>2 DEF FdInv
<1>7. Place(inode, root_inode, cwd)
  BY <1>5 DEF Init, Place, FsInv, Tree
<1> QED BY <1>5, <1>6, <1>7 DEF FileSystemInv

-----------------------------------------------------------------------------
(* The theorems                                                            *)

LEMMA StepHolds ==
  ASSUME FileSystemInv, [Next]_vars
  PROVE  FileSystemInv'
<1>1. CASE \E path \in Paths : sys_open(path) \/ sys_create(path) \/ sys_mkdir(path) \/ sys_chdir(path)
  BY <1>1, OpenStep, CreateStep, MkdirStep, ChdirStep
<1>2. CASE \E fd \in Fd : sys_close(fd) \/ sys_readdir(fd)
  BY <1>2, CloseStep, ReaddirStep
<1>3. CASE \E fd \in Fd, size \in Sizes : sys_read(fd, size) \/ sys_write(fd, size)
  BY <1>3, ReadStep, WriteStep
<1>4. CASE UNCHANGED vars
  <2>1. UNCHANGED <<inode, root_inode, fd_table, cwd>>
    BY <1>4 DEF vars
  <2>2. FsInv(inode', root_inode') /\ FdInv(inode', fd_table') /\ Place(inode', root_inode', cwd')
    BY <2>1 DEF FileSystemInv
  <2> QED BY <2>2 DEF FileSystemInv
<1> QED BY <1>1, <1>2, <1>3, <1>4 DEF Next

\* No call breaks the invariant, whatever image the kernel was booted with.
THEOREM FileSystemInvariance == Spec => []FileSystemInv
<1>1. Init => FileSystemInv
  BY InitHolds
<1>2. FileSystemInv /\ [Next]_vars => FileSystemInv'
  BY StepHolds
<1> QED BY <1>1, <1>2, PTL DEF Spec

\* The type invariant: every entry, parent, descriptor and working directory
\* refers to an inode there is, and no byte is stored past the capacity.
THEOREM TypeCorrect == Spec => []TypeOK
<1>1. ASSUME FileSystemInv PROVE TypeOK
  <2>1. inode \in Seq(inode_t) /\ FsTyped(inode) /\ FilesFit(inode) /\ Dir(inode, root_inode)
        /\ Dir(inode, cwd)
    BY <1>1 DEF FileSystemInv, FsInv, FsTyped, Tree, Place
  <2>2. ASSUME NEW i \in Inode PROVE inode[i].written \subseteq 0 .. inode[i].capacity - 1
    <3>1. inode[i].size \in Nat /\ inode[i].capacity \in Nat
      BY <2>1, InodeFields DEF Inode
    <3>2. inode[i].size <= inode[i].capacity /\ inode[i].written = 0 .. inode[i].size - 1
      BY <2>1 DEF FilesFit, Inode
    <3> QED BY <3>1, <3>2
  <2>3. fd_table \in [Fd -> [inode : Inode \cup {NULL}, offset : Nat]]
    BY <1>1 DEF FileSystemInv, FdInv, Inode
  <2> QED BY <2>1, <2>2, <2>3 DEF TypeOK, FsTyped, Dir, Inode
<1> QED BY <1>1, FileSystemInvariance, PTL

\* However many descriptors share a file, no offset passes its size and no size
\* its capacity: the unsigned differences of ramfs_read and ramfs_write are
\* never those of a smaller and a larger number.
THEOREM OffsetsCorrect == Spec => []OffsetInFile
<1>1. ASSUME FileSystemInv PROVE OffsetInFile
  <2> SUFFICES ASSUME NEW fd \in Fd, Open(fd)
               PROVE  IF Target(fd).type = "FILE"
                      THEN /\ fd_table[fd].offset <= Target(fd).size
                           /\ Target(fd).size <= Target(fd).capacity
                      ELSE fd_table[fd].offset <= Len(Target(fd).entries)
    BY DEF OffsetInFile
  <2>1. FdInv(inode, fd_table) /\ FilesFit(inode)
    BY <1>1 DEF FileSystemInv, FsInv
  <2>2. /\ fd_table[fd].inode \in DOMAIN inode
        /\ fd_table[fd].offset <= IF Target(fd).type = "FILE" THEN Target(fd).size
                                  ELSE Len(Target(fd).entries)
    BY <2>1, OpenFile
  <2>3. Target(fd).size <= Target(fd).capacity
    BY <2>1, <2>2 DEF FilesFit, Target
  <2> QED BY <2>2, <2>3
<1> QED BY <1>1, FileSystemInvariance, PTL

\* What a read returns has been written, though the memory of a file is not
\* cleared: no file has a hole.
THEOREM ReadsCorrect == Spec => []ReadsWritten
<1>1. FileSystemInv => ReadsWritten
  BY DEF FileSystemInv, FsInv, FilesFit, ReadsWritten, Inode
<1> QED BY <1>1, FileSystemInvariance, PTL

\* A directory is found under its name for good, whatever files touch puts
\* beside it under the same name.
THEOREM DirectoriesCorrect == Spec => []DirectoryNotHidden
<1>1. ASSUME FileSystemInv PROVE DirectoryNotHidden
  <2> SUFFICES ASSUME NEW dir \in Inode, NEW e \in Range(inode[dir].entries),
                      inode[e.inode].type = "DIR", e.name \notin Special
               PROVE  ramfs_lookup(dir, e.name) = e.inode
    BY DEF DirectoryNotHidden, Special
  <2>1. FsInv(inode, root_inode) /\ dir \in DOMAIN inode
    BY <1>1 DEF FileSystemInv, Inode
  <2>2. PICK k \in DOMAIN inode[dir].entries : e = inode[dir].entries[k]
    BY DEF Range
  <2> QED BY <2>1, <2>2, NotHidden
<1> QED BY <1>1, FileSystemInvariance, PTL

-----------------------------------------------------------------------------
(* The path of the working directory.  touch and mkdir name what they make *)
(* by the last piece of a path, which is empty after a slash at the end;   *)
(* without such paths no entry has an empty name.                          *)

NoName == ""

NamedPaths == \A path \in Paths : path.pieces # <<>> => Last(path.pieces) # NoName

NamesInv(fs) ==
  \A i \in DOMAIN fs : \A k \in DOMAIN fs[i].entries : fs[i].entries[k].name # NoName

LEMMA AddedNames ==
  ASSUME NEW fs, NEW gs, NEW dir, NEW name \in Name, NEW new, fs \in Seq(inode_t),
         Added(fs, gs, dir, name, new), Fresh(fs, dir, new), name # NoName, NamesInv(fs)
  PROVE  NamesInv(gs)
<1> SUFFICES ASSUME NEW i \in DOMAIN gs, NEW k \in DOMAIN gs[i].entries
             PROVE  gs[i].entries[k].name # NoName
  BY DEF NamesInv
<1>1. DOMAIN gs = DOMAIN fs \cup {Len(fs) + 1} /\ OldOrNew(fs, gs, dir, name)
  BY AddedKeeps
<1>2. CASE i \in DOMAIN fs
  <2>1. CASE k \in DOMAIN fs[i].entries /\ gs[i].entries[k] = fs[i].entries[k]
    BY <1>2, <2>1 DEF NamesInv
  <2>2. CASE gs[i].entries[k] = Entry(name, Len(fs) + 1)
    <3>1. Entry(name, Len(fs) + 1).name = name
      BY DEF Entry
    <3> QED BY <2>2, <3>1
  <2> QED BY <1>1, <1>2, <2>1, <2>2 DEF OldOrNew
<1>3. CASE i = Len(fs) + 1
  <2>1. gs[i].entries = new.entries
    BY <1>3 DEF Added
  <2>2. \A x \in DOMAIN new.entries : new.entries[x].name = "." \/ new.entries[x].name = ".."
    <3>1. \A x \in DOMAIN new.entries :
            new.entries[x] = Entry(".", Len(fs) + 1) \/ new.entries[x] = Entry("..", dir)
      <4> DEFINE a == Entry(".", Len(fs) + 1) b == Entry("..", dir)
      <4>1. new.entries = <<>> \/ new.entries = <<a, b>>
        BY DEF Fresh
      <4> HIDE DEF a, b
      <4>2. \A x \in DOMAIN new.entries : new.entries[x] = a \/ new.entries[x] = b
        <5>1. DOMAIN <<a, b>> = 1 .. 2 /\ <<a, b>>[1] = a /\ <<a, b>>[2] = b
          OBVIOUS
        <5>2. DOMAIN <<>> = {} /\ \A x \in 1 .. 2 : x = 1 \/ x = 2
          OBVIOUS
        <5> QED BY <4>1, <5>1, <5>2
      <4> QED BY <4>2 DEF a, b
    <3>2. Entry(".", Len(fs) + 1).name = "." /\ Entry("..", dir).name = ".."
      BY DEF Entry
    <3> QED BY <3>1, <3>2
  <2>3. "." # NoName /\ ".." # NoName
    BY DEF NoName
  <2> QED BY <2>1, <2>2, <2>3
<1> QED BY <1>1, <1>2, <1>3

LEMMA CreateNames ==
  ASSUME NEW fs, NEW dir \in DOMAIN fs, NEW name \in Name, fs \in Seq(inode_t), name # NoName,
         NamesInv(fs)
  PROVE  NamesInv(ramfs_create(fs, dir, name)) /\ NamesInv(ramfs_mkdir(fs, dir, name))
<1> DEFINE file == File(0, RAMFS_FILE_CAPACITY)
           sub == NewDirectory(fs, dir)
           gs == AddEntry(fs, dir, name, file)
           hs == AddEntry(fs, dir, name, sub)
<1>1. Fresh(fs, dir, file) /\ file \in inode_t
  BY NewFile
<1>2. Fresh(fs, dir, sub) /\ sub \in inode_t
  BY NewDirectoryFresh
<1>3. ramfs_create(fs, dir, name) = fs \/ ramfs_create(fs, dir, name) = gs
  BY DEF ramfs_create
<1>4. ramfs_mkdir(fs, dir, name) = fs \/ ramfs_mkdir(fs, dir, name) = hs
  BY DEF ramfs_mkdir
<1> HIDE DEF file, sub
<1>5. Added(fs, gs, dir, name, file) /\ Added(fs, hs, dir, name, sub)
  BY <1>1, <1>2, AddEntryAdds
<1> HIDE DEF gs, hs
<1>6. NamesInv(gs)
  BY <1>1, <1>5, AddedNames
<1>7. NamesInv(hs)
  BY <1>2, <1>5, AddedNames
<1> QED BY <1>3, <1>4, <1>6, <1>7

LEMMA AlikeNames ==
  ASSUME NEW fs, NEW gs, Alike(fs, gs), NamesInv(fs)
  PROVE  NamesInv(gs)
BY DEF Alike, NamesInv

LEMMA NamesStep ==
  ASSUME FileSystemInv, NamedPaths, NamesInv(inode), [Next]_vars
  PROVE  NamesInv(inode')
<1>0. inode \in Seq(inode_t) /\ FsInv(inode, root_inode) /\ FdInv(inode, fd_table)
      /\ Place(inode, root_inode, cwd)
  BY DEF FileSystemInv, FsInv, FsTyped
<1>1. ASSUME NEW path \in Path, Alike(inode, inode_ref(path)),
             NEW name \in Name, name # NoName, NEW dir \in DOMAIN inode,
             \/ inode' = inode_ref(path)
             \/ inode' = ramfs_create(inode_ref(path), dir, name)
             \/ inode' = ramfs_mkdir(inode_ref(path), dir, name)
      PROVE  NamesInv(inode')
  <2> DEFINE found == inode_ref(path)
  <2>1. found \in Seq(inode_t) /\ dir \in DOMAIN found /\ NamesInv(found)
    BY <1>1, AlikeNames DEF Alike
  <2> HIDE DEF found
  <2>2. NamesInv(ramfs_create(found, dir, name)) /\ NamesInv(ramfs_mkdir(found, dir, name))
    BY <1>1, <2>1, CreateNames
  <2> QED BY <1>1, <2>1, <2>2 DEF found
<1>2. ASSUME NEW path \in Paths, sys_open(path) \/ sys_chdir(path) PROVE NamesInv(inode')
  <2>1. path \in Path
    BY FileSystemAssumption
  <2>2. Alike(inode, inode_ref(path))
    BY <1>0, <2>1, RefsAlike
  <2>3. inode' = inode_ref(path)
    BY <1>2 DEF sys_open, sys_chdir
  <2> QED BY <2>2, <2>3, AlikeNames
<1>3. ASSUME NEW path \in Paths, sys_create(path) \/ sys_mkdir(path) PROVE NamesInv(inode')
  <2> DEFINE name == Last(path.pieces)
             up == IF sys_create(path) \/ path.absolute \/ Len(path.pieces) > 1
                   THEN Parent(path) ELSE build_path(cwd)
             dir == vfs_lookup(up)
  <2>1. path \in Path /\ path.pieces # <<>>
    BY <1>3, FileSystemAssumption DEF sys_create, sys_mkdir
  <2>2. path.pieces \in Seq(Name)
    BY <2>1 DEF Path
  <2>3. Front(path.pieces) \in Seq(Name) /\ name \in Name /\ name # NoName
    BY <2>1, <2>2, FrontNames DEF NamedPaths
  <2>4. Parent(path) \in Path
    BY <2>1, <2>3 DEF Parent, Path
  <2>5. build_path(cwd) \in Path
    BY <1>0, PathBuilt
  <2>6. up \in Path
    BY <2>4, <2>5
  <2>7. dir # NULL /\ (\/ inode' = inode_ref(up)
                       \/ inode' = ramfs_create(inode_ref(up), dir, name)
                       \/ inode' = ramfs_mkdir(inode_ref(up), dir, name))
    <3>1. CASE sys_create(path)
      <4>1. up = Parent(path)
        BY <3>1
      <4> HIDE DEF up
      <4> QED BY <3>1, <4>1 DEF sys_create
    <3>2. CASE ~sys_create(path)
      <4>1. sys_mkdir(path)
        BY <1>3, <3>2
      <4>2. up = IF path.absolute \/ Len(path.pieces) > 1 THEN Parent(path) ELSE build_path(cwd)
        BY <3>2
      <4> HIDE DEF up
      <4> QED BY <4>1, <4>2 DEF sys_mkdir
    <3> QED BY <3>1, <3>2
  <2> HIDE DEF up, name
  <2>8. Alike(inode, inode_ref(up)) /\ Found(inode, root_inode, dir)
    BY <1>0, <2>6, RefsAlike, LookupPath
  <2>9. dir \in DOMAIN inode
    BY <2>7, <2>8 DEF Found
  <2> HIDE DEF dir
  <2> QED BY <1>1, <2>3, <2>6, <2>7, <2>8, <2>9
<1>4. ASSUME NEW fd \in Fd, sys_close(fd) PROVE NamesInv(inode')
  <2>1. fd_table[fd].inode \in DOMAIN inode
    BY <1>0, <1>4, OpenFile DEF sys_close
  <2>2. /\ DOMAIN inode' = DOMAIN inode
        /\ \A i \in DOMAIN inode : inode'[i].entries = inode[i].entries
    <3>1. CASE ~CountRefs
      BY <1>4, <3>1 DEF sys_close
    <3>2. CASE CountRefs
      <4> DEFINE j == fd_table[fd].inode
                 row == [inode[j] EXCEPT !.ref_count = @ - 1]
      <4>1. inode' = [inode EXCEPT ![j] = row]
        BY <1>4, <3>2 DEF sys_close
      <4>2. inode[j] \in inode_t
        BY <1>0, <2>1
      <4> HIDE DEF j
      <4>3. row.entries = inode[j].entries
        BY <4>2 DEF inode_t
      <4> HIDE DEF row
      <4> QED BY <2>1, <4>1, <4>3
    <3> QED BY <3>1, <3>2
  <2> QED BY <2>2 DEF NamesInv
<1>5. ASSUME NEW fd \in Fd, NEW size \in Sizes, sys_write(fd, size) PROVE NamesInv(inode')
  <2> DEFINE j == fd_table[fd].inode
             row == Stored(fd, ramfs_write(fd, size))
  <2>1. j \in DOMAIN inode
    BY <1>0, <1>5, OpenFile DEF sys_write, UsesFile
  <2>2. inode' = [inode EXCEPT ![j] = row]
    BY <1>5 DEF sys_write
  <2>3. row.entries = inode[j].entries
    <3>1. inode[j] \in inode_t /\ Target(fd) = inode[j]
      BY <1>0, <2>1 DEF Target
    <3> DEFINE w == inode[j].written \cup
                      (fd_table[fd].offset .. fd_table[fd].offset + ramfs_write(fd, size) - 1)
               s == Max({inode[j].size, fd_table[fd].offset + ramfs_write(fd, size)})
    <3>2. row = [inode[j] EXCEPT !.written = w, !.size = s]
      BY <3>1 DEF Stored
    <3> HIDE DEF w, s, row, j
    <3> QED BY <3>1, <3>2 DEF inode_t
  <2> HIDE DEF row, j
  <2> QED BY <2>1, <2>2, <2>3 DEF NamesInv
<1>6. ASSUME inode' = inode PROVE NamesInv(inode')
  BY <1>6 DEF NamesInv
<1>7. CASE \E path \in Paths : sys_open(path) \/ sys_create(path) \/ sys_mkdir(path) \/ sys_chdir(path)
  BY <1>2, <1>3, <1>7
<1>8. CASE \E fd \in Fd : sys_close(fd) \/ sys_readdir(fd)
  BY <1>4, <1>6, <1>8 DEF sys_readdir
<1>9. CASE \E fd \in Fd, size \in Sizes : sys_read(fd, size) \/ sys_write(fd, size)
  BY <1>5, <1>6, <1>9 DEF sys_read
<1>10. CASE UNCHANGED vars
  BY <1>6, <1>10 DEF vars
<1> QED BY <1>7, <1>8, <1>9, <1>10 DEF Next

LEMMA NamesInit ==
  ASSUME Init
  PROVE  NamesInv(inode)
<1>1. PICK image \in Images :
        inode = LET fs == ramfs_create_root(image)
                IN  IF CountRefs THEN [fs EXCEPT ![root_inode].ref_count = @ + 1] ELSE fs
  BY DEF Init
<1> DEFINE fs == ramfs_create_root(image)
<1>2. DOMAIN inode = DOMAIN fs /\ \A i \in DOMAIN fs : inode[i].entries = fs[i].entries
  <2>1. FsInv(inode, root_inode)
    BY InitHolds DEF FileSystemInv
  <2>2. CASE ~CountRefs
    BY <1>1, <2>2
  <2>3. CASE CountRefs
    <3> DEFINE row == [fs[root_inode] EXCEPT !.ref_count = @ + 1]
    <3>1. inode = [fs EXCEPT ![root_inode] = row]
      BY <1>1, <2>3
    <3>2. row.entries = fs[root_inode].entries
      OBVIOUS
    <3> HIDE DEF fs, row
    <3> QED BY <3>1, <3>2
  <2> QED BY <2>2, <2>3
<1>3. \A i \in DOMAIN fs : \A k \in DOMAIN fs[i].entries : fs[i].entries[k].name # NoName
  <2>1. CASE image.table = <<>>
    <3> DEFINE empty == Directory(<<>>, NULL, TRUE, 1)
    <3>1. fs = <<empty>> /\ empty.entries = <<>>
      BY <2>1 DEF ramfs_create_root, Directory
    <3> HIDE DEF fs, empty
    <3>2. DOMAIN fs = {1} /\ fs[1] = empty /\ DOMAIN <<>> = {}
      BY <3>1
    <3> QED BY <3>1, <3>2
  <2>2. CASE image.table # <<>>
    <3> SUFFICES ASSUME NEW i \in DOMAIN fs, NEW k \in DOMAIN fs[i].entries
                 PROVE  fs[i].entries[k].name # NoName
      OBVIOUS
    <3> DEFINE row == image.table[i] c == row.first_child + k - 1
    <3>1. i \in DOMAIN image.table
      BY <2>2 DEF ramfs_create_root
    <3>2. row.type = "DIR" => fs[i].entries = LoadEntries(image, i)
      BY <2>2, <3>1 DEF ramfs_create_root, Directory
    <3>3. row.type = "DIR"
      <4>1. DOMAIN <<>> = {}
        OBVIOUS
      <4>2. row.type # "DIR" => fs[i].entries = <<>>
        BY <2>2, <3>1 DEF ramfs_create_root, File
      <4> QED BY <4>1, <4>2
    <3>4. k \in DOMAIN LoadEntries(image, i)
      BY <3>2, <3>3
    <3>5. CASE k \in 1 .. row.child_count
      <4>1. c \in Children(row) /\ fs[i].entries[k] = Entry(image.table[c].name, c)
        BY <3>1, <3>2, <3>3, <3>5, Loaded
      <4>2. image.table[c].name # NoName
        BY <3>1, <3>3, <4>1, ImagesAssumption DEF NoName
      <4> HIDE DEF c
      <4>3. Entry(image.table[c].name, c).name = image.table[c].name
        BY DEF Entry
      <4> QED BY <4>1, <4>2, <4>3
    <3>6. CASE k \notin 1 .. row.child_count
      BY <3>1, <3>2, <3>3, <3>4, <3>6, Loaded DEF Special, NoName
    <3> QED BY <3>5, <3>6
  <2> QED BY <2>1, <2>2
<1> HIDE DEF fs
<1> QED BY <1>2, <1>3 DEF NamesInv

\* Looking up the names one after the other leads from the inode d to the inode c.
Leads(d, names, c) ==
  \E f \in [0 .. Len(names) -> DOMAIN inode] :
    /\ f[0] = d /\ f[Len(names)] = c
    /\ \A j \in 1 .. Len(names) : f[j] = ramfs_lookup(f[j - 1], names[j])

LEMMA LeadsFromAbove ==
  ASSUME NEW d \in DOMAIN inode, NEW up \in DOMAIN inode, NEW c, NEW name \in Name,
         NEW names \in Seq(Name), ramfs_lookup(up, name) = d, Leads(d, names, c)
  PROVE  Leads(up, <<name>> \o names, c)
<1> DEFINE n == Len(names)
           more == <<name>> \o names
<1>1. n \in Nat
  OBVIOUS
<1>2. Len(more) = n + 1 /\ more[1] = name /\ \A j \in 2 .. n + 1 : more[j] = names[j - 1]
  <2>1. <<name>> \in Seq(Name) /\ Len(<<name>>) = 1 /\ <<name>>[1] = name
    OBVIOUS
  <2>2. /\ Len(more) = Len(<<name>>) + Len(names)
        /\ \A j \in 1 .. Len(<<name>>) + Len(names) :
             more[j] = IF j <= Len(<<name>>) THEN <<name>>[j] ELSE names[j - Len(<<name>>)]
    BY ONLY <2>1, names \in Seq(Name), ConcatProperties
  <2>3. Len(more) = 1 + n /\ \A j \in 1 .. 1 + n : more[j] = IF j <= 1 THEN name ELSE names[j - 1]
    <3>1. \A j \in 1 .. 1 + n : j <= 1 => j = 1
      BY <1>1
    <3> HIDE DEF more
    <3> QED BY <2>1, <2>2, <3>1
  <2> HIDE DEF more, n
  <2> QED BY <1>1, <2>3
<1>3. PICK f \in [0 .. n -> DOMAIN inode] :
        /\ f[0] = d /\ f[n] = c
        /\ \A j \in 1 .. n : f[j] = ramfs_lookup(f[j - 1], names[j])
  BY DEF Leads
<1> HIDE DEF more, n
<1> DEFINE g == [j \in 0 .. n + 1 |-> IF j = 0 THEN up ELSE f[j - 1]]
<1>4. g \in [0 .. n + 1 -> DOMAIN inode] /\ g[0] = up /\ g[n + 1] = c
  <2>1. \A j \in 0 .. n + 1 : j # 0 => j - 1 \in 0 .. n
    BY <1>1
  <2>2. g \in [0 .. n + 1 -> DOMAIN inode]
    BY <1>3, <2>1
  <2>3. n + 1 \in 0 .. n + 1 /\ n + 1 # 0 /\ (n + 1) - 1 = n /\ 0 \in 0 .. n + 1
    BY <1>1
  <2> QED BY <1>3, <2>2, <2>3
<1>5. \A j \in 1 .. n + 1 : g[j] = ramfs_lookup(g[j - 1], more[j])
  <2> TAKE j \in 1 .. n + 1
  <2>1. j \in 0 .. n + 1 /\ j - 1 \in 0 .. n + 1 /\ j # 0 /\ g[j] = f[j - 1]
    BY <1>1
  <2>2. CASE j = 1
    <3>1. g[j - 1] = up /\ g[j] = f[0]
      BY <2>1, <2>2
    <3> QED BY <1>2, <1>3, <2>2, <3>1
  <2>3. CASE j # 1
    <3>1. j - 1 \in 1 .. n /\ j - 1 # 0 /\ j \in 2 .. n + 1
      BY <1>1, <2>3
    <3>2. g[j - 1] = f[(j - 1) - 1]
      BY <2>1, <3>1
    <3>3. f[j - 1] = ramfs_lookup(f[(j - 1) - 1], names[j - 1])
      BY <1>3, <3>1
    <3> QED BY <1>2, <2>1, <3>1, <3>2, <3>3
  <2> QED BY <2>2, <2>3
<1> HIDE DEF g
<1> QED BY <1>2, <1>4, <1>5 DEF Leads, more

\* Lookup of an absolute path goes where its components lead from the root.
LEMMA LookupFollows ==
  ASSUME FsInv(inode, root_inode), Place(inode, root_inode, cwd), NEW path \in Path,
         path.absolute, NEW c, Leads(root_inode, Components(path.pieces), c)
  PROVE  vfs_lookup(path) = c
<1> DEFINE names == Components(path.pieces)
           n == Len(names)
           at == Walk(path)
<1>1. /\ n \in Nat /\ at[0] = root_inode
      /\ \A k \in 1 .. n : at[k] = IF at[k - 1] = NULL THEN NULL ELSE ramfs_lookup(at[k - 1], names[k])
  BY WalkFinds
<1>2. PICK f \in [0 .. n -> DOMAIN inode] :
        /\ f[0] = root_inode /\ f[n] = c
        /\ \A j \in 1 .. n : f[j] = ramfs_lookup(f[j - 1], names[j])
  BY DEF Leads
<1>3. NULL \notin DOMAIN inode
  BY DEF NULL, FsInv, FsTyped
<1> DEFINE T == {k \in Nat : k <= n => at[k] = f[k]}
<1> HIDE DEF at, names, n
<1>4. 0 \in T
  BY <1>1, <1>2
<1>5. ASSUME NEW k \in Nat, k \in T PROVE k + 1 \in T
  <2> SUFFICES ASSUME k + 1 <= n PROVE at[k + 1] = f[k + 1]
    OBVIOUS
  <2>1. k + 1 \in 1 .. n /\ k \in 0 .. n /\ (k + 1) - 1 = k /\ k <= n
    BY <1>1
  <2>2. at[k] = f[k] /\ f[k] # NULL
    BY <1>2, <1>3, <1>5, <2>1
  <2>3. f[k + 1] = ramfs_lookup(f[k], names[k + 1])
    BY <1>2, <2>1
  <2> QED BY <1>1, <2>1, <2>2, <2>3
<1>6. n \in T
  <2> HIDE DEF T
  <2> QED BY <1>1, <1>4, <1>5, Induction
<1>7. at[n] = c
  BY <1>1, <1>2, <1>6
<1> QED BY <1>7 DEF vfs_lookup, at, n, names

\* The way up from a place ends at the root only, and every place on it has a name.
LEMMA PlaceNamed ==
  ASSUME FsInv(inode, root_inode), NEW d, Place(inode, root_inode, d)
  PROVE  /\ EndsPath(d) <=> d = root_inode
         /\ d # root_inode =>
              Place(inode, root_inode, inode[d].parent) /\ inode[d].parent < d
<1>1. d \in DOMAIN inode /\ inode[d].type = "DIR"
  BY DEF Place, Dir
<1>2. d = root_inode => EndsPath(d)
  BY DEF EndsPath, FsInv, Tree
<1>3. ASSUME d # root_inode
      PROVE  ~EndsPath(d) /\ Place(inode, root_inode, inode[d].parent) /\ inode[d].parent < d
  <2> DEFINE up == inode[d].parent
  <2>1. Place(inode, root_inode, up) /\ up < d /\ up \in DOMAIN inode
    BY <1>1, <1>3 DEF FsInv, PlacesInv, Tree, Dir
  <2>2. up # NULL /\ up # d
    BY <1>1, <2>1 DEF NULL, FsInv, FsTyped
  <2>3. PICK k \in DOMAIN inode[up].entries :
          inode[up].entries[k].inode = d /\ inode[up].entries[k].name \notin Special
    BY <1>3 DEF Place, Named
  <2>4. ramfs_lookup(up, inode[up].entries[k].name) = d
    BY <1>1, <2>1, <2>3, NotHidden
  <2>5. NamesOf(up, d) # {}
    BY <2>4 DEF NamesOf
  <2> QED BY <2>1, <2>2, <2>5 DEF EndsPath
<1> QED BY <1>2, <1>3

\* Climbing as many steps as there are inodes reaches the root, and the names
\* met lead back.
LEMMA AscentLeads ==
  ASSUME FsInv(inode, root_inode), NamesInv(inode), NEW dir, Place(inode, root_inode, dir)
  PROVE  LET top == Ascent(dir)[Len(inode)]
         IN  /\ top.pieces \in Seq(Name) /\ Leads(root_inode, top.pieces, dir)
             /\ \A j \in DOMAIN top.pieces : top.pieces[j] # NoName
<1> DEFINE n == Len(inode)
           above == Ascent(dir)
           Good(x, k) == /\ Place(inode, root_inode, x.dir)
                         /\ x.dir = root_inode \/ x.dir + k <= n
                         /\ Leads(x.dir, x.pieces, dir)
                         /\ \A j \in DOMAIN x.pieces : x.pieces[j] # NoName
           T == {k \in Nat : k <= n => Good(above[k], k)}
<1>1. dir \in DOMAIN inode /\ DOMAIN inode = 1 .. n /\ inode \in Seq(inode_t)
  BY DEF Place, Dir, FsInv, FsTyped
<1>2. /\ n \in Nat /\ above \in [0 .. n -> [dir : DOMAIN inode, pieces : Seq(Name)]]
      /\ above[0] = [dir |-> dir, pieces |-> <<>>]
      /\ \A k \in 1 .. n : above[k] = Step(above[k - 1])
  BY <1>1, AscentSteps
<1> HIDE DEF n, above
<1>3. 0 \in T
  <2>1. Leads(dir, <<>>, dir)
    <3> DEFINE f == [j \in 0 .. 0 |-> dir]
    <3>1. f \in [0 .. 0 -> DOMAIN inode] /\ f[0] = dir /\ Len(<<>>) = 0 /\ 1 .. 0 = {}
      BY <1>1
    <3> HIDE DEF f
    <3> QED BY <3>1 DEF Leads
  <2>2. above[0].dir = dir /\ above[0].pieces = <<>> /\ DOMAIN <<>> = {} /\ dir + 0 <= n
    BY <1>1, <1>2
  <2>3. Good(above[0], 0)
    BY <2>1, <2>2
  <2> HIDE DEF Good
  <2> QED BY <2>3
<1>4. ASSUME NEW k \in Nat, k \in T PROVE k + 1 \in T
  <2> SUFFICES ASSUME k + 1 <= n PROVE Good(above[k + 1], k + 1)
    <3> HIDE DEF Good
    <3> QED OBVIOUS
  <2> DEFINE x == above[k]
             d == x.dir
             up == inode[d].parent
  <2>1. k + 1 \in 1 .. n /\ k \in 0 .. n /\ (k + 1) - 1 = k /\ k <= n
    <3>1. n \in Nat
      BY <1>2
    <3> QED BY <3>1
  <2>2. Good(x, k) /\ above[k + 1] = Step(x) /\ x \in [dir : DOMAIN inode, pieces : Seq(Name)]
    <3>1. Good(x, k)
      <4> HIDE DEF Good
      <4> QED BY <1>4, <2>1
    <3> HIDE DEF Good
    <3> QED BY <1>2, <2>1, <3>1
  <2> HIDE DEF x
  <2>3. Place(inode, root_inode, d) /\ d \in DOMAIN inode /\ x.pieces \in Seq(Name)
    BY <2>2
  <2>4. CASE d = root_inode
    <3>1. Step(x) = x
      BY <2>3, <2>4, PlaceNamed DEF Step
    <3> QED BY <2>2, <2>4, <3>1
  <2>5. CASE d # root_inode
    <3> DEFINE name == NameAbove(d)
               more == <<name>> \o x.pieces
               y == Step(x)
    <3>1. ~EndsPath(d) /\ Place(inode, root_inode, up) /\ up < d
      BY <2>3, <2>5, PlaceNamed
    <3>2. /\ up \in DOMAIN inode /\ name \in Name /\ ramfs_lookup(up, name) = d
          /\ \E j \in DOMAIN inode[up].entries : name = inode[up].entries[j].name
      BY <2>3, <3>1, NameFound
    <3>3. y = [dir |-> up, pieces |-> more]
      BY <3>1 DEF Step
    <3>4. Leads(d, x.pieces, dir)
      BY <2>2
    <3>5. Leads(up, more, dir)
      BY <2>3, <3>2, <3>4, LeadsFromAbove
    <3>6. up + (k + 1) <= n
      <4>1. d + k <= n
        BY <2>2, <2>5
      <4>2. up \in 1 .. n /\ d \in 1 .. n /\ n \in Nat
        BY <1>1, <1>2, <2>3, <3>2
      <4> HIDE DEF up, d
      <4> QED BY <3>1, <4>1, <4>2
    <3>7. name # NoName
      BY <3>2 DEF NamesInv
    <3>8. \A j \in DOMAIN more : more[j] # NoName
      <4>1. \A j \in DOMAIN x.pieces : x.pieces[j] # NoName
        BY <2>2
      <4> DEFINE s == x.pieces
      <4>2. s \in Seq(Name)
        BY <2>3
      <4> HIDE DEF s, name
      <4>3. DOMAIN (<<name>> \o s) = 1 .. Len(s) + 1
            /\ \A j \in 1 .. Len(s) + 1 : (<<name>> \o s)[j] = IF j = 1 THEN name ELSE s[j - 1]
        BY <4>2
      <4>4. \A j \in 1 .. Len(s) + 1 : j # 1 => j - 1 \in DOMAIN s
        BY <4>2
      <4> QED BY <3>7, <4>1, <4>3, <4>4 DEF s
    <3>9. y.dir = up /\ y.pieces = more
      BY <3>3
    <3> HIDE DEF y, more, up, name, d
    <3>10. Good(y, k + 1)
      BY <3>1, <3>5, <3>6, <3>8, <3>9
    <3> QED BY <2>2, <3>10 DEF y
  <2> QED BY <2>4, <2>5
<1>5. Good(above[n], n)
  <2>1. n \in T
    <3> HIDE DEF T
    <3> QED BY <1>2, <1>3, <1>4, Induction
  <2> HIDE DEF Good
  <2> QED BY <1>2, <2>1
<1>6. above[n] \in [dir : DOMAIN inode, pieces : Seq(Name)]
  BY <1>2
<1>7. above[n].dir = root_inode
  <2>1. above[n].dir \in 1 .. n
    BY <1>1, <1>6
  <2>2. above[n].dir = root_inode \/ above[n].dir + n <= n
    BY <1>5
  <2>3. ASSUME NEW d \in 1 .. n PROVE ~(d + n <= n)
    <3>1. n \in Nat
      BY <1>2
    <3> QED BY <3>1
  <2> QED BY <2>1, <2>2, <2>3
<1> QED BY <1>5, <1>6, <1>7 DEF above, n

LEMMA PathLeads ==
  ASSUME FsInv(inode, root_inode), NamesInv(inode), Place(inode, root_inode, cwd)
  PROVE  PathLeadsToCwd
<1> DEFINE path == build_path(cwd)
           s == Ascent(cwd)[Len(inode)].pieces
<1>1. path \in Path
  BY PathBuilt
<1>2. path.absolute /\ path.pieces = s
  BY DEF build_path
<1>3. s \in Seq(Name) /\ Leads(root_inode, s, cwd) /\ \A j \in DOMAIN s : s[j] # NoName
  BY AscentLeads
<1> HIDE DEF s
<1>4. Components(s) = s
  <2>1. s # <<>> => Len(s) \in DOMAIN s
    <3>1. DOMAIN s = 1 .. Len(s)
      BY <1>3
    <3> QED BY <1>3, <3>1, FrontNames
  <2> QED BY <1>3, <2>1 DEF Components, Last, NoName
<1> HIDE DEF path
<1>5. vfs_lookup(path) = cwd
  BY <1>1, <1>2, <1>3, <1>4, LookupFollows
<1> QED BY <1>5 DEF PathLeadsToCwd, path

\* The path that build_path gives for the working directory leads back to it,
\* wherever chdir went and whatever was made since, as long as no path given
\* to touch or mkdir ends in a slash.
THEOREM PathCorrect == ASSUME NamedPaths PROVE Spec => []PathLeadsToCwd
<1>1. Init => FileSystemInv /\ NamesInv(inode)
  BY InitHolds, NamesInit
<1>2. FileSystemInv /\ NamesInv(inode) /\ [Next]_vars => FileSystemInv' /\ NamesInv(inode)'
  BY StepHolds, NamesStep
<1>3. FileSystemInv /\ NamesInv(inode) => PathLeadsToCwd
  BY PathLeads DEF FileSystemInv
<1> QED BY <1>1, <1>2, <1>3, PTL DEF Spec
=============================================================================
