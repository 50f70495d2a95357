----------------------------- MODULE FileSystem -----------------------------
(***************************************************************************)
(* The file system of the TBS kernel: the calls of a process (fs.c), path  *)
(* lookup (vfs.c) and the file system in memory (ramfs.c).                 *)
(*                                                                         *)
(* One process, the console, makes every call, and kmalloc is taken to     *)
(* succeed.  Inodes are numbered in the order of their allocation and are  *)
(* never freed.  A path is its pieces between slashes: "/a/b" is absolute  *)
(* with pieces <<"a", "b">>, "a/" relative with <<"a", "">>.               *)
(***************************************************************************)
EXTENDS Integers, SequencesExt, FiniteSetsExt

CONSTANTS
  MAX_FD,               \* descriptors of a process (16)
  RAMFS_MAX_ENTRIES,    \* entries ramfs_create fills (32)
  MKDIR_MAX_ENTRIES,    \* the literal of ramfs_mkdir (64)
  RAMFS_FILE_CAPACITY,  \* of a file made by ramfs_create (4096)
  Images,               \* file system images the boot loader may hand over
  Name,                 \* what may stand between two slashes
  Paths,                \* path arguments
  Sizes,                \* size arguments of sys_read and sys_write
  MaxInodes,            \* bound of the model: inodes ever allocated
  CountRefs             \* keep ref_count, which no code reads, or leave it at 1

NULL == 0
None == [inode |-> NULL, offset |-> 0]          \* an empty slot of fd_table
Fd == 0 .. MAX_FD - 1

Path == [absolute : BOOLEAN, pieces : Seq(Name)]

ASSUME FileSystemAssumption ==
  /\ {MAX_FD, RAMFS_MAX_ENTRIES, MKDIR_MAX_ENTRIES, MaxInodes} \subseteq Nat \ {0}
  /\ RAMFS_FILE_CAPACITY \in Nat
  /\ Sizes \subseteq Nat \ {0}
  /\ {"", ".", ".."} \subseteq Name /\ Paths \subseteq Path
  /\ CountRefs \in BOOLEAN

ramfs_disk_inode_t ==
  [type : {"FILE", "DIR"}, parent : Nat, name : Name,
   first_child : Nat, child_count : Nat, size : Nat]

Children(row) == row.first_child .. row.first_child + row.child_count - 1

\* An image holds a tree, every directory before what is in it, and no name
\* twice in a directory: the loader takes the table as it is, and
\* rootfs/ramfs_build writes it so.
ASSUME ImagesAssumption ==
  \A image \in Images :
    /\ image \in [table : Seq(ramfs_disk_inode_t), root : Nat]
    /\ image.table # <<>> =>
         /\ image.root \in DOMAIN image.table
         /\ image.table[image.root].type = "DIR" /\ image.table[image.root].parent = NULL
    /\ \A i \in DOMAIN image.table \ {image.root} :
         LET up == image.table[i].parent
         IN  /\ up \in DOMAIN image.table /\ image.table[up].type = "DIR"
             /\ i \in Children(image.table[up])
    /\ \A i \in DOMAIN image.table : image.table[i].type = "DIR" =>
         \A k \in Children(image.table[i]) :
           /\ k \in DOMAIN image.table /\ i < k /\ image.table[k].parent = i
           /\ image.table[k].name \notin {"", ".", ".."}
           /\ \A j \in Children(image.table[i]) :
                image.table[j].name = image.table[k].name => j = k

VARIABLES
  inode,        \* the inodes, with the ramfs_dir or ramfs_file behind data
  root_inode,
  fd_table,     \* current_process->fd_table, with the file_t behind it
  cwd           \* current_process->cwd

vars == <<inode, root_inode, fd_table, cwd>>

Inode == DOMAIN inode

\* file_ops: the inodes ramfs_mkdir makes have none.  written: the bytes of
\* data below size that have been given a value.
inode_t ==
  [type : {"FILE", "DIR"}, parent : Nat, ref_count : Int, file_ops : BOOLEAN,
   entries : Seq([name : Name, inode : Nat]),
   size : Nat, capacity : Nat, written : SUBSET Nat]

TypeOK ==
  /\ inode \in Seq(inode_t)
  /\ \A i \in Inode :
       /\ inode[i].parent \in Inode \cup {NULL}
       /\ \A k \in DOMAIN inode[i].entries : inode[i].entries[k].inode \in Inode
       /\ inode[i].written \subseteq 0 .. inode[i].capacity - 1
  /\ root_inode \in Inode /\ cwd \in Inode
  /\ fd_table \in [Fd -> [inode : Inode \cup {NULL}, offset : Nat]]

-----------------------------------------------------------------------------
(* ramfs.c: inodes, the image, lookup                                      *)

Directory(entries, parent, file_ops, refs) ==
  [type |-> "DIR", parent |-> parent, ref_count |-> refs, file_ops |-> file_ops,
   entries |-> entries, size |-> 0, capacity |-> 0, written |-> {}]

File(size, capacity) ==
  [type |-> "FILE", parent |-> NULL, ref_count |-> 1, file_ops |-> TRUE,
   entries |-> <<>>, size |-> size, capacity |-> capacity,
   written |-> 0 .. size - 1]

Entry(name, i) == [name |-> name, inode |-> i]

\* An image is a table of inodes; the children of a directory are the count
\* rows from first.  The entries . and .. are added while there is room.
LoadEntries(image, i) ==
  LET row == image.table[i]
      up == IF row.parent = NULL THEN i ELSE row.parent
      children == [k \in 1 .. row.child_count |->
                     Entry(image.table[row.first_child + k - 1].name,
                           row.first_child + k - 1)]
  IN  IF row.child_count < RAMFS_MAX_ENTRIES - 2
      THEN children \o <<Entry(".", i), Entry("..", up)>>
      ELSE children

\* ramfs_create_root: an image that is missing or has no inodes gives an empty
\* root, which has no entries . and .. either.
ramfs_create_root(image) ==
  IF image.table = <<>> THEN <<Directory(<<>>, NULL, TRUE, 1)>>
  ELSE [i \in DOMAIN image.table |->
          LET row == image.table[i]
          IN  IF row.type = "DIR"
              THEN Directory(LoadEntries(image, i), row.parent, TRUE, 1)
              ELSE [File(row.size, row.size) EXCEPT !.parent = row.parent]]

Hits(dir, name) ==
  {k \in DOMAIN inode[dir].entries : inode[dir].entries[k].name = name}

ramfs_lookup_last(dir, name) ==
  IF inode[dir].type # "DIR" THEN NULL
  ELSE IF name = "." THEN dir
  ELSE IF name = ".." THEN IF inode[dir].parent # NULL THEN inode[dir].parent ELSE dir
  ELSE IF Hits(dir, name) # {} THEN inode[dir].entries[Max(Hits(dir, name))].inode
  ELSE NULL

ramfs_lookup(dir, name) ==
  IF inode[dir].type # "DIR" THEN NULL
  ELSE IF name = "." THEN dir
  ELSE IF name = ".." THEN IF inode[dir].parent # NULL THEN inode[dir].parent ELSE dir
  ELSE IF Hits(dir, name) # {} THEN inode[dir].entries[Min(Hits(dir, name))].inode
  ELSE NULL

-----------------------------------------------------------------------------
(* vfs.c                                                                   *)

\* A slash at the end starts no piece.
Components(pieces) ==
  IF pieces # <<>> /\ Last(pieces) = "" THEN Front(pieces) ELSE pieces

\* The inodes on the way: Walk(path)[k] after k components, NULL once lost
Walk(path) ==
  LET names == Components(path.pieces)
      at[k \in 0 .. Len(names)] ==
        IF k = 0 THEN IF path.absolute THEN root_inode ELSE cwd
        ELSE IF at[k - 1] = NULL THEN NULL ELSE ramfs_lookup(at[k - 1], names[k])
  IN  at

vfs_lookup(path) == Walk(path)[Len(Components(path.pieces))]

\* inode_ref on every inode met, but not on the one the walk starts from
inode_ref(path) ==
  IF CountRefs
  THEN [i \in Inode |-> [inode[i] EXCEPT !.ref_count =
          @ + Cardinality({k \in DOMAIN Walk(path) \ {0} : Walk(path)[k] = i})]]
  ELSE inode

Parent(path) == [path EXCEPT !.pieces = Front(@)]

-----------------------------------------------------------------------------
(* build_path: the name under which lookup in the parent finds the child   *)

NamesOf(parent, child) ==
  {k \in DOMAIN inode[parent].entries :
     ramfs_lookup(parent, inode[parent].entries[k].name) = child}

EndsPath(d) ==
  \/ inode[d].parent \in {NULL, d}
  \/ NamesOf(inode[d].parent, d) = {}

NameAbove(d) ==
  LET up == inode[d].parent
  IN  inode[up].entries[Min(NamesOf(up, d))].name

\* The directories from dir upwards, each with the names met below it
Ascent(dir) ==
  LET above[k \in 0 .. Len(inode)] ==
        IF k = 0 THEN [dir |-> dir, pieces |-> <<>>]
        ELSE LET d == above[k - 1].dir
             IN  IF EndsPath(d) THEN above[k - 1]
                 ELSE [dir |-> inode[d].parent,
                       pieces |-> <<NameAbove(d)>> \o above[k - 1].pieces]
  IN  above

build_path(dir) == [absolute |-> TRUE, pieces |-> Ascent(dir)[Len(inode)].pieces]

-----------------------------------------------------------------------------
(* fs.c: the calls.  A call that gives up after its lookup changes only     *)
(* reference counts, as sys_open of the same path does; those that give up *)
(* with nothing else done are left to sys_open.                            *)

FreeFds == {fd \in Fd : fd_table[fd] = None}
Open(fd) == fd_table[fd] # None
Target(fd) == inode[fd_table[fd].inode]

\* file_alloc and fd_alloc, which takes the first free slot
fd_alloc(i) == fd_table' = [fd_table EXCEPT ![Min(FreeFds)] = [inode |-> i, offset |-> 0]]

sys_open(path) ==
  /\ inode' = inode_ref(path)
  /\ IF vfs_lookup(path) # NULL /\ FreeFds # {}
     THEN fd_alloc(vfs_lookup(path))
     ELSE UNCHANGED fd_table
  /\ UNCHANGED <<root_inode, cwd>>

sys_close(fd) ==
  /\ Open(fd)
  /\ inode' = IF CountRefs THEN [inode EXCEPT ![fd_table[fd].inode].ref_count = @ - 1]
              ELSE inode
  /\ fd_table' = [fd_table EXCEPT ![fd] = None]
  /\ UNCHANGED <<root_inode, cwd>>

\* The capability checks look for the handler, not at the type, and what a
\* ramfs_dir does behind the handlers of a file is undefined.
UsesFile(fd) == Open(fd) /\ Target(fd).file_ops /\ Target(fd).type = "FILE"

ramfs_read_unclipped(fd, size) == size

ramfs_read(fd, size) ==
  LET left == Target(fd).size - fd_table[fd].offset
  IN  IF left <= 0 THEN 0 ELSE Min({size, left})

sys_read(fd, size) ==
  /\ UsesFile(fd)
  /\ fd_table' = [fd_table EXCEPT ![fd].offset = @ + ramfs_read(fd, size)]
  /\ UNCHANGED <<inode, root_inode, cwd>>

\* The file after size bytes have been stored at the offset
Stored(fd, size) ==
  LET offset == fd_table[fd].offset
  IN  [Target(fd) EXCEPT !.written = @ \cup (offset .. offset + size - 1),
                         !.size = Max({@, offset + size})]

ramfs_write_unclipped(fd, size) == size

\* What is stored of size bytes: what fits
ramfs_write(fd, size) == Min({size, Target(fd).capacity - fd_table[fd].offset})

\* A file of the image is no exception: its bytes may be overwritten, although
\* the loader calls it "Read-only" (ramfs.c 191); that keeps it from growing.
sys_write(fd, size) ==
  LET ret == ramfs_write(fd, size)
  IN  /\ UsesFile(fd)
      /\ inode' = [inode EXCEPT ![fd_table[fd].inode] = Stored(fd, ret)]
      /\ fd_table' = [fd_table EXCEPT ![fd].offset = @ + ret]
      /\ UNCHANGED <<root_inode, cwd>>

sys_readdir_past_end(fd) ==
  /\ Open(fd) /\ Target(fd).type = "DIR"
  /\ fd_table[fd].offset <= Len(Target(fd).entries)
  /\ fd_table' = [fd_table EXCEPT ![fd].offset = @ + 1]
  /\ UNCHANGED <<inode, root_inode, cwd>>

\* One entry, as long as there is one
sys_readdir(fd) ==
  /\ Open(fd) /\ Target(fd).type = "DIR"
  /\ fd_table[fd].offset < Len(Target(fd).entries)
  /\ fd_table' = [fd_table EXCEPT ![fd].offset = @ + 1]
  /\ UNCHANGED <<inode, root_inode, cwd>>

sys_chdir(path) ==
  /\ inode' = inode_ref(path)
  /\ cwd' = IF vfs_lookup(path) # NULL /\ inode[vfs_lookup(path)].type = "DIR"
            THEN vfs_lookup(path) ELSE cwd
  /\ UNCHANGED <<root_inode, fd_table>>

AddEntry(fs, dir, name, new) ==
  Append([fs EXCEPT ![dir].entries = Append(@, Entry(name, Len(fs) + 1))], new)

ramfs_create(fs, dir, name) ==
  IF Len(fs[dir].entries) >= RAMFS_MAX_ENTRIES THEN fs
  ELSE AddEntry(fs, dir, name, File(0, RAMFS_FILE_CAPACITY))

\* Absolute paths only; an entry of the same name is no obstacle.  A file has
\* the create handler too, whose effect on its data is undefined.
sys_create(path) ==
  LET dir == vfs_lookup(Parent(path))
      found == inode_ref(Parent(path))
  IN  /\ path.absolute /\ path.pieces # <<>> /\ dir # NULL
      /\ inode[dir].type = "DIR"
      /\ inode' = ramfs_create(found, dir, Last(path.pieces))
      /\ Len(inode) < MaxInodes
      /\ UNCHANGED <<root_inode, fd_table, cwd>>

\* Neither a reference nor file_ops
NewDirectory(fs, dir) ==
  Directory(<<Entry(".", Len(fs) + 1), Entry("..", dir)>>, dir, FALSE,
            IF CountRefs THEN 0 ELSE 1)

ramfs_mkdir_twice(fs, dir, name) ==
  IF Len(fs[dir].entries) >= MKDIR_MAX_ENTRIES THEN fs
  ELSE AddEntry(fs, dir, name, NewDirectory(fs, dir))

ramfs_mkdir(fs, dir, name) ==
  IF \/ Len(fs[dir].entries) >= MKDIR_MAX_ENTRIES
     \/ \E e \in Range(fs[dir].entries) : e.name = name
  THEN fs ELSE AddEntry(fs, dir, name, NewDirectory(fs, dir))

\* The parent is opened to find its inode, and the descriptor is never closed.
\* A path without a slash is made under the path of cwd.
sys_mkdir(path) ==
  LET up == IF path.absolute \/ Len(path.pieces) > 1 THEN Parent(path) ELSE build_path(cwd)
      dir == vfs_lookup(up)
      found == inode_ref(up)
  IN  /\ path.pieces # <<>> /\ dir # NULL /\ FreeFds # {}
      /\ fd_alloc(dir)
      /\ inode' = IF found[dir].type = "DIR" THEN ramfs_mkdir(found, dir, Last(path.pieces))
                  ELSE found
      /\ Len(inode) < MaxInodes
      /\ UNCHANGED <<root_inode, cwd>>

-----------------------------------------------------------------------------
\* kernel_main and create_process: the process starts in the root.
Init ==
  /\ \E image \in Images :
       /\ root_inode = IF image.table = <<>> THEN 1 ELSE image.root
       /\ inode = LET fs == ramfs_create_root(image)
                  IN  IF CountRefs THEN [fs EXCEPT ![root_inode].ref_count = @ + 1] ELSE fs
  /\ fd_table = [fd \in Fd |-> None]
  /\ cwd = root_inode

Next ==
  \/ \E path \in Paths : sys_open(path) \/ sys_create(path) \/ sys_mkdir(path) \/ sys_chdir(path)
  \/ \E fd \in Fd : sys_close(fd) \/ sys_readdir(fd)
  \/ \E fd \in Fd, size \in Sizes : sys_read(fd, size) \/ sys_write(fd, size)

Spec == Init /\ [][Next]_vars

-----------------------------------------------------------------------------
(* Properties                                                              *)

\* The offset of a descriptor stays inside of its file, and the size inside
\* of the capacity, also when several descriptors write to one file: the
\* unsigned differences of ramfs_read and ramfs_write never wrap.  On a
\* directory it stays inside of the entries.
OffsetInFile ==
  \A fd \in Fd : Open(fd) =>
    IF Target(fd).type = "FILE"
    THEN fd_table[fd].offset <= Target(fd).size /\ Target(fd).size <= Target(fd).capacity
    ELSE fd_table[fd].offset <= Len(Target(fd).entries)

\* No read returns bytes nobody wrote: the memory of a new file is not cleared,
\* but size never passes a byte that was skipped.
ReadsWritten == \A i \in Inode : inode[i].written = 0 .. inode[i].size - 1

\* The path built for cwd leads back to cwd, whatever was created beside it,
\* under the same name included.  ls and a relative mkdir rely on it.
\* (fs.c 207: "relative path, create in cwd")
PathLeadsToCwd == vfs_lookup(build_path(cwd)) = cwd

\* A directory is never hidden behind an entry of its name: sys_create adds
\* entries unseen and ramfs_mkdir looks at the names first, so the first entry
\* of a directory's name stays its own (. and .. are not looked up in entries).
DirectoryNotHidden ==
  \A dir \in Inode : \A e \in Range(inode[dir].entries) :
    inode[e.inode].type = "DIR" /\ e.name \notin {".", ".."}
      => ramfs_lookup(dir, e.name) = e.inode

\* fs.c 102, "Decrement inode reference count", of a count that frees the
\* inode at 0: an inode in use has references.
HeldInodesCounted ==
  /\ inode[cwd].ref_count > 0
  /\ \A fd \in Fd : Open(fd) => Target(fd).ref_count > 0
=============================================================================
