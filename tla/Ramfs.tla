-------------------------------- MODULE Ramfs --------------------------------
(***************************************************************************)
(* The ram file system and the VFS in front of it (ramfs.c, vfs.c): nodes  *)
(* linked by parent, first child and next sibling, allocated from a heap   *)
(* that never takes anything back.  All calls come from the boot sequence  *)
(* or from shell commands, one after another.                              *)
(*                                                                         *)
(* A path is what stands between its slashes, the leading slash left out:  *)
(* "/a/b/" is <<"a", "b", "">>.  Not enumerated: paths without a leading   *)
(* slash, names over 31 and paths over 127 characters; the calls refuse    *)
(* them, or stop there, as they do for a node they cannot make.            *)
(***************************************************************************)
EXTENDS Naturals, Sequences

CONSTANTS Names,      \* names of entries, DevName among them
          DevName,    \* "dev", where devfs is mounted
          NoName,     \* the empty string between two slashes
          Contents,   \* what may be written to a file
          Empty,      \* the contents of a file that was only touched
          Dir,        \* what the abstract tree holds for a directory
          Depth,      \* bound: the longest path
          Size,       \* what contents take from the heap, in nodes
          Heap        \* the nodes the heap has room for after the first two

ASSUME RamfsAssumption ==
  /\ DevName \in Names /\ NoName \notin Names
  /\ Empty \notin Contents /\ Dir \notin Contents \cup {Empty}
  /\ Depth \in Nat \ {0} /\ Heap \in Nat /\ Size \in [Contents -> Nat \ {0}]

VARIABLES fs,        \* nodes: in the order of their allocation, the root first;
                     \* room: what is left of the heap
          booting    \* whether the initrd is still being unpacked

vars == <<fs, booting>>
nodes == fs.nodes

None == 0
Root == 1
Paths == UNION {[1 .. n -> Names \cup {NoName}] : n \in 1 .. Depth}
TarPaths == UNION {[1 .. n -> Names] : n \in 1 .. Depth}

(* ramfs_alloc_node *)
Node(name, dir, parent, next) ==
  [name |-> name, dir |-> dir, parent |-> parent, first |-> None, next |-> next, data |-> Empty]

(* vfs_initialize: the root, and "/dev" in it. *)
Init ==
  /\ fs = [nodes |-> << [Node(NoName, TRUE, None, None) EXCEPT !.first = 2],
                        Node(DevName, TRUE, Root, None) >>,
           room  |-> Heap]
  /\ booting = TRUE
-----------------------------------------------------------------------------
(* Finding nodes in a table t. *)

(* The k-th node of p's list of children, or None beyond its end. *)
Kid(t, p) ==
  LET kid[k \in 1 .. Len(t)] ==
        IF k = 1 THEN t[p].first ELSE IF kid[k - 1] = None THEN None ELSE t[kid[k - 1]].next
  IN  kid

(* ramfs_find_child: the first in the list that has the name. *)
FindChild(t, p, name) ==
  LET Named(k) == Kid(t, p)[k] # None /\ t[Kid(t, p)[k]].name = name
  IN  IF \E k \in 1 .. Len(t) : Named(k)
      THEN Kid(t, p)[CHOOSE k \in 1 .. Len(t) : Named(k) /\ \A j \in 1 .. k - 1 : ~ Named(j)]
      ELSE None

(* ramfs_resolve_path: nothing between two slashes is passed over. *)
Resolve(t, path) ==
  LET node[i \in 0 .. Len(path)] ==
        IF i = 0 THEN Root
        ELSE IF node[i - 1] = None \/ path[i] = NoName THEN node[i - 1]
        ELSE FindChild(t, node[i - 1], path[i])
  IN  node[Len(path)]

IsDirIn(t, path) == Resolve(t, path) # None /\ t[Resolve(t, path)].dir

Front(path) == SubSeq(path, 1, Len(path) - 1)
Last(path)  == path[Len(path)]

(* ramfs_split_parent succeeds: there is a name after the last slash, and
   what is before it is a directory. *)
Splits(t, path) == Last(path) # NoName /\ IsDirIn(t, Front(path))
-----------------------------------------------------------------------------
(* Changing a file system u; one that is returned unchanged is a call that
   failed. *)

(* Mutant of AddChild: the list of children is cut off behind the new one. *)
AddChildAlone(u, p, name, dir) ==
  IF u.room = 0 THEN u
  ELSE [nodes |-> Append([u.nodes EXCEPT ![p].first = Len(u.nodes) + 1],
                         Node(name, dir, p, None)),
        room  |-> u.room - 1]

(* ramfs_add_child: in front of the list. *)
AddChild(u, p, name, dir) ==
  IF u.room = 0 THEN u
  ELSE [nodes |-> Append([u.nodes EXCEPT ![p].first = Len(u.nodes) + 1],
                         Node(name, dir, p, u.nodes[p].first)),
        room  |-> u.room - 1]

(* Mutant of Made: a name that is there already is made again. *)
MadeAgain(u, path, dir) ==
  IF Splits(u.nodes, path)
  THEN AddChild(u, Resolve(u.nodes, Front(path)), Last(path), dir)
  ELSE u

(* ramfs_mkdir and ramfs_touch *)
Made(u, path, dir) ==
  LET parent == Resolve(u.nodes, Front(path))
  IN  IF Splits(u.nodes, path) /\ FindChild(u.nodes, parent, Last(path)) = None
      THEN AddChild(u, parent, Last(path), dir)
      ELSE u

(* Mutant of Stored: what the path names is taken for a file. *)
StoredAnywhere(u, path, data) ==
  LET n == Resolve(u.nodes, path)
  IN  IF n # None /\ u.room >= Size[data]
      THEN [nodes |-> [u.nodes EXCEPT ![n].data = data, ![n].dir = FALSE],
            room |-> u.room - Size[data]]
      ELSE u

(* ramfs_write_bytes_internal, for a path that names a file.  What the file
   held before stays allocated. *)
Stored(u, path, data) ==
  LET n == Resolve(u.nodes, path)
  IN  IF n # None /\ ~ IsDirIn(u.nodes, path) /\ u.room >= Size[data]
      THEN [nodes |-> [u.nodes EXCEPT ![n].data = data], room |-> u.room - Size[data]]
      ELSE u

(* ramfs_ensure_directory: each directory on the way in turn, until one is
   there under that name as a file, or cannot be made. *)
Ensured(u, path) ==
  LET upTo[i \in 0 .. Len(path)] ==
        IF i = 0 THEN u
        ELSE LET v == upTo[i - 1]
                 q == SubSeq(path, 1, i)
             IN  IF IsDirIn(v.nodes, Front(q)) /\ ~ IsDirIn(v.nodes, q)
                 THEN Made(v, q, TRUE)
                 ELSE v
  IN  upTo[Len(path)]
-----------------------------------------------------------------------------
(* Unpacking the initrd (ramfs_load_initrd), an entry at a time. *)

LoadDir(path) ==
  /\ booting
  /\ fs' = Ensured(fs, path)
  /\ UNCHANGED booting

(* The results of making the way and the file are not looked at. *)
LoadFile(path, data) ==
  /\ booting
  /\ fs' = Stored(Made(Ensured(fs, Front(path)), path, FALSE), path, data)
  /\ UNCHANGED booting

(* vfs_load_initrd ends with another mkdir of "/dev". *)
Booted ==
  /\ booting /\ booting' = FALSE
  /\ fs' = Made(fs, <<DevName>>, TRUE)

(* vfs_is_dev_path: these go to devfs, which keeps nothing. *)
IsDevPath(path) == path[1] = DevName

(* What the shell's commands do when the path is not for devfs. *)
Mkdir(path) ==
  /\ ~ booting /\ ~ IsDevPath(path)
  /\ fs' = Made(fs, path, TRUE)
  /\ UNCHANGED booting

Touch(path) ==
  /\ ~ booting /\ ~ IsDevPath(path)
  /\ fs' = Made(fs, path, FALSE)
  /\ UNCHANGED booting

(* ramfs_write: the file is made first if it is not there, and stays, empty,
   when there is no memory for the data. *)
Write(path, data) ==
  /\ ~ booting /\ ~ IsDevPath(path)
  /\ fs' = Stored(IF Resolve(nodes, path) = None THEN Made(fs, path, FALSE) ELSE fs,
                  path, data)
  /\ UNCHANGED booting

Unpack == \E path \in TarPaths : LoadDir(path) \/ \E data \in Contents : LoadFile(path, data)
Command ==
  \E path \in Paths : Mkdir(path) \/ Touch(path) \/ \E data \in Contents : Write(path, data)
Next == Unpack \/ Booted \/ Command
Spec == Init /\ [][Next]_vars
-----------------------------------------------------------------------------
(* The links make a tree: every node but the root stands in its parent's list
   of children, once, and in no other; lists end; only directories have
   children, only files have data; and no two children share a name. *)
TreeWellFormed ==
  \A p \in 1 .. Len(nodes) :
    LET kids == {k \in 1 .. Len(nodes) : Kid(nodes, p)[k] # None}
    IN  /\ {Kid(nodes, p)[k] : k \in kids} = {n \in 2 .. Len(nodes) : nodes[n].parent = p}
        /\ \A j, k \in kids : Kid(nodes, p)[j] = Kid(nodes, p)[k] => j = k
        /\ \A j, k \in kids :
             nodes[Kid(nodes, p)[j]].name = nodes[Kid(nodes, p)[k]].name => j = k
        /\ kids # {} => nodes[p].dir
        /\ nodes[p].data # Empty => ~ nodes[p].dir

(* Where a node is, by its chain of parents. *)
PathOf ==
  LET path[n \in 1 .. Len(nodes)] ==
        IF n = Root THEN << >> ELSE Append(path[nodes[n].parent], nodes[n].name)
  IN  path

(* Every node is found under its own path: what was made can be opened. *)
PathsResolve == \A n \in 1 .. Len(nodes) : Resolve(nodes, PathOf[n]) = n

(* The nodes read as a tree of paths. *)
Tree ==
  [p \in {PathOf[n] : n \in 1 .. Len(nodes)} |->
     LET n == CHOOSE m \in 1 .. Len(nodes) : PathOf[m] = p
     IN  IF nodes[n].dir THEN Dir ELSE nodes[n].data]

Abstract == INSTANCE FileTree WITH tree <- Tree

(* Every call changes the abstract file tree as the abstract one may be: one
   entry more below a directory, one file's contents, or a way unpacked in
   part; also when memory ends in the middle of it. *)
FileTreeSteps == [][Abstract!Next]_Tree
==============================================================================
