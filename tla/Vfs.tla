-------------------------------- MODULE Vfs ---------------------------------
(***************************************************************************)
(* The virtual file system of vfs.c: the mount table, the root, and the    *)
(* way from a path to a node. Paths and names are sequences of characters. *)
(*                                                                         *)
(* The file systems themselves are not in the tree. They are modelled from *)
(* how vfs.c calls them: a file system keeps a tree of nodes, a node is    *)
(* given by the names on the way to it, create refuses a name its          *)
(* directory already has (E_EXISTS), delete takes what is below a node     *)
(* along, and every call may fail. Calls that fail without an effect have  *)
(* no step, and neither have those that only read.                         *)
(***************************************************************************)
EXTENDS Integers, Sequences, SequencesExt, FiniteSets, FiniteSetsExt, Functions, TLC

CONSTANTS
  FileSystem,  \* the file systems there are to mount
  NoFs,        \* the null pointer
  MAX_MOUNTS,
  MAX_PATH,    \* bytes of temp_path_buffer
  PageBytes,   \* bytes of the page vfs_copy_file reads into
  Letter,      \* bound: characters of paths, besides the slash
  PathLen,     \* bound: length of the paths tried
  MaxNodes,    \* bound: nodes of all file systems, roots included
  MaxBytes     \* bound: size of a file

ASSUME VfsAssumption ==
  /\ MAX_MOUNTS \in Nat \ {0} /\ MAX_PATH \in Nat \ {0, 1} /\ PageBytes \in Nat
  /\ NoFs \notin FileSystem /\ "/" \notin Letter

VARIABLES
  mount_table,  \* for each place: the path and the file system
  vfs_root,     \* the file system whose root vfs_root points to
  tree,         \* external: for each file system, type and size of its nodes
  overrun       \* vfs_copy_file has read more than its page holds

vfsVars == <<mount_table, vfs_root, tree, overrun>>

Place     == 1 .. MAX_MOUNTS
Unmounted == [path |-> <<>>, fs |-> NoFs]
Root      == <<>>
Directory == [dir |-> TRUE, size |-> 0]
EmptyFile == [dir |-> FALSE, size |-> 0]
Paths     == BoundedSeq(Letter \cup {"/"}, PathLen)

VfsInit ==
  /\ mount_table = [i \in Place |-> Unmounted]
  /\ vfs_root = NoFs
  /\ tree = [fs \in FileSystem |-> Root :> Directory]
  /\ overrun = FALSE

-----------------------------------------------------------------------------
(***************************************************************************)
(* Paths                                                                   *)
(***************************************************************************)

\* The pieces between the slashes; an empty one at the end does not count.
Pieces(path) ==
  LET step(acc, c) == IF c = "/" THEN Append(acc, <<>>)
                      ELSE [acc EXCEPT ![Len(acc)] = Append(@, c)]
      all == FoldLeft(step, <<<<>>>>, path)
  IN  IF Last(all) = <<>> THEN Front(all) ELSE all

\* The names vfs_resolve_path looks for, one below the other; one slash at the
\* beginning is skipped.
Components(path) == Pieces(IF path # <<>> /\ path[1] = "/" THEN Tail(path) ELSE path)

\* The node, or none.
vfs_resolve_path(nodes, path) ==
  CASE path = <<"/">>        -> {Root}
    [] Len(path) >= MAX_PATH -> {}
    [] OTHER                 -> {Components(path)} \cap DOMAIN nodes

\* The place of the last slash, counted from 1; 0 if there is none.
LastSlash(path) == Max({0} \cup {i \in DOMAIN path : path[i] = "/"})

\* Mutant: the name begins with the slash.
vfs_basename_slash(path) == SubSeq(path, Max({1, LastSlash(path)}), Len(path))

vfs_basename(path) == SubSeq(path, LastSlash(path) + 1, Len(path))

vfs_dirname(path) ==
  LET cut == IF Len(path) >= MAX_PATH THEN SubSeq(path, 1, MAX_PATH - 1) ELSE path
  IN  CASE cut = <<>>           -> <<>>
        [] LastSlash(cut) = 0   -> <<".">>
        [] LastSlash(cut) = 1   -> <<"/">>
        [] OTHER                -> SubSeq(cut, 1, LastSlash(cut) - 1)

-----------------------------------------------------------------------------
(***************************************************************************)
(* Mounting. The root is set when a file system is mounted at "/" and is   *)
(* left as it is when that file system goes.                               *)
(***************************************************************************)
MountedAt(path) == {i \in Place : mount_table[i].fs # NoFs /\ mount_table[i].path = path}

Lowest(places) == CHOOSE i \in places : \A j \in places : i <= j

vfs_mount(fs, path) ==
  LET unused == {i \in Place : mount_table[i].fs = NoFs} IN
  /\ unused # {}
  /\ mount_table' = [mount_table EXCEPT ![Lowest(unused)] = [path |-> path, fs |-> fs]]
  /\ vfs_root' = IF path = <<"/">> THEN fs ELSE vfs_root
  /\ UNCHANGED <<tree, overrun>>

vfs_unmount(path) ==
  /\ MountedAt(path) # {}
  /\ mount_table' = [mount_table EXCEPT ![Lowest(MountedAt(path))] = Unmounted]
  /\ UNCHANGED <<vfs_root, tree, overrun>>

-----------------------------------------------------------------------------
(***************************************************************************)
(* Files. All paths are looked up below vfs_root; what is mounted          *)
(* elsewhere is not reached.                                               *)
(***************************************************************************)
Nodes == tree[vfs_root]

Kept(nodes) == tree' = [tree EXCEPT ![vfs_root] = nodes]

\* create of a file system
FsCreate(nodes, node, new) ==
  IF node \in DOMAIN nodes THEN [err |-> "E_EXISTS", nodes |-> nodes, node |-> node]
  ELSE [err |-> "E_OK", nodes |-> (node :> new) @@ nodes, node |-> node]

\* vfs_create_file and vfs_create_directory, up to their error codes
Create(nodes, path, new) ==
  LET parents == {p \in vfs_resolve_path(nodes, vfs_dirname(path)) : nodes[p].dir} IN
  IF parents = {} THEN [err |-> "E_NOTFOUND", nodes |-> nodes, node |-> Root]
  ELSE LET parent == CHOOSE p \in parents : TRUE
       IN  FsCreate(nodes, Append(parent, vfs_basename(path)), new)

vfs_create(path, new) ==
  /\ vfs_root # NoFs
  /\ Create(Nodes, path, new).err = "E_OK"
  /\ Kept(Create(Nodes, path, new).nodes)
  /\ UNCHANGED <<mount_table, vfs_root, overrun>>

vfs_create_file(path)      == vfs_create(path, EmptyFile)
vfs_create_directory(path) == vfs_create(path, Directory)

\* A file system keeps its root.
vfs_delete(path) ==
  /\ vfs_root # NoFs
  /\ \E node \in vfs_resolve_path(Nodes, path) \ {Root} :
       Kept(Restrict(Nodes, {n \in DOMAIN Nodes : ~ IsPrefix(node, n)}))
  /\ UNCHANGED <<mount_table, vfs_root, overrun>>

\* vfs_open and vfs_write: the file system stores n bytes.
vfs_write(path, n) ==
  /\ vfs_root # NoFs
  /\ \E node \in vfs_resolve_path(Nodes, path) :
       /\ ~ Nodes[node].dir
       /\ Kept([Nodes EXCEPT ![node].size = n])
  /\ UNCHANGED <<mount_table, vfs_root, overrun>>

\* The page is returned on every way out. What create made stays, also when the
\* file cannot be opened or written; a size is set in the last step only.
vfs_copy_file(dest, source) ==
  LET made == Create(Nodes, dest, EmptyFile)
      to   == {d \in vfs_resolve_path(made.nodes, dest) : ~ made.nodes[d].dir}
  IN
  /\ vfs_root # NoFs
  /\ \E from \in vfs_resolve_path(Nodes, source) :
       /\ ~ Nodes[from].dir
       /\ overrun' = (Nodes[from].size > PageBytes)
       /\ \/ made.err \in {"E_OK", "E_EXISTS"} /\ ~ overrun' /\ Kept(made.nodes)
          \/ /\ made.err \in {"E_OK", "E_EXISTS"} /\ ~ overrun'
             /\ \E d \in to, written \in 0 .. Nodes[from].size :
                  Kept([made.nodes EXCEPT ![d].size = written])
          \/ overrun' /\ UNCHANGED tree
  /\ UNCHANGED <<mount_table, vfs_root>>

MayGrow == MapThenSumSet(LAMBDA fs : Cardinality(DOMAIN tree[fs]), FileSystem) < MaxNodes

\* A read beyond the page has undefined effects: behaviours end.
VfsNext ==
  /\ ~ overrun
  /\ \/ \E fs \in FileSystem, path \in {<<"/">>, <<"/", "a">>} : vfs_mount(fs, path)
     \/ \E path \in {<<"/">>, <<"/", "a">>} : vfs_unmount(path)
     \/ \E path \in Paths :
          \/ MayGrow /\ (vfs_create_file(path) \/ vfs_create_directory(path))
          \/ vfs_delete(path)
          \/ \E n \in 0 .. MaxBytes : vfs_write(path, n)
     \/ MayGrow /\ \E dest, source \in Paths : vfs_copy_file(dest, source)

-----------------------------------------------------------------------------
(***************************************************************************)
(* Properties                                                              *)
(***************************************************************************)

\* vfs_create_file and vfs_create_directory take a path apart from its end,
\* vfs_resolve_path from its beginning, each with its own treatment of slashes
\* and of long paths. In every tree the calls can make, what a successful create
\* has made is what vfs_open then finds under the same path, if the path is
\* shorter than the buffer, has a slash but none at its end, and no two slashes
\* in a row; a longer path may well be created, in the directory its beginning
\* names, and is never found.
CreatedIsFound ==
  (vfs_root # NoFs) =>
    \A path \in Paths, new \in {EmptyFile, Directory} :
      LET made  == Create(Nodes, path, new)
          found == vfs_resolve_path(made.nodes, path)
      IN
      (made.err = "E_OK") =>
        CASE Len(path) >= MAX_PATH -> found = {}
          [] /\ LastSlash(path) \in 1 .. Len(path) - 1
             /\ \A i \in 2 .. Len(path) : <<path[i - 1], path[i]>> # <<"/", "/">>
                                   -> found = {made.node}
          [] OTHER                 -> TRUE

=============================================================================
