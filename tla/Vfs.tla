-------------------------------- MODULE Vfs --------------------------------
(***************************************************************************)
(* The node table of kernel/fs/vfs.c.  A path is a sequence of components; *)
(* the string "/a/b" is <<"", "a", "b">>, "a" is <<"a">>.  strrchr takes   *)
(* the last component, strcmp compares a node's name with the whole        *)
(* string.  Creation always appends; nothing removes a node.  Permissions  *)
(* are left out: nothing reads them.                                       *)
(***************************************************************************)
EXTENDS Integers, Sequences, FiniteSets

CONSTANTS
  MAX_VFS_NODES,  \* 256
  Paths,          \* the paths callers use
  Defaults,       \* the paths vfs_init makes directories of
  Sizes           \* what vfs_write and vfs_readdir are called with

ASSUME VfsAssumption ==
  /\ MAX_VFS_NODES \in Nat
  /\ \A p \in Paths : p # <<>>
  /\ Defaults \in Seq(Paths) /\ Len(Defaults) <= MAX_VFS_NODES
  /\ Sizes \subseteq Nat

O_CREAT == 256   \* 0x100

VARIABLES
  nodes,    \* vfs_nodes[0 .. vfs_node_count - 1]; the field path is what
            \* the node was created with, for the properties
  call,     \* the last call, for the properties
  result,   \* and what it returned
  home      \* for the properties: the descriptor of the node that an open
            \* of the path found or created, FAIL before

vfs_vars == <<nodes, call, result, home>>

FAIL == -1

Name(p)  == p[Len(p)]
Fds      == 0 .. Len(nodes) - 1
Node(fd) == nodes[fd + 1]

(* strcmp(name, path) = 0: a name has no slash, so the path has none.      *)
Named(n, p) == p = <<n.name>>

Directory(p) == [name |-> Name(p), type |-> "directory", size |-> 0, path |-> p]
File(p)      == [name |-> Name(p), type |-> "file", size |-> 0, path |-> p]

VfsInit ==
  /\ nodes = [i \in DOMAIN Defaults |-> Directory(Defaults[i])]
  /\ call = <<"vfs_init">> /\ result = 0 /\ home = [p \in Paths |-> FAIL]

-----------------------------------------------------------------------------
(* Operators named Bug_* are mutants of the definition that follows them.  *)

(* The table may hold one node more than it has room for.                  *)
Bug_Room == Len(nodes) <= MAX_VFS_NODES

Room == Len(nodes) < MAX_VFS_NODES

Mkdir(p) ==
  /\ call' = <<"vfs_mkdir", p>> /\ UNCHANGED home
  /\ IF Room
     THEN nodes' = Append(nodes, Directory(p)) /\ result' = 0
     ELSE result' = FAIL /\ UNCHANGED nodes

(* vfs_create's step, which vfs_open takes too.                            *)
Created(p) ==
  IF Room
  THEN nodes' = Append(nodes, File(p)) /\ result' = 0
  ELSE result' = FAIL /\ UNCHANGED nodes

Create(p) == call' = <<"vfs_create", p>> /\ Created(p) /\ UNCHANGED home

(* The search returns the last match.                                      *)
Bug_FirstMatch(p, fd) ==
  /\ fd \in Fds /\ Named(Node(fd), p)
  /\ \A e \in Fds : e > fd => ~Named(Node(e), p)

(* fd is the first node whose name is the path.                            *)
FirstMatch(p, fd) ==
  /\ fd \in Fds /\ Named(Node(fd), p)
  /\ \A e \in Fds : e < fd => ~Named(Node(e), p)

Found(p) == \E fd \in Fds : FirstMatch(p, fd)

OpenFound(p, flags) ==
  /\ call' = <<"vfs_open", p, flags>>
  /\ \E fd \in Fds : FirstMatch(p, fd) /\ result' = fd /\ home' = [home EXCEPT ![p] = fd]
  /\ UNCHANGED nodes

(* A node that open creates comes back as vfs_create's 0, whichever node   *)
(* that is; with a slash in its path no search will find it.               *)
OpenCreate(p, flags) ==
  /\ call' = <<"vfs_open", p, flags>>
  /\ ~Found(p) /\ flags = O_CREAT
  /\ Created(p)
  /\ home' = IF Room /\ Named(File(p), p) THEN [home EXCEPT ![p] = Len(nodes)] ELSE home

OpenFail(p, flags) ==
  /\ call' = <<"vfs_open", p, flags>>
  /\ ~Found(p) /\ flags # O_CREAT
  /\ result' = FAIL
  /\ UNCHANGED <<nodes, home>>

Read(p) ==
  /\ call' = <<"vfs_read", p>>
  /\ result' = IF Found(p) THEN 0 ELSE FAIL
  /\ UNCHANGED <<nodes, home>>

(* vfs_write opens with 0x200, which is not O_CREAT.                       *)
WriteFound(p, n) ==
  /\ call' = <<"vfs_write", p, n>>
  /\ \E fd \in Fds : FirstMatch(p, fd) /\ nodes' = [nodes EXCEPT ![fd + 1].size = n]
  /\ result' = n
  /\ UNCHANGED home

WriteFail(p, n) ==
  /\ call' = <<"vfs_write", p, n>>
  /\ ~Found(p)
  /\ result' = FAIL
  /\ UNCHANGED <<nodes, home>>

(* vfs_readdir, whatever its path: the nodes that have a name, as many as  *)
(* the caller has room for.                                                *)
Readdir(p, room) ==
  /\ call' = <<"vfs_readdir", p>>
  /\ LET named == {fd \in Fds : Node(fd).name # ""}
     IN  result' = IF Cardinality(named) < room THEN Cardinality(named) ELSE room
  /\ UNCHANGED <<nodes, home>>

VfsNext ==
  \/ \E p \in Paths : Mkdir(p) \/ Create(p) \/ Read(p)
  \/ \E p \in Paths, f \in {0, O_CREAT} : OpenFound(p, f) \/ OpenCreate(p, f) \/ OpenFail(p, f)
  \/ \E p \in Paths, n \in Sizes : WriteFound(p, n) \/ WriteFail(p, n)
  \/ \E p \in Paths, n \in Sizes : Readdir(p, n)

VfsSpec == VfsInit /\ [][VfsNext]_vfs_vars

-----------------------------------------------------------------------------
(* The table never holds more than it has room for, and a descriptor names *)
(* one of its nodes.                                                       *)
VfsTypeOK ==
  /\ Len(nodes) <= MAX_VFS_NODES
  /\ \A i \in DOMAIN nodes : nodes[i].type \in {"file", "directory"} /\ nodes[i].size \in Nat
  /\ call[1] = "vfs_open" /\ result # FAIL => result \in Fds

(* Once an open of a path has found a node, or has created one that the    *)
(* path names, every later open of the path returns that node's            *)
(* descriptor, every read finds it and every write goes to it and to no    *)
(* other, whatever was created in between (vfs.c:136-140, :158, :168).     *)
(* Only the open that creates the node returns another descriptor, 0       *)
(* (vfs.c:144), and it is not spoken of.                                   *)
OpenIsStable ==
  [][\A p \in Paths : home[p] # FAIL /\ call'[2] = p =>
       /\ call'[1] = "vfs_open"  => result' = home[p]
       /\ call'[1] = "vfs_read"  => result' # FAIL
       /\ call'[1] = "vfs_write" =>
            nodes' = [nodes EXCEPT ![home[p] + 1].size = call'[3]]]_vfs_vars
=============================================================================
