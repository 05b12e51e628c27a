------------------------------ MODULE ListProofs ------------------------------
(* Theorems about the parts that keep dense lists, for every size of their  *)
(* tables: the file system's nodes, the Windows layer's processes and       *)
(* drives, the active Bluetooth devices, Explorer's tabs and the notes.     *)
EXTENDS Vfs, Wine, Bluetooth, Applets, SequenceTheorems, WellFoundedInduction, TLAPS

-----------------------------------------------------------------------------
(* Lists in general: an array with a count, appended to while the count is *)
(* below its size.                                                         *)
LEMMA Appended ==
  ASSUME NEW S, NEW s \in Seq(S), NEW e \in S
  PROVE  /\ Append(s, e) \in Seq(S)
         /\ Len(Append(s, e)) = Len(s) + 1
         /\ \A k \in 1 .. Len(s) : Append(s, e)[k] = s[k]
         /\ Append(s, e)[Len(s) + 1] = e
BY AppendProperties

(* A function on 1 .. n is a sequence of length n.                          *)
LEMMA ListOfLen ==
  ASSUME NEW S, NEW n \in Nat, NEW s \in [1 .. n -> S]
  PROVE  s \in Seq(S) /\ Len(s) = n
<1>1. s \in Seq(S)
  BY SeqDef
<1>2. DOMAIN s = 1 .. Len(s) /\ DOMAIN s = 1 .. n /\ Len(s) \in Nat
  BY <1>1, LenProperties
<1>. QED BY <1>1, <1>2

(* A set of naturals that is not empty has a least element.                *)
LEMMA Smallest ==
  ASSUME NEW I, I \subseteq Nat, I # {}
  PROVE  Min(I) \in I /\ \A j \in I : Min(I) <= j
<1> DEFINE R == OpToRel(<, Nat)
<1>1. IsWellFoundedOn(R, Nat)
  BY NatLessThanWellFounded
<1>2. \A a, b \in Nat : <<a, b>> \in R <=> a < b
  BY DEF OpToRel
<1> HIDE DEF R
<1>3. PICK m \in I : \A j \in I : ~(<<j, m>> \in R)
  BY ONLY <1>1, WFMin, I \subseteq Nat, I # {}
<1>4. ASSUME NEW j \in I PROVE m <= j
  <2>1. j \in Nat /\ m \in Nat
    OBVIOUS
  <2>2. ~(j < m)
    BY <1>2, <1>3, <2>1
  <2>. QED BY <2>1, <2>2
<1>. QED BY <1>4 DEF Min

(* A list without one of its entries: those behind it move down.           *)
LEMMA Removed ==
  ASSUME NEW S, NEW s \in Seq(S), NEW i \in 1 .. Len(s)
  PROVE  /\ RemoveAt(s, i) \in Seq(S)
         /\ Len(RemoveAt(s, i)) = Len(s) - 1
         /\ \A k \in 1 .. Len(s) - 1 :
              RemoveAt(s, i)[k] = s[IF k < i THEN k ELSE k + 1]
<1> DEFINE n == Len(s)
           a == SubSeq(s, 1, i - 1)
           b == SubSeq(s, i + 1, n)
<1>1. n \in Nat /\ i \in Nat /\ 1 <= i /\ i <= n /\ \A k \in 1 .. n : s[k] \in S
  OBVIOUS
<1>2. /\ a \in Seq(S) /\ Len(a) = i - 1
      /\ \A k \in 1 .. i - 1 : a[k] = s[k]
  BY <1>1, SubSeqProperties
<1>3. /\ b \in Seq(S) /\ Len(b) = n - i
      /\ \A k \in 1 .. n - i : b[k] = s[k + i]
  BY <1>1, SubSeqProperties
<1> HIDE DEF a, b, n
<1>4. /\ a \o b \in Seq(S) /\ Len(a \o b) = Len(a) + Len(b)
      /\ \A k \in 1 .. Len(a) + Len(b) :
           (a \o b)[k] = IF k <= Len(a) THEN a[k] ELSE b[k - Len(a)]
  BY ONLY <1>2, <1>3, ConcatProperties
<1>5. RemoveAt(s, i) = a \o b
  BY DEF RemoveAt, a, b, n
<1>6. \A k \in 1 .. n - 1 : (a \o b)[k] = s[IF k < i THEN k ELSE k + 1]
  BY <1>1, <1>2, <1>3, <1>4
<1>7. Len(a \o b) = n - 1
  BY <1>1, <1>2, <1>3, <1>4
<1>. QED BY ONLY <1>4, <1>5, <1>6, <1>7 DEF n

-----------------------------------------------------------------------------
(* The file system.                                                        *)
NodeEntries ==
  [name : {Name(p) : p \in Paths}, type : {"directory", "file"}, size : Nat, path : Paths]

NodesOK == nodes \in Seq(NodeEntries) /\ Len(nodes) <= MAX_VFS_NODES

(* The descriptors that are in use stay, and so do the names they are for. *)
NamesKept ==
  /\ Len(nodes) <= Len(nodes')
  /\ \A i \in 1 .. Len(nodes) : nodes'[i].name = nodes[i].name

LEMMA VfsStart == VfsInit => NodesOK /\ VfsTypeOK
<1> SUFFICES ASSUME VfsInit PROVE NodesOK /\ VfsTypeOK
  OBVIOUS
<1> DEFINE n == Len(Defaults)
<1>1. n \in Nat /\ DOMAIN Defaults = 1 .. n /\ \A i \in 1 .. n : Defaults[i] \in Paths
  BY VfsAssumption
<1>2. \A p \in Paths : Directory(p) \in NodeEntries
  BY DEF Directory, NodeEntries
<1>3. nodes = [i \in 1 .. n |-> Directory(Defaults[i])] /\ nodes \in [1 .. n -> NodeEntries]
  BY <1>1, <1>2 DEF VfsInit
<1> HIDE DEF n
<1>4. nodes \in Seq(NodeEntries) /\ Len(nodes) = n
  BY ONLY <1>1, <1>3, ListOfLen
<1>5. NodesOK
  BY <1>4, VfsAssumption DEF NodesOK, n
<1>6. \A i \in DOMAIN nodes : nodes[i].type \in {"file", "directory"} /\ nodes[i].size \in Nat
  BY <1>3 DEF NodeEntries
<1>7. call[1] = "vfs_init"
  BY DEF VfsInit
<1>8. Len(nodes) <= MAX_VFS_NODES /\ call[1] # "vfs_open"
  BY <1>5, <1>7 DEF NodesOK
<1>. QED BY <1>5, <1>6, <1>8 DEF VfsTypeOK

(* A list that has grown by one entry, or has not changed.                 *)
LEMMA VfsGrows ==
  ASSUME NodesOK, NEW e \in NodeEntries, Room, nodes' = Append(nodes, e)
  PROVE  NodesOK' /\ NamesKept /\ 0 \in Fds'
<1>1. Len(nodes) \in Nat /\ Len(nodes') = Len(nodes) + 1 /\ nodes' \in Seq(NodeEntries)
      /\ \A i \in 1 .. Len(nodes) : nodes'[i] = nodes[i]
  BY Appended DEF NodesOK
<1>. QED BY <1>1, VfsAssumption DEF NodesOK, Room, NamesKept, Fds

LEMMA VfsRests ==
  ASSUME NodesOK, UNCHANGED nodes
  PROVE  NodesOK' /\ NamesKept /\ Fds' = Fds
BY DEF NodesOK, NamesKept, Fds

LEMMA VfsResized ==
  ASSUME NodesOK, NEW fd \in Fds, NEW n \in Nat,
         nodes' = [nodes EXCEPT ![fd + 1].size = n]
  PROVE  NodesOK' /\ NamesKept
<1>1. Len(nodes) \in Nat /\ fd + 1 \in 1 .. Len(nodes) /\ DOMAIN nodes = 1 .. Len(nodes)
  BY DEF NodesOK, Fds
<1> DEFINE e == [nodes[fd + 1] EXCEPT !.size = n]
<1>2. nodes[fd + 1] \in NodeEntries
  BY <1>1 DEF NodesOK
<1>3. e \in NodeEntries /\ e.name = nodes[fd + 1].name
  BY <1>2 DEF NodeEntries
<1>4. nodes' = [nodes EXCEPT ![fd + 1] = e]
  OBVIOUS
<1> HIDE DEF e
<1>5. /\ nodes' \in Seq(NodeEntries) /\ Len(nodes') = Len(nodes)
      /\ \A i \in 1 .. Len(nodes) : nodes'[i] = IF i = fd + 1 THEN e ELSE nodes[i]
  BY <1>1, <1>3, <1>4, ExceptSeq DEF NodesOK
<1>. QED BY <1>1, <1>3, <1>5 DEF NodesOK, NamesKept

LEMMA VfsStep ==
  NodesOK /\ VfsTypeOK /\ [VfsNext]_vfs_vars => NodesOK' /\ VfsTypeOK' /\ NamesKept
<1> SUFFICES ASSUME NodesOK, VfsTypeOK, [VfsNext]_vfs_vars
             PROVE  NodesOK' /\ VfsTypeOK' /\ NamesKept
  OBVIOUS
<1> DEFINE AnswerOK == call'[1] = "vfs_open" /\ result' # FAIL => result' \in Fds'
<1>1. ASSUME NodesOK', AnswerOK PROVE VfsTypeOK'
  <2>1. \A i \in DOMAIN nodes' : nodes'[i] \in NodeEntries
    BY <1>1 DEF NodesOK
  <2>. QED BY <1>1, <2>1 DEF NodesOK, VfsTypeOK, NodeEntries
<1>2. \A p \in Paths : Directory(p) \in NodeEntries /\ File(p) \in NodeEntries
  BY DEF Directory, File, NodeEntries
<1> SUFFICES NodesOK' /\ NamesKept /\ AnswerOK
  BY <1>1
<1>3. ASSUME NEW p \in Paths, Created(p)
      PROVE  NodesOK' /\ NamesKept /\ (result' # FAIL => result' \in Fds')
  <2>1. CASE Room
    BY <1>2, <1>3, <2>1, VfsGrows DEF Created
  <2>2. CASE ~Room
    BY <1>3, <2>2, VfsRests DEF Created
  <2>. QED BY <2>1, <2>2
<1>4. ASSUME NEW p \in Paths, Mkdir(p) PROVE NodesOK' /\ NamesKept /\ AnswerOK
  <2>1. CASE Room
    BY <1>2, <1>4, <2>1, VfsGrows DEF Mkdir
  <2>2. CASE ~Room
    BY <1>4, <2>2, VfsRests DEF Mkdir
  <2>. QED BY <2>1, <2>2
<1>5. ASSUME NEW p \in Paths, Create(p) PROVE NodesOK' /\ NamesKept /\ AnswerOK
  BY <1>3, <1>5 DEF Create
<1>6. ASSUME NEW p \in Paths, Read(p) PROVE NodesOK' /\ NamesKept /\ AnswerOK
  BY <1>6, VfsRests DEF Read
<1>7. ASSUME NEW p \in Paths, NEW f, OpenFound(p, f)
      PROVE  NodesOK' /\ NamesKept /\ AnswerOK
  BY <1>7, VfsRests DEF OpenFound
<1>8. ASSUME NEW p \in Paths, NEW f, OpenCreate(p, f)
      PROVE  NodesOK' /\ NamesKept /\ AnswerOK
  BY <1>3, <1>8 DEF OpenCreate
<1>9. ASSUME NEW p \in Paths, NEW f, OpenFail(p, f)
      PROVE  NodesOK' /\ NamesKept /\ AnswerOK
  BY <1>9, VfsRests DEF OpenFail
<1>10. ASSUME NEW p \in Paths, NEW n \in Sizes, WriteFound(p, n)
       PROVE  NodesOK' /\ NamesKept /\ AnswerOK
  <2>1. n \in Nat
    BY VfsAssumption
  <2>2. PICK fd \in Fds : nodes' = [nodes EXCEPT ![fd + 1].size = n]
    BY <1>10 DEF WriteFound
  <2>3. NodesOK' /\ NamesKept
    BY <2>1, <2>2, VfsResized
  <2>. QED BY <1>10, <2>3 DEF WriteFound
<1>11. ASSUME NEW p \in Paths, NEW n \in Sizes, WriteFail(p, n)
       PROVE  NodesOK' /\ NamesKept /\ AnswerOK
  BY <1>11, VfsRests DEF WriteFail
<1>12. ASSUME NEW p \in Paths, NEW n \in Sizes, Readdir(p, n)
       PROVE  NodesOK' /\ NamesKept /\ AnswerOK
  BY <1>12, VfsRests DEF Readdir
<1>13. CASE UNCHANGED vfs_vars
  BY <1>13, VfsRests DEF vfs_vars, VfsTypeOK
<1>. QED
  BY <1>4, <1>5, <1>6, <1>7, <1>8, <1>9, <1>10, <1>11, <1>12, <1>13 DEF VfsNext

(* The table of nodes, of any size: it stays within it, and what open      *)
(* returns is one of its entries.                                          *)
THEOREM VfsTypes == VfsSpec => []VfsTypeOK
BY VfsStart, VfsStep, PTL DEF VfsSpec

(* What the history of opens says of the nodes.                            *)
HomeOK ==
  /\ home \in [Paths -> Int]
  /\ \A p \in Paths : home[p] # FAIL => FirstMatch(p, home[p])

LEMMA FirstStays ==
  ASSUME NodesOK, NodesOK', NamesKept, NEW p \in Paths, NEW fd \in Fds, FirstMatch(p, fd)
  PROVE  FirstMatch(p, fd)'
<1>1. Len(nodes) \in Nat /\ Len(nodes') \in Nat
  BY DEF NodesOK
<1>. QED BY <1>1 DEF FirstMatch, Named, Fds, Node, NamesKept, NodesOK

(* Of the nodes a path names, one is the first.                            *)
LEMMA NoneIsNamed ==
  ASSUME NodesOK, NEW p \in Paths, ~Found(p)
  PROVE  \A fd \in Fds : ~Named(Node(fd), p)
<1> SUFFICES ASSUME NEW e \in Fds, Named(Node(e), p) PROVE FALSE
  OBVIOUS
<1> DEFINE I == {fd \in Fds : Named(Node(fd), p)}
<1>1. I \subseteq Nat /\ I # {}
  BY DEF NodesOK, Fds
<1>2. Min(I) \in I /\ \A j \in I : Min(I) <= j
  BY <1>1, Smallest
<1>3. \A j \in Fds : j < Min(I) => ~Named(Node(j), p)
  BY <1>1, <1>2
<1>. QED BY <1>2, <1>3 DEF Found, FirstMatch

(* The node appended for a path that named none is the first it names.     *)
LEMMA AppendedIsFirst ==
  ASSUME NodesOK, NEW p \in Paths, ~Found(p), Named(File(p), p),
         nodes' = Append(nodes, File(p)), NEW n \in Nat, n = Len(nodes)
  PROVE  FirstMatch(p, n)'
<1>1. File(p) \in NodeEntries
  BY DEF File, NodeEntries
<1>2. /\ Len(nodes) \in Nat /\ Len(nodes') = Len(nodes) + 1
      /\ \A k \in 1 .. Len(nodes) : nodes'[k] = nodes[k]
      /\ nodes'[Len(nodes) + 1] = File(p)
  BY <1>1, Appended DEF NodesOK
<1>3. \A fd \in Fds : ~Named(Node(fd), p)
  BY NoneIsNamed
<1>. QED BY <1>2, <1>3 DEF FirstMatch, Named, Fds, Node

LEMMA HomeStep ==
  NodesOK /\ NodesOK' /\ NamesKept /\ HomeOK /\ [VfsNext]_vfs_vars => HomeOK'
<1> SUFFICES ASSUME NodesOK, NodesOK', NamesKept, HomeOK, [VfsNext]_vfs_vars PROVE HomeOK'
  OBVIOUS
<1>1. ASSUME NEW p \in Paths, home[p] # FAIL PROVE FirstMatch(p, home[p]) /\ home[p] \in Fds
  BY <1>1 DEF HomeOK, FirstMatch
<1>2. ASSUME NEW p \in Paths, NEW fd \in Int, FirstMatch(p, fd) PROVE FirstMatch(p, fd)'
  BY <1>2, FirstStays DEF FirstMatch
<1>3. CASE UNCHANGED home
  <2>1. ASSUME NEW p \in Paths, home[p] # FAIL PROVE FirstMatch(p, home[p])'
    <3>1. PICK fd \in Int : fd = home[p]
      BY DEF HomeOK
    <3>2. FirstMatch(p, fd)'
      BY <1>1, <1>2, <2>1, <3>1
    <3>. QED BY <1>3, <3>1, <3>2
  <2>. QED BY <1>3, <2>1 DEF HomeOK
<1>4. ASSUME NEW q \in Paths, NEW fd \in Int, FirstMatch(q, fd)',
             home' = [home EXCEPT ![q] = fd]
      PROVE  HomeOK'
  <2>1. ASSUME NEW p \in Paths, home'[p] # FAIL PROVE FirstMatch(p, home[p])'
    <3>1. CASE p = q
      <4>1. home'[p] = fd
        BY <1>4, <3>1 DEF HomeOK
      <4>. QED BY <1>4, <3>1, <4>1
    <3>2. CASE p # q
      <4>1. PICK e \in Int : e = home[p]
        BY DEF HomeOK
      <4>2. home'[p] = e
        BY <1>4, <3>2, <4>1 DEF HomeOK
      <4>3. FirstMatch(p, e)'
        BY <1>1, <1>2, <2>1, <4>1, <4>2
      <4>. QED BY <4>2, <4>3
    <3>. QED BY <3>1, <3>2
  <2>. QED BY <1>4, <2>1 DEF HomeOK
<1>5. ASSUME NEW p \in Paths, NEW f, OpenFound(p, f) PROVE HomeOK'
  <2>1. PICK fd \in Fds : FirstMatch(p, fd) /\ home' = [home EXCEPT ![p] = fd]
    BY <1>5 DEF OpenFound
  <2>2. fd \in Int
    BY DEF NodesOK, Fds
  <2>. QED BY <1>2, <1>4, <2>1, <2>2
<1>6. ASSUME NEW p \in Paths, NEW f, OpenCreate(p, f) PROVE HomeOK'
  <2>1. CASE Room /\ Named(File(p), p)
    <3>1. ~Found(p) /\ nodes' = Append(nodes, File(p)) /\ home' = [home EXCEPT ![p] = Len(nodes)]
      BY <1>6, <2>1 DEF OpenCreate, Created
    <3>2. PICK n \in Nat : n = Len(nodes)
      BY DEF NodesOK
    <3>3. FirstMatch(p, n)'
      BY <2>1, <3>1, <3>2, AppendedIsFirst
    <3>4. n \in Int /\ home' = [home EXCEPT ![p] = n]
      BY <3>1, <3>2
    <3>. QED BY <1>4, <3>3, <3>4
  <2>2. CASE ~(Room /\ Named(File(p), p))
    BY <1>3, <1>6, <2>2 DEF OpenCreate
  <2>. QED BY <2>1, <2>2
<1>7. VfsNext => \/ UNCHANGED home
                 \/ \E p \in Paths, f \in {0, O_CREAT} : OpenFound(p, f) \/ OpenCreate(p, f)
  BY DEF VfsNext, Mkdir, Create, Read, OpenFail, WriteFound, WriteFail, Readdir
<1>8. CASE UNCHANGED vfs_vars
  BY <1>3, <1>8 DEF vfs_vars
<1>. QED BY <1>3, <1>5, <1>6, <1>7, <1>8

(* Whatever is created or written: the node that open found for a path, or *)
(* created for it, is the one that opens, reads and writes find later.     *)
THEOREM FirstNodeKeepsName == VfsSpec => OpenIsStable
<1> DEFINE Stable == \A p \in Paths : home[p] # FAIL /\ call'[2] = p =>
             /\ call'[1] = "vfs_open"  => result' = home[p]
             /\ call'[1] = "vfs_read"  => result' # FAIL
             /\ call'[1] = "vfs_write" =>
                  nodes' = [nodes EXCEPT ![home[p] + 1].size = call'[3]]
<1>1. VfsInit => HomeOK
  BY DEF VfsInit, HomeOK, FAIL
<1>2. NodesOK /\ HomeOK /\ VfsNext => Stable
  <2> SUFFICES ASSUME NodesOK, HomeOK, VfsNext, NEW p \in Paths, home[p] # FAIL, call'[2] = p
               PROVE  /\ call'[1] = "vfs_open"  => result' = home[p]
                      /\ call'[1] = "vfs_read"  => result' # FAIL
                      /\ call'[1] = "vfs_write" =>
                           nodes' = [nodes EXCEPT ![home[p] + 1].size = call'[3]]
    OBVIOUS
  <2>1. FirstMatch(p, home[p]) /\ home[p] \in Fds /\ Found(p)
    BY DEF HomeOK, FirstMatch, Found
  <2>2. \A fd \in Fds : FirstMatch(p, fd) => fd = home[p]
    BY <2>1 DEF FirstMatch, Fds, NodesOK
  <2>3. ASSUME NEW q \in Paths, NEW f, OpenFound(q, f) \/ OpenCreate(q, f) \/ OpenFail(q, f)
        PROVE  call'[1] = "vfs_open" /\ result' = home[p]
    BY <2>1, <2>2, <2>3 DEF OpenFound, OpenCreate, OpenFail
  <2>4. ASSUME NEW q \in Paths, Read(q)
        PROVE  call'[1] = "vfs_read" /\ result' # FAIL
    BY <2>1, <2>4 DEF Read, FAIL
  <2>5. ASSUME NEW q \in Paths, NEW n \in Sizes, WriteFound(q, n) \/ WriteFail(q, n)
        PROVE  /\ call'[1] = "vfs_write"
               /\ nodes' = [nodes EXCEPT ![home[p] + 1].size = call'[3]]
    <3>1. call' = <<"vfs_write", q, n>>
      BY <2>5 DEF WriteFound, WriteFail
    <3>2. q = p /\ call'[1] = "vfs_write" /\ call'[3] = n
      BY <3>1
    <3>3. WriteFound(p, n)
      BY <2>1, <2>5, <3>2 DEF WriteFail
    <3>4. PICK fd \in Fds : FirstMatch(p, fd) /\ nodes' = [nodes EXCEPT ![fd + 1].size = n]
      BY <3>3 DEF WriteFound
    <3>5. fd = home[p]
      BY <2>2, <3>4
    <3>. QED BY <3>2, <3>4, <3>5
  <2>6. ASSUME NEW q \in Paths, Mkdir(q) \/ Create(q)
        PROVE  call'[1] \notin {"vfs_open", "vfs_read", "vfs_write"}
    BY <2>6 DEF Mkdir, Create
  <2>7. ASSUME NEW q \in Paths, NEW n \in Sizes, Readdir(q, n)
        PROVE  call'[1] \notin {"vfs_open", "vfs_read", "vfs_write"}
    <3>1. call' = <<"vfs_readdir", q>>
      BY <2>7 DEF Readdir
    <3>. QED BY <3>1
  <2>. QED BY <2>3, <2>4, <2>5, <2>6, <2>7 DEF VfsNext
<1>3. NodesOK /\ HomeOK /\ [VfsNext]_vfs_vars => [Stable]_vfs_vars
  BY <1>2
<1>. QED BY VfsStart, VfsStep, HomeStep, <1>1, <1>3, PTL DEF VfsSpec, OpenIsStable

-----------------------------------------------------------------------------
(* The Windows layer.                                                      *)
ProcessEntries == [pid : Nat, exe : Programs]
DriveEntries ==
  [letter : Letters \cup {"C", "D", "Z"}, host : {"drive_c", "/media", "/", "/mnt"}]

Layers == [enabled : BOOLEAN, initialized : BOOLEAN, dxvk : BOOLEAN,
           processes : Seq(ProcessEntries), drives : Seq(DriveEntries),
           overrides : 0 .. MAX_OVERRIDES]

(* The first three drives are the ones that wine_init maps.                *)
StandardFirst(w) ==
  w.initialized => Len(w.drives) >= 3 /\ \A k \in 1 .. 3 : w.drives[k] = StandardDrives[k]

LayerOK(w) ==
  /\ w \in Layers
  /\ Len(w.processes) <= WINE_MAX_APPS /\ Len(w.drives) <= MAX_DRIVES
  /\ \A k \in 1 .. Len(w.processes) :
       w.processes[k].pid \in FIRST_PID .. FIRST_PID + WINE_MAX_APPS - 1
  /\ StandardFirst(w)

(* Without a kill of an older process the pids are those of the places.    *)
InOrder(w) == \A k \in 1 .. Len(w.processes) : w.processes[k].pid = FIRST_PID + k - 1

WineInv == LayerOK(wine) /\ reused \in BOOLEAN /\ (~reused => InOrder(wine))

LEMMA StandardList ==
  /\ StandardDrives \in Seq(DriveEntries) /\ Len(StandardDrives) = 3
  /\ DOMAIN StandardDrives = 1 .. 3
  /\ \A j, k \in 1 .. 3 : StandardDrives[j].letter = StandardDrives[k].letter => j = k
BY DEF StandardDrives, Mapped, DriveEntries

LEMMA WineBegins == WineInit => WineInv
<1> SUFFICES ASSUME WineInit PROVE WineInv
  OBVIOUS
<1>1. <<>> \in Seq(ProcessEntries) /\ <<>> \in Seq(DriveEntries) /\ Len(<<>>) = 0
      /\ 0 \in 0 .. MAX_OVERRIDES
  BY WineAssumption
<1>2. wine \in Layers /\ Len(wine.processes) = 0 /\ Len(wine.drives) = 0
  BY <1>1 DEF WineInit, Layers
<1>3. ~wine.initialized /\ reused \in BOOLEAN
  BY DEF WineInit
<1>. QED BY <1>2, <1>3, WineAssumption DEF WineInv, LayerOK, StandardFirst, InOrder

LEMMA StartedOK ==
  ASSUME NEW w, LayerOK(w)
  PROVE  LayerOK(Started(w)) /\ Started(w).processes = w.processes
<1>1. CASE w.initialized
  BY <1>1 DEF Started
<1>2. CASE ~w.initialized
  <2>1. Started(w) = [w EXCEPT !.drives = StandardDrives, !.initialized = TRUE]
    BY <1>2 DEF Started
  <2>2. /\ Started(w) \in Layers /\ Started(w).processes = w.processes
        /\ Started(w).drives = StandardDrives
    BY <2>1, StandardList DEF LayerOK, Layers
  <2>. QED BY <2>2, StandardList, WineAssumption DEF LayerOK, StandardFirst
<1>. QED BY <1>1, <1>2

LEMMA StoppedOK ==
  ASSUME NEW w, LayerOK(w)
  PROVE  LayerOK(Stopped(w)) /\ Len(Stopped(w).processes) = 0
<1>1. <<>> \in Seq(ProcessEntries) /\ Len(<<>>) = 0
  OBVIOUS
<1>2. /\ Stopped(w) \in Layers /\ Stopped(w).processes = <<>>
      /\ Stopped(w).drives = w.drives /\ Stopped(w).initialized = FALSE
  BY <1>1 DEF Stopped, LayerOK, Layers
<1>. QED BY <1>1, <1>2, WineAssumption DEF LayerOK, StandardFirst

LEMMA RunKeeps ==
  ASSUME WineInv, NEW exe \in Programs, WineRun(exe)
  PROVE  WineInv'
<1> DEFINE w == Started(wine)
           e == [pid |-> NextPid(w), exe |-> exe]
<1>1. LayerOK(w) /\ (~reused => InOrder(w))
  BY StartedOK DEF WineInv, InOrder
<1>2. wine' = (IF Len(w.processes) < WINE_MAX_APPS
               THEN [w EXCEPT !.processes = Append(@, e)] ELSE w)
      /\ reused' = reused
  BY DEF WineRun
<1>3. e.pid = FIRST_PID + Len(w.processes)
  BY DEF NextPid
<1>4. Len(w.processes) \in Nat /\ e \in ProcessEntries
  BY <1>1, <1>3 DEF LayerOK, Layers, ProcessEntries, FIRST_PID
<1> HIDE DEF w, e
<1>5. CASE Len(w.processes) < WINE_MAX_APPS
  <2> DEFINE p == Append(w.processes, e)
  <2>1. w.processes \in Seq(ProcessEntries)
    BY <1>1 DEF LayerOK, Layers
  <2>2. /\ p \in Seq(ProcessEntries) /\ Len(p) = Len(w.processes) + 1
        /\ \A k \in 1 .. Len(w.processes) : p[k] = w.processes[k]
        /\ p[Len(w.processes) + 1] = e
    BY ONLY <1>4, <2>1, Appended
  <2> HIDE DEF p
  <2>3. wine' = [w EXCEPT !.processes = p]
    BY <1>2, <1>5 DEF p
  <2>4. /\ wine' \in Layers /\ wine'.processes = p
        /\ wine'.drives = w.drives /\ wine'.initialized = w.initialized
    BY <1>1, <2>2, <2>3 DEF LayerOK, Layers
  <2>5. \A k \in 1 .. Len(p) :
          p[k].pid \in FIRST_PID .. FIRST_PID + WINE_MAX_APPS - 1
    <3> DEFINE n == Len(w.processes)
    <3>1. n \in Nat /\ n < WINE_MAX_APPS /\ WINE_MAX_APPS \in Nat
      BY <1>4, <1>5, WineAssumption
    <3>2. \A k \in 1 .. n : p[k].pid \in FIRST_PID .. FIRST_PID + WINE_MAX_APPS - 1
      BY <1>1, <2>2 DEF LayerOK
    <3>3. p[n + 1].pid = FIRST_PID + n /\ Len(p) = n + 1
      BY <1>3, <2>2
    <3> HIDE DEF n
    <3>4. p[n + 1].pid \in FIRST_PID .. FIRST_PID + WINE_MAX_APPS - 1
      BY <3>1, <3>3 DEF FIRST_PID
    <3>. QED BY <3>1, <3>2, <3>3, <3>4
  <2>6. LayerOK(wine')
    BY <1>1, <1>4, <1>5, <2>2, <2>4, <2>5, WineAssumption DEF LayerOK, StandardFirst
  <2>7. InOrder(w) => InOrder(wine')
    BY <1>3, <1>4, <2>2, <2>4 DEF InOrder
  <2>. QED BY <1>1, <1>2, <2>6, <2>7 DEF WineInv
<1>6. CASE ~(Len(w.processes) < WINE_MAX_APPS)
  BY <1>1, <1>2, <1>6 DEF WineInv
<1>. QED BY <1>5, <1>6

LEMMA KillKeeps ==
  ASSUME WineInv, NEW pid, WineKill(pid)
  PROVE  WineInv'
<1> DEFINE p == wine.processes
           k == Min(Holders(pid))
           left == RemoveAt(p, k)
<1>1. p \in Seq(ProcessEntries) /\ Len(p) \in Nat /\ DOMAIN p = 1 .. Len(p)
  BY DEF WineInv, LayerOK, Layers
<1>2. k \in 1 .. Len(p)
  <2>1. Holders(pid) # {} /\ Holders(pid) \subseteq 1 .. Len(p)
    BY <1>1 DEF WineKill, Holders
  <2>2. Holders(pid) \subseteq Nat
    BY <1>1, <2>1
  <2>3. k \in Holders(pid)
    BY ONLY <2>1, <2>2, Smallest
  <2>. QED BY <2>1, <2>3
<1>3. wine' = [wine EXCEPT !.processes = left]
      /\ reused' = (left # <<>> /\ (reused \/ k <= Len(left)))
  BY DEF WineKill
<1> HIDE DEF k
<1>4. /\ left \in Seq(ProcessEntries) /\ Len(left) = Len(p) - 1
      /\ \A j \in 1 .. Len(p) - 1 : left[j] = p[IF j < k THEN j ELSE j + 1]
  BY ONLY <1>1, <1>2, Removed
<1> HIDE DEF left
<1>5. /\ wine' \in Layers /\ wine'.processes = left
      /\ wine'.drives = wine.drives /\ wine'.initialized = wine.initialized
  BY <1>3, <1>4 DEF WineInv, LayerOK, Layers
<1>6. LayerOK(wine')
  <2>1. Len(p) <= WINE_MAX_APPS
        /\ \A j \in 1 .. Len(p) : p[j].pid \in FIRST_PID .. FIRST_PID + WINE_MAX_APPS - 1
    BY DEF WineInv, LayerOK
  <2> HIDE DEF p
  <2>2. Len(left) <= WINE_MAX_APPS
    BY <1>1, <1>4, <2>1, WineAssumption
  <2>3. \A j \in 1 .. Len(left) :
          left[j].pid \in FIRST_PID .. FIRST_PID + WINE_MAX_APPS - 1
    <3> SUFFICES ASSUME NEW j \in 1 .. Len(left)
                 PROVE  left[j].pid \in FIRST_PID .. FIRST_PID + WINE_MAX_APPS - 1
      OBVIOUS
    <3>1. j \in 1 .. Len(p) /\ j + 1 \in 1 .. Len(p) /\ j \in 1 .. Len(p) - 1
      BY <1>1, <1>4
    <3>2. (IF j < k THEN j ELSE j + 1) \in 1 .. Len(p)
      BY <3>1
    <3>. QED BY ONLY <1>4, <2>1, <3>1, <3>2
  <2>. QED BY <1>5, <2>2, <2>3 DEF WineInv, LayerOK, StandardFirst
<1>7. ASSUME ~reused' PROVE InOrder(wine')
  <2>1. CASE left = <<>>
    BY <1>5, <2>1 DEF InOrder
  <2>2. CASE left # <<>>
    <3>1. ~reused /\ ~(k <= Len(left))
      BY <1>3, <1>7, <2>2 DEF WineInv
    <3>2. k = Len(p)
      BY <1>1, <1>2, <1>4, <3>1
    <3>3. \A j \in 1 .. Len(p) : p[j].pid = FIRST_PID + j - 1
      BY <3>1 DEF WineInv, InOrder
    <3> HIDE DEF p
    <3>4. \A j \in 1 .. Len(left) : left[j] = p[j] /\ j \in 1 .. Len(p)
      BY <1>1, <1>4, <3>2
    <3>. QED BY <1>5, <3>3, <3>4 DEF InOrder
  <2>. QED BY <2>1, <2>2
<1>8. reused' \in BOOLEAN
  BY <1>3 DEF WineInv
<1>. QED BY <1>6, <1>7, <1>8 DEF WineInv

LEMMA AddDriveKeeps ==
  ASSUME WineInv, NEW letter \in Letters, WineAddDrive(letter)
  PROVE  WineInv'
<1> DEFINE d == wine.drives
           e == Mapped(letter, "/mnt")
           more == Append(d, e)
<1>1. d \in Seq(DriveEntries) /\ Len(d) \in Nat /\ e \in DriveEntries
  BY DEF WineInv, LayerOK, Layers, Mapped, DriveEntries
<1>2. wine' = [wine EXCEPT !.drives = more] /\ reused' = reused /\ Len(d) < MAX_DRIVES
  BY DEF WineAddDrive
<1> HIDE DEF e
<1>3. /\ more \in Seq(DriveEntries) /\ Len(more) = Len(d) + 1
      /\ \A k \in 1 .. Len(d) : more[k] = d[k]
  BY ONLY <1>1, Appended
<1> HIDE DEF more
<1>4. /\ wine' \in Layers /\ wine'.processes = wine.processes
      /\ wine'.drives = more /\ wine'.initialized = wine.initialized
  BY <1>2, <1>3 DEF WineInv, LayerOK, Layers
<1>5. Len(wine'.drives) <= MAX_DRIVES
  BY <1>1, <1>2, <1>3, <1>4, WineAssumption
<1>6. StandardFirst(wine')
  BY <1>1, <1>3, <1>4 DEF WineInv, LayerOK, StandardFirst
<1>7. LayerOK(wine')
  BY <1>4, <1>5, <1>6 DEF WineInv, LayerOK
<1>. QED BY <1>2, <1>4, <1>7 DEF WineInv, InOrder

LEMMA WineStep == WineInv /\ [WineNext]_wine_vars => WineInv'
<1> SUFFICES ASSUME WineInv, [WineNext]_wine_vars PROVE WineInv'
  OBVIOUS
<1>1. CASE WineStart
  BY <1>1, StartedOK DEF WineStart, WineInv, InOrder
<1>2. CASE WineShutdown
  <2>1. LayerOK(wine') /\ InOrder(wine') /\ reused' = FALSE
    BY <1>2, StoppedOK DEF WineShutdown, WineInv, InOrder
  <2>. QED BY <2>1 DEF WineInv
<1>3. ASSUME WineOverride \/ \E on \in BOOLEAN : WineDxvk(on) PROVE WineInv'
  <2>1. /\ wine' \in Layers /\ wine'.processes = wine.processes /\ reused' = reused
        /\ wine'.drives = wine.drives /\ wine'.initialized = wine.initialized
    BY <1>3, WineAssumption DEF WineOverride, WineDxvk, WineInv, LayerOK, Layers
  <2>. QED BY <2>1 DEF WineInv, LayerOK, StandardFirst, InOrder
<1>4. ASSUME NEW on \in BOOLEAN, WineSetEnabled(on) PROVE WineInv'
  <2> DEFINE w == [wine EXCEPT !.enabled = on]
  <2>1. /\ w \in Layers /\ w.processes = wine.processes /\ w.drives = wine.drives
        /\ w.initialized = wine.initialized
    BY DEF WineInv, LayerOK, Layers
  <2>2. wine' = (IF on THEN w ELSE Stopped(w)) /\ reused' = (reused /\ on)
    BY <1>4 DEF WineSetEnabled
  <2> HIDE DEF w
  <2>3. LayerOK(w) /\ (~reused => InOrder(w))
    BY <2>1 DEF WineInv, LayerOK, StandardFirst, InOrder
  <2>4. LayerOK(Stopped(w)) /\ InOrder(Stopped(w))
    BY <2>3, StoppedOK DEF InOrder
  <2>. QED BY <2>2, <2>3, <2>4 DEF WineInv
<1>5. CASE UNCHANGED wine_vars
  BY <1>5 DEF wine_vars, WineInv
<1>. QED
  BY <1>1, <1>2, <1>3, <1>4, <1>5, RunKeeps, KillKeeps, AddDriveKeeps DEF WineNext

LEMMA WineInvImplies == WineInv => WineTypeOK /\ WineSound
<1> SUFFICES ASSUME WineInv PROVE WineTypeOK /\ WineSound
  OBVIOUS
<1>1. /\ wine \in Layers /\ reused \in BOOLEAN
      /\ DOMAIN wine.processes = 1 .. Len(wine.processes) /\ Len(wine.processes) \in Nat
      /\ DOMAIN wine.drives = 1 .. Len(wine.drives) /\ Len(wine.drives) \in Nat
  BY DEF WineInv, LayerOK, Layers
<1>2. WineTypeOK
  BY <1>1 DEF WineTypeOK, WineInv, LayerOK, Layers
<1>3. PidsOwn
  BY <1>1 DEF PidsOwn, WineInv, InOrder, FIRST_PID
<1>4. ASSUME wine.initialized, NEW k \in 1 .. 3
      PROVE  DrivePath(StandardDrives[k].letter) = StandardDrives[k].host
  <2> DEFINE l == StandardDrives[k].letter
             I == {i \in 1 .. Len(wine.drives) : wine.drives[i].letter = l}
  <2>1. Len(wine.drives) >= 3 /\ \A i \in 1 .. 3 : wine.drives[i] = StandardDrives[i]
    BY <1>4 DEF WineInv, LayerOK, StandardFirst
  <2>2. k \in I /\ I \subseteq Nat
    BY <1>1, <2>1
  <2>3. Min(I) \in I /\ Min(I) <= k
    <3> HIDE DEF I
    <3>. QED BY ONLY <2>2, Smallest
  <2>4. Min(I) \in 1 .. 3 /\ wine.drives[Min(I)].letter = l
    BY <2>3
  <2>5. Min(I) = k
    BY <2>1, <2>4, StandardList
  <2>6. SelectInSeq(wine.drives, LAMBDA d : d.letter = l) = Min(I)
    BY <2>2 DEF SelectInSeq
  <2>7. SelectInSeq(wine.drives, LAMBDA d : d.letter = l) = k
    BY <2>5, <2>6
  <2> HIDE DEF l
  <2>. QED BY <2>1, <2>7 DEF DrivePath, l
<1>. QED BY <1>2, <1>3, <1>4, StandardList DEF WineSound, BuiltinDrives

(* Whatever callers run, kill and map: a pid is one process's, as long as  *)
(* the youngest is the one killed, and C, D and Z lead where they should.  *)
THEOREM PidsAndDrives == WineSpec => []WineSound
BY WineBegins, WineStep, WineInvImplies, PTL DEF WineSpec

-----------------------------------------------------------------------------
(* The Bluetooth driver.  Disconnecting takes one entry off the list, and  *)
(* no other device's last.                                                 *)
LEMMA WithoutOne ==
  ASSUME NEW S, NEW s \in Seq(S), NEW d
  PROVE  /\ Without(s, d) \in Seq(S) /\ Len(Without(s, d)) <= Len(s)
         /\ ToSet(s) \ {d} \subseteq ToSet(Without(s, d))
<1> DEFINE n == Len(s)
           I == {i \in 1 .. n : s[i] = d}
           left == Without(s, d)
<1>0. n \in Nat /\ DOMAIN s = 1 .. n
  OBVIOUS
<1>1. CASE I = {}
  <2>1. left = s
    BY <1>1 DEF Without, RemoveFirst
  <2>. QED BY <2>1
<1>2. CASE I # {}
  <2> DEFINE k == Min(I)
  <2>1. I \subseteq Nat
    OBVIOUS
  <2>2. k \in I
    <3> HIDE DEF I
    <3>. QED BY ONLY <1>2, <2>1, Smallest
  <2>3. SelectInSeq(s, LAMBDA v : v = d) = k
    BY <1>2 DEF SelectInSeq
  <2>4. \E i \in 1 .. n : s[i] = d
    BY <1>2
  <2>5. left = RemoveAt(s, k)
    BY <2>3, <2>4 DEF Without, RemoveFirst
  <2>6. k \in 1 .. Len(s) /\ s[k] = d
    BY <2>2
  <2> HIDE DEF k, left
  <2>7. /\ left \in Seq(S) /\ Len(left) = n - 1
        /\ \A j \in 1 .. n - 1 : left[j] = s[IF j < k THEN j ELSE j + 1]
    BY <2>5, <2>6, Removed
  <2>8. DOMAIN left = 1 .. n - 1
    BY <2>7
  <2>9. ASSUME NEW i \in 1 .. n, s[i] # d PROVE \E j \in 1 .. n - 1 : left[j] = s[i]
    <3>1. i # k
      BY <2>6, <2>9
    <3> HIDE DEF n
    <3>2. CASE i < k
      <4>1. i \in 1 .. n - 1 /\ left[i] = s[i]
        BY <1>0, <2>6, <2>7, <3>2 DEF n
      <4>. QED BY <4>1
    <3>3. CASE i > k
      <4>1. i - 1 \in 1 .. n - 1 /\ ~(i - 1 < k) /\ (i - 1) + 1 = i
        BY <1>0, <2>6, <3>3 DEF n
      <4>2. left[i - 1] = s[i]
        BY <2>7, <4>1
      <4>. QED BY <4>1, <4>2
    <3>. QED BY <1>0, <2>6, <3>1, <3>2, <3>3 DEF n
  <2>10. ToSet(s) \ {d} \subseteq ToSet(left)
    BY <1>0, <2>8, <2>9 DEF ToSet
  <2>. QED BY <1>0, <2>7, <2>10 DEF left
<1>. QED BY <1>1, <1>2

LEMMA AppendedSet ==
  ASSUME NEW S, NEW s \in Seq(S), NEW d \in S
  PROVE  ToSet(s) \cup {d} \subseteq ToSet(Append(s, d))
<1>1. /\ Append(s, d) \in Seq(S) /\ Len(Append(s, d)) = Len(s) + 1
      /\ \A k \in 1 .. Len(s) : Append(s, d)[k] = s[k]
      /\ Append(s, d)[Len(s) + 1] = d
  BY Appended
<1>2. /\ DOMAIN s = 1 .. Len(s) /\ DOMAIN Append(s, d) = 1 .. Len(s) + 1
      /\ Len(s) \in Nat
  BY <1>1
<1>. QED BY <1>1, <1>2 DEF ToSet

Drivers == [state : BtStates, enabled : BOOLEAN, visible : BOOLEAN, airplane : BOOLEAN,
            known : {{}, Devices}, paired : SUBSET Devices, connected : SUBSET Devices,
            pairings : Seq(Devices), active : Seq(Devices)]

DriverOK(b) ==
  /\ b \in Drivers
  /\ b.paired \subseteq b.known /\ b.connected \subseteq b.known
  /\ Len(b.pairings) <= MAX_PAIRED /\ Len(b.active) <= MAX_ACTIVE

BtInv == DriverOK(bt) /\ overflowed \in BOOLEAN /\ ListedWhileConnected

LEMMA BtBegins == BtInit => BtInv
<1> SUFFICES ASSUME BtInit PROVE BtInv
  OBVIOUS
<1>1. <<>> \in Seq(Devices) /\ Len(<<>>) = 0 /\ "OFF" \in BtStates /\ "OFF" # "CONNECTED"
  BY DEF BtStates
<1>2. bt \in Drivers /\ bt.paired = {} /\ bt.connected = {} /\ bt.state = "OFF"
      /\ Len(bt.pairings) = 0 /\ Len(bt.active) = 0
  BY <1>1 DEF BtInit, Drivers
<1>3. DriverOK(bt)
  BY <1>2, BluetoothAssumption DEF DriverOK
<1>4. overflowed \in BOOLEAN /\ ListedWhileConnected
  BY <1>1, <1>2 DEF BtInit, ListedWhileConnected
<1>. QED BY <1>3, <1>4 DEF BtInv

LEMMA SwitchedOffOK ==
  ASSUME NEW b, DriverOK(b)
  PROVE  /\ DriverOK(SwitchedOff(b)) /\ SwitchedOff(b).state = "OFF"
         /\ SwitchedOff(b).connected = b.connected \ ToSet(b.active)
<1>1. <<>> \in Seq(Devices) /\ Len(<<>>) = 0 /\ "OFF" \in BtStates
  BY DEF BtStates
<1> DEFINE c == b.connected \ ToSet(b.active)
<1>2. c \in SUBSET Devices /\ c \subseteq b.connected
  BY DEF DriverOK, Drivers
<1> HIDE DEF c
<1>3. SwitchedOff(b) = [b EXCEPT !.enabled = FALSE, !.state = "OFF", !.visible = FALSE,
                          !.connected = c, !.active = <<>>]
  BY DEF SwitchedOff, c
<1>4. /\ SwitchedOff(b) \in Drivers /\ SwitchedOff(b).state = "OFF"
      /\ SwitchedOff(b).connected = c /\ SwitchedOff(b).active = <<>>
      /\ SwitchedOff(b).paired = b.paired /\ SwitchedOff(b).known = b.known
      /\ SwitchedOff(b).pairings = b.pairings
  BY <1>1, <1>2, <1>3 DEF DriverOK, Drivers
<1>. QED BY <1>1, <1>2, <1>4, BluetoothAssumption DEF DriverOK, c

LEMMA OffKeeps ==
  ASSUME NEW b, DriverOK(b), bt' = SwitchedOff(b), overflowed' = overflowed,
         overflowed \in BOOLEAN,
         ~overflowed => b.connected \subseteq ToSet(b.active)
  PROVE  BtInv'
<1>1. /\ DriverOK(bt') /\ bt'.state = "OFF"
      /\ bt'.connected = b.connected \ ToSet(b.active)
  BY SwitchedOffOK
<1>2. ~overflowed' => bt'.connected = {}
  BY <1>1
<1>3. bt'.state # "CONNECTED"
  BY <1>1
<1>4. ListedWhileConnected'
  BY <1>2, <1>3 DEF ListedWhileConnected
<1>. QED BY <1>1, <1>4 DEF BtInv

LEMMA ConnectKeeps ==
  ASSUME BtInv, NEW d \in Devices, BtConnect(d)
  PROVE  BtInv'
<1> DEFINE a == IF Len(bt.active) < MAX_ACTIVE THEN Append(bt.active, d) ELSE bt.active
           c == bt.connected \cup {d}
<1>1. /\ bt \in Drivers /\ bt.active \in Seq(Devices) /\ Len(bt.active) \in Nat
      /\ bt.enabled /\ d \in bt.known /\ bt.connected \subseteq bt.known
      /\ Len(bt.active) <= MAX_ACTIVE /\ MAX_ACTIVE \in Nat /\ MAX_ACTIVE > 0
  BY BluetoothAssumption DEF BtInv, DriverOK, Drivers, BtConnect
<1>2. /\ a \in Seq(Devices) /\ Len(a) <= MAX_ACTIVE /\ Len(a) > 0
      /\ Len(bt.active) < MAX_ACTIVE => ToSet(bt.active) \cup {d} \subseteq ToSet(a)
  <2>1. CASE Len(bt.active) < MAX_ACTIVE
    BY <1>1, <2>1, Appended, AppendedSet
  <2>2. CASE ~(Len(bt.active) < MAX_ACTIVE)
    BY <1>1, <2>2
  <2>. QED BY <2>1, <2>2
<1>3. bt' = [bt EXCEPT !.state = "CONNECTED", !.connected = c, !.active = a]
      /\ overflowed' = (overflowed \/ Len(bt.active) >= MAX_ACTIVE)
  BY DEF BtConnect
<1>4. c \in SUBSET Devices /\ c \subseteq bt.known /\ "CONNECTED" \in BtStates
  BY <1>1 DEF BtInv, DriverOK, Drivers, BtStates
<1>5. ASSUME ~overflowed' PROVE c \subseteq ToSet(a)
  <2>1. ~overflowed /\ ~(Len(bt.active) >= MAX_ACTIVE)
    BY <1>3, <1>5
  <2>2. bt.connected \subseteq ToSet(bt.active)
    BY <2>1 DEF BtInv, ListedWhileConnected
  <2>. QED BY <1>1, <1>2, <2>1, <2>2
<1>6. overflowed' \in BOOLEAN
  BY <1>3 DEF BtInv
<1> HIDE DEF a, c
<1>7. /\ bt' \in Drivers /\ bt'.connected = c /\ bt'.active = a /\ bt'.enabled
      /\ bt'.paired = bt.paired /\ bt'.known = bt.known /\ bt'.pairings = bt.pairings
  BY <1>1, <1>2, <1>3, <1>4 DEF Drivers
<1>8. DriverOK(bt')
  BY <1>2, <1>4, <1>7 DEF BtInv, DriverOK
<1>9. a # <<>>
  BY <1>2
<1>10. ListedWhileConnected'
  BY <1>5, <1>7, <1>9 DEF ListedWhileConnected
<1>. QED BY <1>6, <1>8, <1>10 DEF BtInv

LEMMA DisconnectKeeps ==
  ASSUME BtInv, NEW d \in Devices, BtDisconnect(d)
  PROVE  BtInv'
<1> DEFINE left == Without(bt.active, d)
           c == bt.connected \ {d}
           state == IF left = <<>> THEN "IDLE" ELSE bt.state
<1>1. /\ bt \in Drivers /\ bt.active \in Seq(Devices) /\ bt.connected \subseteq bt.known
      /\ Len(bt.active) <= MAX_ACTIVE /\ Len(bt.active) \in Nat /\ MAX_ACTIVE \in Nat
  BY BluetoothAssumption DEF BtInv, DriverOK, Drivers
<1>2. /\ left \in Seq(Devices) /\ Len(left) <= Len(bt.active)
      /\ ToSet(bt.active) \ {d} \subseteq ToSet(left)
  BY <1>1, WithoutOne
<1>3. bt' = [bt EXCEPT !.connected = c, !.active = left, !.state = state]
      /\ overflowed' = overflowed
  BY DEF BtDisconnect
<1>4. c \in SUBSET Devices /\ c \subseteq bt.known /\ state \in BtStates
  BY <1>1 DEF Drivers, BtStates
<1>5. ~overflowed' => c \subseteq ToSet(left)
  BY <1>2, <1>3 DEF BtInv, ListedWhileConnected
<1>6. state = "CONNECTED" => bt.enabled /\ left # <<>>
  BY DEF BtInv, ListedWhileConnected
<1> HIDE DEF left, c, state
<1>7. /\ bt' \in Drivers /\ bt'.connected = c /\ bt'.active = left /\ bt'.state = state
      /\ bt'.enabled = bt.enabled /\ bt'.paired = bt.paired /\ bt'.known = bt.known
      /\ bt'.pairings = bt.pairings
  BY <1>1, <1>2, <1>3, <1>4 DEF Drivers
<1>8. DriverOK(bt')
  BY <1>1, <1>2, <1>4, <1>7 DEF BtInv, DriverOK
<1>9. ListedWhileConnected'
  BY <1>5, <1>6, <1>7 DEF ListedWhileConnected
<1>. QED BY <1>3, <1>8, <1>9 DEF BtInv

LEMMA PairKeeps ==
  ASSUME BtInv, NEW d \in Devices, BtPair(d) \/ BtUnpair(d)
  PROVE  BtInv'
<1> DEFINE p == bt'.pairings
<1>1. /\ bt \in Drivers /\ bt.pairings \in Seq(Devices) /\ bt.paired \subseteq bt.known
      /\ Len(bt.pairings) <= MAX_PAIRED /\ Len(bt.pairings) \in Nat /\ MAX_PAIRED \in Nat
      /\ d \in bt.known
  BY BluetoothAssumption DEF BtInv, DriverOK, Drivers, BtPair, BtUnpair
<1>2. /\ bt' \in Drivers /\ Len(p) <= MAX_PAIRED /\ bt'.paired \subseteq bt'.known
      /\ bt'.state \in {"IDLE", bt.state} /\ bt'.connected = bt.connected
      /\ bt'.active = bt.active /\ bt'.enabled = bt.enabled /\ bt'.known = bt.known
  <2>1. CASE BtPair(d)
    <3> DEFINE more == IF Len(bt.pairings) < MAX_PAIRED THEN Append(bt.pairings, d)
                       ELSE bt.pairings
               all == bt.paired \cup {d}
    <3>1. bt' = [bt EXCEPT !.state = "IDLE", !.paired = all, !.pairings = more]
      BY <2>1 DEF BtPair
    <3>2. more \in Seq(Devices) /\ Len(more) <= MAX_PAIRED
      BY <1>1, Appended
    <3>3. all \in SUBSET Devices /\ all \subseteq bt.known /\ "IDLE" \in BtStates
      BY <1>1 DEF Drivers, BtStates
    <3> HIDE DEF more, all
    <3>. QED BY <1>1, <3>1, <3>2, <3>3 DEF Drivers
  <2>2. CASE BtUnpair(d)
    <3> DEFINE left == Without(bt.pairings, d)
               all == bt.paired \ {d}
    <3>1. bt' = [bt EXCEPT !.paired = all, !.pairings = left]
      BY <2>2 DEF BtUnpair
    <3>2. left \in Seq(Devices) /\ Len(left) <= Len(bt.pairings) /\ Len(left) \in Nat
      BY <1>1, WithoutOne
    <3>3. all \in SUBSET Devices /\ all \subseteq bt.known
      BY <1>1 DEF Drivers
    <3> HIDE DEF left, all
    <3>4. /\ bt' \in Drivers /\ p = left /\ bt'.paired = all
          /\ bt'.state = bt.state /\ bt'.connected = bt.connected
          /\ bt'.active = bt.active /\ bt'.enabled = bt.enabled /\ bt'.known = bt.known
      BY <1>1, <3>1, <3>2, <3>3 DEF Drivers
    <3>. QED BY <1>1, <3>2, <3>3, <3>4
  <2>. QED BY <2>1, <2>2
<1>3. overflowed' = overflowed
  BY DEF BtPair, BtUnpair
<1>4. DriverOK(bt')
  BY <1>2 DEF BtInv, DriverOK
<1>5. ListedWhileConnected'
  BY <1>2, <1>3 DEF BtInv, ListedWhileConnected
<1>. QED BY <1>3, <1>4, <1>5 DEF BtInv

LEMMA BtStep == BtInv /\ [BtNext]_bt_vars => BtInv'
<1> SUFFICES ASSUME BtInv, [BtNext]_bt_vars PROVE BtInv'
  OBVIOUS
<1>1. bt \in Drivers /\ "IDLE" \in BtStates /\ "IDLE" # "CONNECTED"
  BY DEF BtInv, DriverOK, BtStates
<1>2. /\ DriverOK(bt) /\ overflowed \in BOOLEAN
      /\ ~overflowed => bt.connected \subseteq ToSet(bt.active)
  BY DEF BtInv, ListedWhileConnected
<1>3. ASSUME BtSetUp \/ BtEnable \/ BtStopDiscovery \/ \E v \in BOOLEAN : BtSetVisible(v)
      PROVE  BtInv'
  <2>1. /\ bt' \in Drivers /\ overflowed' = overflowed /\ bt'.known = bt.known
        /\ bt'.connected = bt.connected /\ bt'.active = bt.active
        /\ bt'.paired = bt.paired /\ bt'.pairings = bt.pairings
        /\ bt'.state = "IDLE" \/ (bt'.state = bt.state /\ bt'.enabled = bt.enabled)
    <3>1. CASE BtSetUp \/ BtStopDiscovery
      BY <1>1, <3>1 DEF BtSetUp, BtStopDiscovery, Drivers
    <3>2. CASE BtEnable
      BY <1>1, <3>2 DEF BtEnable, Drivers
    <3>3. ASSUME NEW v \in BOOLEAN, BtSetVisible(v)
          PROVE  bt' = [bt EXCEPT !.visible = v] /\ overflowed' = overflowed
      BY <3>3 DEF BtSetVisible
    <3>. QED BY <1>1, <1>3, <3>1, <3>2, <3>3 DEF Drivers
  <2>2. DriverOK(bt')
    BY <2>1 DEF BtInv, DriverOK
  <2>. QED BY <2>1, <2>2 DEF BtInv, ListedWhileConnected
<1>4. CASE BtDisable
  <2>1. bt' = SwitchedOff(bt) /\ overflowed' = overflowed
    BY <1>4 DEF BtDisable
  <2>. QED BY ONLY <1>2, <2>1, OffKeeps
<1>5. CASE BtDiscover
  <2>1. /\ bt' \in Drivers /\ overflowed' = FALSE /\ bt'.connected = {} /\ bt'.paired = {}
        /\ bt'.active = bt.active /\ bt'.pairings = bt.pairings /\ bt'.state = "IDLE"
    <3>1. /\ bt' = [bt EXCEPT !.state = "IDLE", !.known = Devices, !.paired = {},
                              !.connected = {}]
          /\ overflowed' = FALSE
      BY <1>5 DEF BtDiscover
    <3>2. Devices \in {{}, Devices} /\ {} \in SUBSET Devices
      OBVIOUS
    <3>. QED BY <1>1, <3>1, <3>2 DEF Drivers
  <2>2. DriverOK(bt')
    BY <2>1 DEF BtInv, DriverOK
  <2>. QED BY <2>1, <2>2 DEF BtInv, ListedWhileConnected
<1>6. ASSUME NEW on \in BOOLEAN, BtAirplane(on) PROVE BtInv'
  <2> DEFINE b == [bt EXCEPT !.airplane = on]
  <2>1. /\ b \in Drivers /\ b.known = bt.known /\ b.connected = bt.connected
        /\ b.active = bt.active /\ b.paired = bt.paired /\ b.pairings = bt.pairings
        /\ b.state = bt.state /\ b.enabled = bt.enabled
    BY <1>1 DEF Drivers
  <2>2. bt' = (IF on THEN SwitchedOff(b) ELSE b) /\ overflowed' = overflowed
    BY <1>6 DEF BtAirplane
  <2> HIDE DEF b
  <2>3. DriverOK(b)
    BY <2>1 DEF BtInv, DriverOK
  <2>4. CASE on
    <3>1. bt' = SwitchedOff(b) /\ overflowed' = overflowed
      BY <2>2, <2>4
    <3>2. ~overflowed => b.connected \subseteq ToSet(b.active)
      BY <1>2, <2>1
    <3>. QED BY ONLY <1>2, <2>3, <3>1, <3>2, OffKeeps
  <2>5. CASE ~on
    BY <2>1, <2>2, <2>3, <2>5 DEF BtInv, ListedWhileConnected
  <2>. QED BY <2>4, <2>5
<1>7. CASE UNCHANGED bt_vars
  BY <1>7 DEF bt_vars, BtInv, ListedWhileConnected
<1>. QED
  BY <1>3, <1>4, <1>5, <1>6, <1>7, ConnectKeeps, DisconnectKeeps, PairKeeps
  DEF BtNext, BtConnectAudio, BtConnectHid

(* Whatever is paired, connected twice, unpaired or discovered again, and  *)
(* for every size of the lists: the driver's list and its flags agree.     *)
THEOREM ListFollowsFlags == BtSpec => []ListedWhileConnected
<1>1. BtInv => ListedWhileConnected
  BY DEF BtInv
<1>. QED BY BtBegins, BtStep, <1>1, PTL DEF BtSpec

LEMMA BtInvTypes == BtInv => BtTypeOK
<1> SUFFICES ASSUME BtInv PROVE BtTypeOK
  OBVIOUS
<1>1. bt \in Drivers /\ DriverOK(bt) /\ overflowed \in BOOLEAN
  BY DEF BtInv, DriverOK
<1>2. \A s \in Seq(Devices) : ToSet(s) \subseteq Devices
  BY DEF ToSet
<1>3. bt.pairings \in Seq(Devices) /\ bt.active \in Seq(Devices)
  BY <1>1 DEF Drivers
<1>4. ToSet(bt.pairings) \subseteq Devices /\ ToSet(bt.active) \subseteq Devices
  BY <1>2, <1>3
<1>. QED BY <1>1, <1>4 DEF BtTypeOK, DriverOK, Drivers

-----------------------------------------------------------------------------
(* The small applications.  The quick settings.                            *)
Switches == [wifi_enabled : BOOLEAN, bluetooth_enabled : BOOLEAN, airplane_mode : BOOLEAN,
             wifi_connected : BOOLEAN, bluetooth_connected : BOOLEAN]

QsInv == qs \in Switches /\ RadiosAgree

LEMMA QsKeeps == QsInv /\ [QsNext]_qs => QsInv'
<1> SUFFICES ASSUME QsInv, [QsNext]_qs PROVE QsInv'
  OBVIOUS
<1> USE DEF QsInv, RadiosAgree, Switches
<1>1. CASE ToggleWifi
  BY <1>1 DEF ToggleWifi
<1>2. CASE ToggleBluetooth
  BY <1>2 DEF ToggleBluetooth
<1>3. CASE ToggleAirplane
  BY <1>3 DEF ToggleAirplane
<1>4. CASE UNCHANGED qs
  BY <1>4
<1>. QED BY <1>1, <1>2, <1>3, <1>4 DEF QsNext

-----------------------------------------------------------------------------
(* The explorer.                                                           *)
Tabs == [path : TabPaths \cup {""}, active : BOOLEAN]

Explorers == [tabs : Seq(Tabs), active : Int, emptied : BOOLEAN]

ExplorerInv == explorer \in Explorers /\ Len(explorer.tabs) <= MAX_TABS /\ OneTabActive

LEMMA ExplorerStart == ExplorerInitial => ExplorerInv
<1> SUFFICES ASSUME ExplorerInitial PROVE ExplorerInv
  OBVIOUS
<1>1. PICK t \in Tabs : explorer = [tabs |-> <<t>>, active |-> 0, emptied |-> FALSE]
  <2>1. Tab("", FALSE) \in Tabs
    BY DEF Tab, Tabs
  <2>. QED BY <2>1, Zenon DEF ExplorerInitial
<1>2. explorer \in Explorers /\ Len(explorer.tabs) = 1 /\ explorer.active = 0
      /\ explorer.emptied = FALSE
  BY <1>1 DEF Explorers
<1>. QED BY <1>2, AppletsAssumption DEF ExplorerInv, OneTabActive

LEMMA ExplorerKeeps == ExplorerInv /\ [ExplorerNext]_explorer => ExplorerInv'
<1> SUFFICES ASSUME ExplorerInv, [ExplorerNext]_explorer PROVE ExplorerInv'
  OBVIOUS
<1> DEFINE n == Len(explorer.tabs)
<1>1. /\ explorer \in Explorers /\ explorer.tabs \in Seq(Tabs)
      /\ n \in Nat /\ n <= MAX_TABS /\ MAX_TABS \in Nat
  BY AppletsAssumption DEF ExplorerInv, Explorers
<1>2. ASSUME NEW path \in TabPaths, AddTab(path) PROVE ExplorerInv'
  <2> DEFINE more == Append(explorer.tabs, Tab(path, TRUE))
  <2>0. Tab(path, TRUE) \in Tabs
    BY DEF Tab, Tabs
  <2>1. more \in Seq(Tabs) /\ Len(more) = n + 1
    BY <1>1, <2>0, Appended
  <2>2. explorer' = [explorer EXCEPT !.tabs = more] /\ n < MAX_TABS
    BY <1>2 DEF AddTab
  <2> HIDE DEF more
  <2>3. /\ explorer' \in Explorers /\ explorer'.tabs = more
        /\ explorer'.active = explorer.active /\ explorer'.emptied = explorer.emptied
    BY <1>1, <2>1, <2>2 DEF Explorers
  <2>. QED BY <1>1, <2>1, <2>2, <2>3 DEF ExplorerInv, OneTabActive
<1>3. ASSUME NEW i \in 0 .. MAX_TABS, CloseTab(i) PROVE ExplorerInv'
  <2> DEFINE left == RemoveAt(explorer.tabs, i + 1)
             active == IF explorer.active >= n - 1 THEN n - 2 ELSE explorer.active
             emptied == explorer.emptied \/ n - 1 = 0
  <2>1. i + 1 \in 1 .. n /\ n >= 1
    BY <1>1, <1>3 DEF CloseTab
  <2>2. left \in Seq(Tabs) /\ Len(left) = n - 1
    BY <1>1, <2>1, Removed
  <2>3. explorer' = [tabs |-> left, emptied |-> emptied, active |-> active]
    BY <1>1, <1>3 DEF CloseTab
  <2>4. active \in Int /\ emptied \in BOOLEAN
    BY <1>1 DEF Explorers
  <2>5. IF emptied THEN active = -1 ELSE active \in 0 .. n - 2
    <3>1. CASE explorer.emptied
      BY <1>1, <2>1, <3>1 DEF ExplorerInv, OneTabActive
    <3>2. CASE ~explorer.emptied
      <4>1. explorer.active \in 0 .. n - 1
        BY <3>2 DEF ExplorerInv, OneTabActive
      <4>2. CASE n = 1
        <5>1. active = -1 /\ emptied
          BY <4>1, <4>2
        <5>. QED BY <5>1
      <4>3. CASE n # 1
        <5>1. n > 1 /\ ~(n - 1 = 0)
          <6> HIDE DEF n
          <6>. QED BY <1>1, <2>1, <4>3
        <5>2. ~emptied
          BY <3>2, <5>1
        <5>3. active \in 0 .. n - 2
          BY <1>1, <4>1, <5>1
        <5>. QED BY <5>2, <5>3
      <4>. QED BY <4>2, <4>3
    <3>. QED BY <3>1, <3>2
  <2> HIDE DEF left, active, emptied
  <2>6. /\ explorer' \in Explorers /\ explorer'.tabs = left
        /\ explorer'.active = active /\ explorer'.emptied = emptied
    BY <2>2, <2>3, <2>4 DEF Explorers
  <2>. QED BY <1>1, <2>2, <2>5, <2>6 DEF ExplorerInv, OneTabActive
<1>4. CASE UNCHANGED explorer
  BY <1>4 DEF ExplorerInv, OneTabActive
<1>. QED BY <1>2, <1>3, <1>4 DEF ExplorerNext

-----------------------------------------------------------------------------
(* The wizard.                                                             *)
WizardInv ==
  wizard \in [step : 1 .. 9, accepted_license : BOOLEAN, installing : BOOLEAN]

LEMMA StepNames ==
  /\ DOMAIN Steps = 1 .. 10
  /\ \A k \in 1 .. 9 : Steps[k] # "COMPLETE"
  /\ Steps[9] = "INSTALLING"
BY DEF Steps

LEMMA WizardKeeps == WizardInv /\ [WizardNext]_wizard => WizardInv'
<1> SUFFICES ASSUME WizardInv, [WizardNext]_wizard PROVE WizardInv'
  OBVIOUS
<1> USE DEF WizardInv
<1>1. CASE NextStep
  <2>1. wizard.step # 9 /\ wizard.step \in 1 .. 9
    BY <1>1, StepNames DEF NextStep
  <2>2. wizard.step + 1 \in 1 .. 9
    BY <2>1
  <2>. QED BY <1>1, <2>2 DEF NextStep
<1>2. CASE PrevStep
  BY <1>2 DEF PrevStep
<1>3. CASE AcceptLicense \/ StartInstall
  BY <1>3 DEF AcceptLicense, StartInstall
<1>4. CASE UNCHANGED wizard
  BY <1>4
<1>. QED BY <1>1, <1>2, <1>3, <1>4 DEF WizardNext

-----------------------------------------------------------------------------
(* The notes.                                                              *)
NoteEntries == [id : 1 .. NOTES, look : Looks, minimized : BOOLEAN]

NotesInv ==
  /\ notes \in Seq(NoteEntries) /\ Len(notes) <= MAX_NOTES
  /\ next_id \in 1 .. NOTES + 1
  /\ written \in [1 .. NOTES -> Looks \cup {"none"}]
  /\ \A k \in 1 .. Len(notes) : notes[k].id < next_id
  /\ NotesKeepTheirs

LEMMA NotesStart == NotesInitial => NotesInv
<1> SUFFICES ASSUME NotesInitial PROVE NotesInv
  OBVIOUS
<1>1. notes \in Seq(NoteEntries) /\ Len(notes) = 0 /\ DOMAIN notes = {}
  BY DEF NotesInitial
<1>2. \A id \in 1 .. NOTES : written[id] = "none"
  BY DEF NotesInitial
<1>3. NotesKeepTheirs
  BY <1>1, <1>2 DEF NotesKeepTheirs
<1>4. next_id \in 1 .. NOTES + 1 /\ written \in [1 .. NOTES -> Looks \cup {"none"}]
  BY AppletsAssumption DEF NotesInitial
<1>. QED BY <1>1, <1>3, <1>4, AppletsAssumption DEF NotesInv

LEMMA NotesTyped ==
  ASSUME NotesInv
  PROVE  /\ Len(notes) \in Nat /\ DOMAIN notes = 1 .. Len(notes)
         /\ {NOTES, MAX_NOTES} \subseteq Nat
         /\ \A k \in 1 .. Len(notes) :
              /\ notes[k] \in NoteEntries
              /\ notes[k].id \in 1 .. NOTES /\ notes[k].id \in Int
<1>1. /\ Len(notes) \in Nat /\ DOMAIN notes = 1 .. Len(notes)
      /\ \A k \in 1 .. Len(notes) : notes[k] \in NoteEntries
  BY DEF NotesInv
<1>2. {NOTES, MAX_NOTES} \subseteq Nat
  BY AppletsAssumption
<1>3. \A e \in NoteEntries : e.id \in 1 .. NOTES /\ e.id \in Int
  BY <1>2 DEF NoteEntries
<1>. QED BY <1>1, <1>2, <1>3

(* The place that an id is found at is the only one of that id.            *)
LEMMA NoteFound ==
  ASSUME NotesInv, NEW id, NoteAt(id) # 0
  PROVE  /\ NoteAt(id) \in 1 .. Len(notes) /\ notes[NoteAt(id)].id = id
         /\ \A j \in 1 .. Len(notes) : notes[j].id = id => j = NoteAt(id)
<1> DEFINE I == {i \in 1 .. Len(notes) : notes[i].id = id}
<1>1. Len(notes) \in Nat /\ DOMAIN notes = 1 .. Len(notes)
      /\ \A k \in 1 .. Len(notes) : notes[k].id \in Int
  BY NotesTyped
<1>2. I # {}
  BY DEF NoteAt, SelectInSeq
<1>3. NoteAt(id) = Min(I)
  BY <1>2 DEF NoteAt, SelectInSeq
<1>4. I \subseteq Nat
  OBVIOUS
<1>5. Min(I) \in I
  <2> HIDE DEF I
  <2>. QED BY ONLY <1>2, <1>4, Smallest
<1>6. \A j, k \in 1 .. Len(notes) : notes[j].id = notes[k].id => j = k
  BY <1>1 DEF NotesInv, NotesKeepTheirs
<1>. QED BY <1>3, <1>5, <1>6

LEMMA CreateNoteKeeps ==
  ASSUME NotesInv, NEW look \in Looks, CreateNote(look)
  PROVE  NotesInv'
<1> DEFINE n == Len(notes)
           e == Note(next_id, look)
           more == Append(notes, e)
<1>1. /\ n \in Nat /\ n < MAX_NOTES /\ MAX_NOTES \in Nat /\ NOTES \in Nat
      /\ next_id \in 1 .. NOTES /\ DOMAIN notes = 1 .. n /\ notes \in Seq(NoteEntries)
      /\ \A k \in 1 .. n : notes[k].id \in 1 .. NOTES /\ notes[k].id < next_id
  BY NotesTyped DEF NotesInv, CreateNote
<1>2. e \in NoteEntries /\ e.id = next_id /\ e.look = look
  BY <1>1 DEF Note, NoteEntries
<1>3. /\ notes' = more /\ next_id' = next_id + 1
      /\ written' = [written EXCEPT ![next_id] = look]
  BY DEF CreateNote
<1> HIDE DEF e
<1>4. /\ more \in Seq(NoteEntries) /\ Len(more) = n + 1
      /\ \A k \in 1 .. n : more[k] = notes[k]
      /\ more[n + 1] = e
  BY <1>1, <1>2, Appended
<1> HIDE DEF n, more
<1>5. DOMAIN more = 1 .. n + 1
  BY <1>1, <1>4
<1>6. /\ written' \in [1 .. NOTES -> Looks \cup {"none"}]
      /\ \A id \in 1 .. NOTES : written'[id] = IF id = next_id THEN look ELSE written[id]
  BY <1>1, <1>3 DEF NotesInv
<1>7. \A k \in 1 .. n + 1 : more[k].id < next_id + 1 /\ more[k].id \in 1 .. NOTES
  <2> SUFFICES ASSUME NEW k \in 1 .. n + 1
               PROVE  more[k].id < next_id + 1 /\ more[k].id \in 1 .. NOTES
    OBVIOUS
  <2>1. k \in 1 .. n \/ k = n + 1
    BY <1>1
  <2>. QED BY <1>1, <1>2, <1>4, <2>1
<1>8. \A k \in 1 .. n + 1 : more[k].look = written'[more[k].id]
  <2> SUFFICES ASSUME NEW k \in 1 .. n + 1 PROVE more[k].look = written'[more[k].id]
    OBVIOUS
  <2>1. CASE k \in 1 .. n
    <3>1. notes[k].look = written[notes[k].id]
      BY <1>1, <2>1 DEF NotesInv, NotesKeepTheirs
    <3>2. notes[k].id # next_id /\ more[k] = notes[k]
      BY <1>1, <1>4, <2>1
    <3>. QED BY <1>1, <1>6, <2>1, <3>1, <3>2
  <2>2. CASE k = n + 1
    BY <1>1, <1>2, <1>4, <1>6, <2>2
  <2>. QED BY <1>1, <2>1, <2>2
<1>9. \A j, k \in 1 .. n + 1 : j < k => more[j].id < more[k].id
  <2> SUFFICES ASSUME NEW j \in 1 .. n + 1, NEW k \in 1 .. n + 1, j < k
               PROVE  more[j].id < more[k].id
    OBVIOUS
  <2>1. j \in 1 .. n /\ more[j] = notes[j]
    BY <1>1, <1>4
  <2>2. CASE k \in 1 .. n
    BY <1>1, <1>4, <2>1, <2>2 DEF NotesInv, NotesKeepTheirs
  <2>3. CASE k = n + 1
    BY <1>1, <1>2, <1>4, <2>1, <2>3
  <2>4. k \in 1 .. n \/ k = n + 1
    BY <1>1
  <2>. QED BY <2>2, <2>3, <2>4
<1>10. {id \in 1 .. NOTES : written'[id] # "none"} = {more[k].id : k \in 1 .. n + 1}
  <2>1. {id \in 1 .. NOTES : written[id] # "none"} = {notes[k].id : k \in 1 .. n}
    BY <1>1 DEF NotesInv, NotesKeepTheirs
  <2>2. look # "none"
    BY AppletsAssumption
  <2>3. ASSUME NEW id \in 1 .. NOTES, written'[id] # "none"
        PROVE  \E k \in 1 .. n + 1 : more[k].id = id
    <3>1. CASE id = next_id
      BY <1>1, <1>2, <1>4, <3>1
    <3>2. CASE id # next_id
      <4>1. PICK k \in 1 .. n : notes[k].id = id
        BY <1>6, <2>1, <2>3, <3>2
      <4>2. k \in 1 .. n + 1 /\ more[k].id = id
        BY <1>1, <1>4, <4>1
      <4>. QED BY <4>2
    <3>. QED BY <3>1, <3>2
  <2>4. ASSUME NEW k \in 1 .. n + 1 PROVE written'[more[k].id] # "none"
    <3>1. CASE k \in 1 .. n
      BY <1>1, <1>4, <1>6, <2>1, <2>2, <3>1
    <3>2. CASE k = n + 1
      BY <1>1, <1>2, <1>4, <1>6, <2>2, <3>2
    <3>. QED BY <1>1, <3>1, <3>2
  <2>. QED BY <1>7, <2>3, <2>4
<1>11. NotesKeepTheirs'
  BY <1>3, <1>5, <1>8, <1>9, <1>10 DEF NotesKeepTheirs
<1>. QED BY <1>1, <1>3, <1>4, <1>6, <1>7, <1>11 DEF NotesInv

(* What deleting leaves: the other notes, in their order.                  *)
LEMMA DeleteNoteKeeps ==
  ASSUME NotesInv, NEW id \in 1 .. NOTES, DeleteNote(id)
  PROVE  NotesInv'
<1> DEFINE n == Len(notes)
           at == NoteAt(id)
           left == RemoveAt(notes, at)
           from(k) == IF k < at THEN k ELSE k + 1
<1>1. /\ n \in Nat /\ n <= MAX_NOTES /\ MAX_NOTES \in Nat /\ NOTES \in Nat
      /\ DOMAIN notes = 1 .. n /\ notes \in Seq(NoteEntries)
      /\ \A k \in 1 .. n : notes[k].id \in 1 .. NOTES /\ notes[k].id \in Int
  BY NotesTyped DEF NotesInv
<1>2. /\ notes' = left /\ next_id' = next_id
      /\ written' = [written EXCEPT ![id] = "none"]
  BY DEF DeleteNote
<1>3. /\ at \in 1 .. n /\ notes[at].id = id
      /\ \A j \in 1 .. n : notes[j].id = id => j = at
  BY NoteFound DEF DeleteNote
<1> HIDE DEF at
<1>4. /\ left \in Seq(NoteEntries) /\ Len(left) = n - 1
      /\ \A k \in 1 .. n - 1 : left[k] = notes[from(k)]
  BY <1>1, <1>3, Removed
<1> HIDE DEF n, left
<1>5. DOMAIN left = 1 .. n - 1
  BY <1>1, <1>4
<1>6. /\ \A k \in 1 .. n - 1 : from(k) \in 1 .. n /\ from(k) # at
      /\ \A j, k \in 1 .. n - 1 : j < k => from(j) < from(k)
      /\ \A m \in 1 .. n : m # at => \E k \in 1 .. n - 1 : from(k) = m
  <2>1. \A k \in 1 .. n - 1 : from(k) \in 1 .. n /\ from(k) # at
    BY <1>1, <1>3
  <2>2. \A j, k \in 1 .. n - 1 : j < k => from(j) < from(k)
    BY <1>1, <1>3
  <2>3. ASSUME NEW m \in 1 .. n, m # at PROVE \E k \in 1 .. n - 1 : from(k) = m
    <3>1. CASE m < at
      <4>1. m \in 1 .. n - 1 /\ from(m) = m
        BY <1>1, <1>3, <3>1
      <4>. QED BY <4>1
    <3>2. CASE m > at
      <4>1. m - 1 \in 1 .. n - 1 /\ from(m - 1) = m
        BY <1>1, <1>3, <3>2
      <4>. QED BY <4>1
    <3>. QED BY <1>1, <1>3, <2>3, <3>1, <3>2
  <2>. QED BY <2>1, <2>2, <2>3
<1> HIDE DEF from
<1>7. /\ written' \in [1 .. NOTES -> Looks \cup {"none"}]
      /\ \A i \in 1 .. NOTES : written'[i] = IF i = id THEN "none" ELSE written[i]
  BY <1>1, <1>2 DEF NotesInv
<1>8. \A k \in 1 .. n - 1 : /\ left[k] = notes[from(k)] /\ left[k].id # id
                            /\ left[k].id \in 1 .. NOTES
  BY <1>1, <1>3, <1>4, <1>6
<1>9. \A k \in 1 .. n - 1 : left[k].id < next_id'
  BY <1>2, <1>6, <1>8 DEF NotesInv, n
<1>10. \A k \in 1 .. n - 1 : left[k].look = written'[left[k].id]
  <2>1. \A k \in 1 .. n : notes[k].look = written[notes[k].id]
    BY <1>1 DEF NotesInv, NotesKeepTheirs
  <2>. QED BY <1>6, <1>7, <1>8, <2>1
<1>11. \A j, k \in 1 .. n - 1 : j < k => left[j].id < left[k].id
  <2>1. \A j, k \in 1 .. n : j < k => notes[j].id < notes[k].id
    BY <1>1 DEF NotesInv, NotesKeepTheirs
  <2>. QED BY <1>6, <1>8, <2>1
<1>12. {i \in 1 .. NOTES : written'[i] # "none"} = {left[k].id : k \in 1 .. n - 1}
  <2>1. {i \in 1 .. NOTES : written[i] # "none"} = {notes[k].id : k \in 1 .. n}
    BY <1>1 DEF NotesInv, NotesKeepTheirs
  <2>2. ASSUME NEW i \in 1 .. NOTES, written'[i] # "none"
        PROVE  \E k \in 1 .. n - 1 : left[k].id = i
    <3>1. i # id /\ written[i] # "none"
      BY <1>7, <2>2
    <3>2. PICK m \in 1 .. n : notes[m].id = i
      BY <2>1, <3>1
    <3>3. m # at
      BY <1>3, <3>1, <3>2
    <3>4. PICK k \in 1 .. n - 1 : from(k) = m
      BY <1>6, <3>3
    <3>. QED BY <1>8, <3>2, <3>4
  <2>3. ASSUME NEW k \in 1 .. n - 1 PROVE written'[left[k].id] # "none"
    <3>1. notes[from(k)].id \in {i \in 1 .. NOTES : written[i] # "none"}
      BY <1>6, <2>1
    <3>. QED BY <1>7, <1>8, <3>1
  <2>. QED BY <1>8, <2>2, <2>3
<1>13. NotesKeepTheirs'
  BY <1>2, <1>5, <1>10, <1>11, <1>12 DEF NotesKeepTheirs
<1>14. Len(left) <= MAX_NOTES /\ next_id' \in 1 .. NOTES + 1
  BY <1>1, <1>2, <1>4 DEF NotesInv
<1>. QED BY <1>2, <1>4, <1>7, <1>9, <1>13, <1>14 DEF NotesInv

(* A note rewritten in its place, under its id.                            *)
LEMMA ChangeNoteKeeps ==
  ASSUME NotesInv, NEW id \in 1 .. NOTES, NoteAt(id) # 0,
         NEW e \in NoteEntries, e.id = id, notes' = [notes EXCEPT ![NoteAt(id)] = e],
         next_id' = next_id, NEW look \in Looks, e.look = look,
         written' = [written EXCEPT ![id] = look]
  PROVE  NotesInv'
<1> DEFINE n == Len(notes)
           at == NoteAt(id)
<1>1. /\ n \in Nat /\ NOTES \in Nat /\ DOMAIN notes = 1 .. n
      /\ notes \in Seq(NoteEntries)
      /\ \A k \in 1 .. n : notes[k].id \in 1 .. NOTES
  BY NotesTyped DEF NotesInv
<1>2. /\ at \in 1 .. n /\ notes[at].id = id
      /\ \A j \in 1 .. n : notes[j].id = id => j = at
  BY NoteFound
<1> HIDE DEF at
<1>3. /\ notes' \in Seq(NoteEntries) /\ Len(notes') = n
      /\ \A k \in 1 .. n : notes'[k] = IF k = at THEN e ELSE notes[k]
  BY <1>1, <1>2, ExceptSeq DEF at
<1>4. DOMAIN notes' = 1 .. n
  BY <1>1, <1>3
<1>5. \A k \in 1 .. n : notes'[k].id = notes[k].id
  BY <1>2, <1>3
<1>6. look # "none"
  BY AppletsAssumption
<1>7. /\ written' \in [1 .. NOTES -> Looks \cup {"none"}]
      /\ \A i \in 1 .. NOTES : written'[i] = IF i = id THEN look ELSE written[i]
  BY <1>1 DEF NotesInv
<1>8. written[id] # "none"
  BY <1>1, <1>2 DEF NotesInv, NotesKeepTheirs
<1> HIDE DEF n
<1>9. NotesKeepTheirs'
  <2>1. ASSUME NEW k \in 1 .. n PROVE notes'[k].look = written'[notes'[k].id]
    <3>1. CASE k = at
      BY <1>2, <1>3, <1>7, <3>1
    <3>2. CASE k # at
      <4>1. notes[k].look = written[notes[k].id] /\ notes[k].id # id
        BY <1>1, <1>2, <3>2 DEF NotesInv, NotesKeepTheirs
      <4>. QED BY <1>1, <1>3, <1>7, <3>2, <4>1
    <3>. QED BY <3>1, <3>2
  <2>2. \A j, k \in 1 .. n : j < k => notes'[j].id < notes'[k].id
    BY <1>1, <1>5 DEF NotesInv, NotesKeepTheirs
  <2>3. {i \in 1 .. NOTES : written'[i] # "none"} = {i \in 1 .. NOTES : written[i] # "none"}
    BY <1>6, <1>7, <1>8
  <2>4. {notes'[k].id : k \in 1 .. n} = {notes[k].id : k \in 1 .. n}
    BY <1>5
  <2>5. {i \in 1 .. NOTES : written[i] # "none"} = {notes[k].id : k \in 1 .. n}
    BY <1>1 DEF NotesInv, NotesKeepTheirs
  <2>6. {i \in 1 .. NOTES : written'[i] # "none"} = {notes'[k].id : k \in 1 .. n}
    BY ONLY <2>3, <2>4, <2>5
  <2>. QED BY <1>4, <2>1, <2>2, <2>6 DEF NotesKeepTheirs
<1>10. \A k \in 1 .. n : notes'[k].id < next_id'
  BY <1>5 DEF NotesInv, n
<1>. QED BY <1>3, <1>7, <1>9, <1>10 DEF NotesInv, n

LEMMA NotesKeep == NotesInv /\ [NotesNext]_<<notes, next_id, written>> => NotesInv'
<1> SUFFICES ASSUME NotesInv, [NotesNext]_<<notes, next_id, written>> PROVE NotesInv'
  OBVIOUS
<1>1. ASSUME NEW id \in 1 .. NOTES, NEW look \in Looks, ChangeNote(id, look)
      PROVE  NotesInv'
  <2> DEFINE at == NoteAt(id)
             e == [notes[at] EXCEPT !.look = look]
  <2>1. /\ at # 0 /\ notes' = [notes EXCEPT ![at] = e] /\ next_id' = next_id
        /\ written' = [written EXCEPT ![id] = look]
    BY <1>1 DEF ChangeNote
  <2>2. at \in 1 .. Len(notes) /\ notes[at].id = id
    BY <2>1, NoteFound
  <2>3. notes[at] \in NoteEntries
    BY <2>2, NotesTyped
  <2> HIDE DEF at
  <2>4. e \in NoteEntries /\ e.id = id /\ e.look = look
    BY <2>2, <2>3 DEF NoteEntries
  <2> HIDE DEF e
  <2>. QED BY <2>1, <2>4, ChangeNoteKeeps DEF at
<1>2. ASSUME NEW id \in 1 .. NOTES, MinimizeNote(id) PROVE NotesInv'
  <2> DEFINE at == NoteAt(id)
             e == [notes[at] EXCEPT !.minimized = ~@]
  <2>1. /\ at # 0 /\ notes' = [notes EXCEPT ![at] = e] /\ next_id' = next_id
        /\ written' = written
    BY <1>2 DEF MinimizeNote
  <2>2. at \in 1 .. Len(notes) /\ notes[at].id = id
    BY <2>1, NoteFound
  <2>3. notes[at] \in NoteEntries /\ DOMAIN notes = 1 .. Len(notes)
    BY <2>2, NotesTyped
  <2>4. written[id] = notes[at].look
    BY <2>2, <2>3 DEF NotesInv, NotesKeepTheirs
  <2> HIDE DEF at
  <2>5. e \in NoteEntries /\ e.id = id /\ e.look = notes[at].look /\ e.look \in Looks
    BY <2>2, <2>3 DEF NoteEntries
  <2> HIDE DEF e
  <2>6. written' = [written EXCEPT ![id] = e.look]
    BY <2>1, <2>4, <2>5 DEF NotesInv
  <2>. QED BY <2>1, <2>5, <2>6, ChangeNoteKeeps DEF at
<1>3. CASE UNCHANGED <<notes, next_id, written>>
  BY <1>3 DEF NotesInv, NotesKeepTheirs
<1>. QED BY <1>1, <1>2, <1>3, CreateNoteKeeps, DeleteNoteKeeps DEF NotesNext

(* The four of them.                                                       *)
AppletsInv == QsInv /\ ExplorerInv /\ NotesInv /\ WizardInv

AppletsNext == QsNext \/ ExplorerNext \/ NotesNext \/ WizardNext

LEMMA AppletsStart == AppletsInit => AppletsInv
<1>1. QsInitial => QsInv
  BY DEF QsInitial, QsInv, Switches, RadiosAgree
<1>2. WizardInitial => WizardInv
  BY DEF WizardInitial, WizardInv
<1>. QED BY <1>1, <1>2, ExplorerStart, NotesStart DEF AppletsInit, AppletsInv

LEMMA AppletsStep == AppletsInv /\ [AppletsNext]_applets_vars => AppletsInv'
<1> SUFFICES ASSUME AppletsInv, [AppletsNext]_applets_vars PROVE AppletsInv'
  OBVIOUS
<1>1. /\ [QsNext]_qs /\ [ExplorerNext]_explorer /\ [WizardNext]_wizard
      /\ [NotesNext]_<<notes, next_id, written>>
  BY DEF AppletsNext, QsNext, ExplorerNext, NotesNext, WizardNext, applets_vars
<1>. QED BY <1>1, QsKeeps, ExplorerKeeps, WizardKeeps, NotesKeep DEF AppletsInv

LEMMA AppletsInvImplies == AppletsInv => AppletsAgree /\ AppletsTypeOK
<1> SUFFICES ASSUME AppletsInv PROVE AppletsAgree /\ AppletsTypeOK
  OBVIOUS
<1>1. NeverComplete /\ wizard.step \in DOMAIN Steps
  BY StepNames DEF AppletsInv, WizardInv, NeverComplete
<1>2. \A field \in DOMAIN qs : qs[field] \in BOOLEAN
  BY DEF AppletsInv, QsInv, Switches
<1>3. AppletsAgree
  BY <1>1 DEF AppletsInv, QsInv, ExplorerInv, NotesInv, AppletsAgree
<1>4. AppletsTypeOK
  BY <1>1, <1>2 DEF AppletsInv, ExplorerInv, NotesInv, AppletsTypeOK
<1>. QED BY <1>3, <1>4

(* The four of them, whichever is used: radios that are off show no        *)
(* connection, one tab is active, each note keeps its place and its look,  *)
(* and the wizard never reaches its last screen.                           *)
THEOREM AppletsSound == AppletsSpec => []AppletsAgree
<1>1. AppletsInv /\ [QsNext \/ ExplorerNext \/ NotesNext \/ WizardNext]_applets_vars
        => AppletsInv'
  BY AppletsStep DEF AppletsNext
<1>. QED BY <1>1, AppletsStart, AppletsInvImplies, PTL DEF AppletsSpec
=============================================================================
