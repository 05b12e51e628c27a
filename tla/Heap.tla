-------------------------------- MODULE Heap --------------------------------
(***************************************************************************)
(* The kernel heap of kernel/mm/heap.c: a linked list of blocks in the     *)
(* arena HEAP_START .. HEAP_END - 1, each behind a header of HEADER bytes. *)
(*                                                                         *)
(* The three fields of a header are functions of the header's address; the *)
(* headers on the list are the set blocks (fields of an address that is    *)
(* not on the list are not kept).  The two loops of the code, the search   *)
(* of kmalloc and the merge of kfree, take one step per iteration, with    *)
(* cur as the loop's pointer.  Addresses and sizes are bytes; arithmetic   *)
(* is modulo WRAP, as uint32_t is.                                         *)
(***************************************************************************)
EXTENDS Integers, FiniteSets

CONSTANTS
  HEAP_START,  \* 0x200000
  HEAP_END,    \* 0x800000
  HEADER,      \* sizeof(block_header_t)                               (12)
  WRAP,        \* 2^32
  NULL,
  Requests,    \* sizes callers pass to kmalloc
  Arrays,      \* <<nmemb, size>> callers pass to kcalloc
  MayExtend    \* may a caller ask for more than any free block holds,
               \* so that kmalloc takes its "Extend heap" path?

Addrs == {a \in HEAP_START .. HEAP_END - 1 : a % 4 = 0}

ASSUME HeapAssumption ==
  /\ HEAP_START \in Nat /\ HEAP_END \in Nat /\ HEADER \in Nat /\ WRAP \in Nat
  /\ HEAP_START % 4 = 0 /\ HEAP_END % 4 = 0 /\ HEADER % 4 = 0 /\ WRAP % 4 = 0
  /\ HEADER > 0
  /\ HEAP_START + HEADER < HEAP_END /\ HEAP_END + HEADER < WRAP
  /\ NULL \notin Int
  /\ Requests \subseteq Nat
  /\ Arrays \subseteq Nat \X Nat
  /\ MayExtend \in BOOLEAN

VARIABLES
  blocks,        \* the headers linked from heap_start_block
  size,          \* [Addrs -> Nat]
  free,          \* [Addrs -> BOOLEAN]
  next,          \* [Addrs -> Addrs \cup {NULL}]
  heap_current,
  asked,         \* [Addrs -> Nat]: bytes the caller that owns this block
                 \* asked for; 0 when nobody owns it
  pc,            \* "idle", "find" in kmalloc's search, "merge" in kfree's loop,
                 \* "clobbered" once blocks overlap
  cur,           \* the pointer of the loop
  want,          \* the aligned size of the kmalloc in progress
  req            \* the bytes its caller asked for

list  == <<blocks, size, free, next>>
call  == <<pc, cur, want, req>>
vars  == <<blocks, size, free, next, heap_current, asked, pc, cur, want, req>>

-----------------------------------------------------------------------------
(* Operators named Bug_* are mutants of the definition that follows them.  *)

Align(n) == LET m == (n + 3) % WRAP IN m - (m % 4)

End(b)  == b + HEADER + size[b]         \* the byte after block b
Live    == {b \in Addrs : asked[b] > 0}

\* Blocks in use are taken too, if they are large enough.
Bug_FitsInUse(b) == size[b] >= want

Fits(b) == free[b] /\ size[b] >= want

(* After heap_init: one free block.                                        *)
Init ==
  /\ blocks = {HEAP_START}
  /\ size = [a \in Addrs |-> IF a = HEAP_START
                             THEN HEAP_END - HEAP_START - HEADER ELSE 0]
  /\ free = [a \in Addrs |-> a = HEAP_START]
  /\ next = [a \in Addrs |-> NULL]
  /\ heap_current = HEAP_START + HEADER
  /\ asked = [a \in Addrs |-> 0]
  /\ pc = "idle" /\ cur = NULL /\ want = 0 /\ req = 0

-----------------------------------------------------------------------------
(* The test of kmalloc's "Extend heap" path.                               *)
NoRoom(n) == (heap_current + HEADER + n) % WRAP > HEAP_END

(* A call kmalloc(n) on behalf of a caller that wants bytes bytes.  n = 0  *)
(* returns NULL at once.                                                   *)
Kmalloc(bytes, n) ==
  /\ pc = "idle" /\ n # 0
  /\ \/ MayExtend
     \/ \E b \in blocks : free[b] /\ size[b] >= Align(n)
     \/ NoRoom(Align(n))
  /\ pc' = "find" /\ cur' = HEAP_START
  /\ want' = Align(n) /\ req' = bytes
  /\ UNCHANGED <<list, heap_current, asked>>

(* kcalloc multiplies in 32 bits.                                          *)
Kcalloc(nmemb, n) == Kmalloc(nmemb * n, (nmemb * n) % WRAP)

(* find_free_block's loop.                                                 *)
FindNext ==
  /\ pc = "find" /\ cur # NULL /\ ~Fits(cur)
  /\ cur' = next[cur]
  /\ UNCHANGED <<list, heap_current, asked, pc, want, req>>

Return == pc' = "idle" /\ cur' = NULL /\ want' = 0 /\ req' = 0

(* The split leaves the remainder's header inside the block it returns.    *)
Bug_SplitOffByHeader(b, n) ==
  LET new == b + n IN
  /\ blocks' = blocks \cup {new}
  /\ size' = [size EXCEPT ![b] = n, ![new] = size[b] - n - HEADER]
  /\ free' = [free EXCEPT ![b] = FALSE, ![new] = TRUE]
  /\ next' = [next EXCEPT ![b] = new, ![new] = next[b]]

(* split_block: block b keeps n bytes, the rest becomes a free block.      *)
Split(b, n) ==
  LET new == b + HEADER + n IN
  /\ blocks' = blocks \cup {new}
  /\ size' = [size EXCEPT ![b] = n, ![new] = size[b] - n - HEADER]
  /\ free' = [free EXCEPT ![b] = FALSE, ![new] = TRUE]
  /\ next' = [next EXCEPT ![b] = new, ![new] = next[b]]

(* The first block that fits is taken, and split when the rest can hold a  *)
(* header and four bytes.                                                  *)
TakeBlock ==
  /\ pc = "find" /\ cur # NULL /\ Fits(cur)
  /\ IF size[cur] >= want + HEADER + 4
     THEN Split(cur, want)
     ELSE /\ free' = [free EXCEPT ![cur] = FALSE]
          /\ UNCHANGED <<blocks, size, next>>
  /\ asked' = [asked EXCEPT ![cur] = req]
  /\ Return
  /\ UNCHANGED heap_current

(* Does a header written at address a, with n bytes behind it, meet a      *)
(* block of the list?                                                      *)
Overlaps(a, n) == \E b \in blocks : a < End(b) /\ b < a + HEADER + n

(* No block fits: a new one is placed at heap_current and linked behind    *)
(* the last block, or kmalloc returns NULL.  If the new block overlaps     *)
(* another, headers and payloads alias one another from here on and the    *)
(* model stops.                                                            *)
ExtendHeap ==
  /\ pc = "find" /\ cur = NULL /\ ~NoRoom(want)
  /\ blocks' = blocks \cup {heap_current}
  /\ size' = [size EXCEPT ![heap_current] = want]
  /\ free' = [free EXCEPT ![heap_current] = FALSE]
  /\ \E last \in blocks :
       /\ next[last] = NULL
       /\ next' = [next EXCEPT ![last] = heap_current, ![heap_current] = NULL]
  /\ heap_current' = (heap_current + HEADER + want) % WRAP
  /\ asked' = [asked EXCEPT ![heap_current] = req]
  /\ pc' = IF Overlaps(heap_current, want) THEN "clobbered" ELSE "idle"
  /\ cur' = NULL /\ want' = 0 /\ req' = 0

NoMemory ==
  /\ pc = "find" /\ cur = NULL /\ NoRoom(want)
  /\ Return
  /\ UNCHANGED <<list, heap_current, asked>>

-----------------------------------------------------------------------------
(* kfree(ptr) of a block the caller owns; kfree(NULL) changes nothing.     *)
Kfree(b) ==
  /\ pc = "idle"
  /\ free' = [free EXCEPT ![b] = TRUE]
  /\ asked' = [asked EXCEPT ![b] = 0]
  /\ pc' = "merge" /\ cur' = HEAP_START
  /\ UNCHANGED <<blocks, size, next, heap_current, want, req>>

BothFree == next[cur] # NULL /\ free[cur] /\ free[next[cur]]

(* The merge moves on after absorbing one neighbour.                       *)
Bug_MergeOnce ==
  /\ pc = "merge" /\ BothFree
  /\ LET n == next[cur] IN
       /\ blocks' = blocks \ {n}
       /\ size' = [size EXCEPT ![cur] = @ + HEADER + size[n], ![n] = 0]
       /\ next' = [next EXCEPT ![cur] = next[n], ![n] = NULL]
       /\ free' = [free EXCEPT ![n] = FALSE]
       /\ cur' = IF next[n] = NULL THEN cur ELSE next[n]
  /\ UNCHANGED <<heap_current, asked, pc, want, req>>

(* The merge absorbs the next block and looks at the one after it.         *)
Merge ==
  /\ pc = "merge" /\ BothFree
  /\ LET n == next[cur] IN
       /\ blocks' = blocks \ {n}
       /\ size' = [size EXCEPT ![cur] = @ + HEADER + size[n], ![n] = 0]
       /\ next' = [next EXCEPT ![cur] = next[n], ![n] = NULL]
       /\ free' = [free EXCEPT ![n] = FALSE]
  /\ UNCHANGED <<heap_current, asked, call>>

(* The loop does not advance past a block in use.                          *)
Bug_MergeStuck ==
  /\ pc = "merge" /\ ~BothFree /\ next[cur] # NULL
  /\ cur' = IF free[cur] THEN next[cur] ELSE cur
  /\ UNCHANGED <<list, heap_current, asked, pc, want, req>>

MergeNext ==
  /\ pc = "merge" /\ ~BothFree /\ next[cur] # NULL
  /\ cur' = next[cur]
  /\ UNCHANGED <<list, heap_current, asked, pc, want, req>>

MergeDone ==
  /\ pc = "merge" /\ next[cur] = NULL
  /\ Return
  /\ UNCHANGED <<list, heap_current, asked>>

-----------------------------------------------------------------------------
Step == FindNext \/ TakeBlock \/ ExtendHeap \/ NoMemory
          \/ Merge \/ MergeNext \/ MergeDone

Next ==
  \/ \E n \in Requests : Kmalloc(n, n)
  \/ \E a \in Arrays : Kcalloc(a[1], a[2])
  \/ \E b \in Live : Kfree(b)
  \/ FindNext \/ TakeBlock \/ ExtendHeap \/ NoMemory
  \/ Merge \/ MergeNext \/ MergeDone

Spec == Init /\ [][Next]_vars

(* The loops of a call run on; nothing obliges callers to call.            *)
FairSpec == Spec /\ WF_vars(Step)

-----------------------------------------------------------------------------
(* Every variable stays in its range.                                      *)
TypeOK ==
  /\ blocks \subseteq Addrs /\ HEAP_START \in blocks
  /\ size \in [Addrs -> Nat]
  /\ free \in [Addrs -> BOOLEAN]
  /\ next \in [Addrs -> Addrs \cup {NULL}]
  /\ heap_current \in Nat
  /\ asked \in [Addrs -> Nat]
  /\ pc \in {"idle", "find", "merge", "clobbered"}
  /\ cur \in Addrs \cup {NULL}
  /\ want \in Nat /\ req \in Nat

(* The blocks tile the arena in address order: each ends where the next    *)
(* begins and the last one ends at HEAP_END, in the middle of a merge too. *)
Tiling ==
  \A b \in blocks :
    /\ End(b) = IF next[b] = NULL THEN HEAP_END ELSE next[b]
    /\ next[b] # NULL => next[b] \in blocks
    /\ \A c \in blocks : b < c => End(b) <= c

(* Memory handed out is never handed out twice: what a caller asked for    *)
(* lies inside the arena and meets no other block's header or payload.     *)
LiveDisjoint ==
  \A b \in Live :
    /\ b + HEADER + asked[b] <= HEAP_END
    /\ \A c \in blocks \ {b} : c >= b + HEADER + asked[b] \/ c + HEADER <= b
    /\ \A c \in Live \ {b} : c + HEADER + asked[c] <= b \/ b + HEADER + asked[b] <= c

(* The extension is the only operation that breaks the heap: up to the     *)
(* first one, whatever callers ask for, the blocks tile the arena and no   *)
(* byte has two owners.                                                    *)
SoundUntilExtended == pc # "clobbered" => Tiling /\ LiveDisjoint

(* A pointer that kmalloc or kcalloc returned holds the bytes asked for.   *)
LiveFits == \A b \in Live : b \in blocks /\ ~free[b] /\ asked[b] <= size[b]

(* Between calls no two neighbours are free: kfree's pass over the list    *)
(* merges whatever can be merged.                                          *)
Coalesced ==
  pc = "idle" => \A b \in blocks : next[b] # NULL => ~(free[b] /\ free[next[b]])

(* The refinement: a live block is a piece of as many bytes as were asked  *)
(* for, right behind its header.  The promise stands until blocks overlap. *)
OwnedPieces == {[at |-> b + HEADER, bytes |-> asked[b]] : b \in Live}

Arena == INSTANCE Allocator
           WITH First <- HEAP_START, Past <- HEAP_END,
                owned <- OwnedPieces, intact <- pc # "clobbered"

(* Searches, splits and merges implement the allocator: a caller that gets *)
(* memory gets bytes that were nobody's, in the one step that takes the    *)
(* block; kfree gives back its caller's piece and no other, although it    *)
(* moves and absorbs headers afterwards.                                   *)
RefinesAllocator == Arena!AllocSpec

(* kmalloc and kfree return: no chain of splits and merges makes the list  *)
(* cyclic.  (After an extension has made blocks overlap anything may happen.)*)
CallsReturn == pc # "idle" ~> pc \in {"idle", "clobbered"}
=============================================================================
