----------------------------- MODULE EventRing -----------------------------
(***************************************************************************)
(* The event ring of the keyboard (keyboard.c:32-53) and of the mouse      *)
(* (mouse.c:17-38), the same code twice.  The interrupt handler pushes;    *)
(* mainline code pops.  A push runs inside the handler and is one step.  A *)
(* pop can be interrupted between its test, its copy and its store to      *)
(* tail; the indices are plain ints, so a build may also store tail before *)
(* it copies, and both orders are allowed here.                            *)
(***************************************************************************)
EXTENDS Naturals, Sequences

CONSTANTS
  SIZE,    \* KB_BUFFER_SIZE (256), MOUSE_BUFFER_SIZE (64)
  Events,  \* contents of a slot
  NO_EVENT     \* a slot never written; no event

ASSUME RingAssumption ==
  /\ SIZE \in Nat \ {0, 1}
  /\ NO_EVENT \notin Events

VARIABLES
  buffer,  \* [0 .. SIZE-1 -> Events \cup {NO_EVENT}]
  head,    \* next slot to write, stored by the handler only
  tail,    \* next slot to read, stored by the mainline only
  pop,     \* progress of the pop: "idle", "tested", "copied", "freed", "done"
  taken,   \* tail as the pop in progress read it
  out,     \* *event, the caller's memory
  got      \* what the last finished pop returned

ring  == <<buffer, head, tail>>
rvars == <<buffer, head, tail, pop, taken, out, got>>

Index   == 0 .. SIZE - 1

(* (i + 1) % SIZE, for an index i                                          *)
Succ(i) == IF i = SIZE - 1 THEN 0 ELSE i + 1

RingInit ==
  /\ buffer = [i \in Index |-> NO_EVENT]
  /\ head = 0 /\ tail = 0
  /\ pop = "idle" /\ taken = 0
  /\ out = NO_EVENT /\ got = NO_EVENT

-----------------------------------------------------------------------------
Full  == Succ(head) = tail
Empty == head = tail

(* Operators named Bug_* are mutants of the definition that follows them.  *)

(* The full test compares head itself, so the last slot is used as well.   *)
Bug_PushNoSpare(e) ==
  /\ buffer' = [buffer EXCEPT ![head] = e]
  /\ head' = Succ(head)
  /\ UNCHANGED <<tail, pop, taken, out, got>>

(* kb_push_event, mouse_push_event.  A full ring drops the event.          *)
Push(e) ==
  /\ IF Full
     THEN UNCHANGED <<buffer, head>>
     ELSE /\ buffer' = [buffer EXCEPT ![head] = e]
          /\ head' = Succ(head)
  /\ UNCHANGED <<tail, pop, taken, out, got>>

(* kb_pop_event, mouse_pop_event.  An empty ring returns 0 at once.        *)
PopTest ==
  /\ pop = "idle" /\ ~Empty
  /\ pop' = "tested"
  /\ taken' = tail
  /\ UNCHANGED <<ring, out, got>>

PopCopy ==
  /\ pop \in {"tested", "freed"}
  /\ out' = buffer[taken]
  /\ pop' = IF pop = "tested" THEN "copied" ELSE "done"
  /\ UNCHANGED <<ring, taken, got>>

PopFree ==
  /\ pop \in {"tested", "copied"}
  /\ tail' = Succ(taken)
  /\ pop' = IF pop = "tested" THEN "freed" ELSE "done"
  /\ UNCHANGED <<buffer, head, taken, out, got>>

PopReturn ==
  /\ pop = "done"
  /\ got' = out
  /\ pop' = "idle"
  /\ UNCHANGED <<ring, taken, out>>

Pop == PopTest \/ PopCopy \/ PopFree \/ PopReturn

RingNext == (\E e \in Events : Push(e)) \/ PopTest \/ PopCopy \/ PopFree \/ PopReturn

RingSpec == RingInit /\ [][RingNext]_rvars

-----------------------------------------------------------------------------
(* Every variable stays in its range, and tail is the slot the pop in      *)
(* progress read, or the one after it.                                     *)
RingTypeOK ==
  /\ buffer \in [Index -> Events \cup {NO_EVENT}]
  /\ head \in Index /\ tail \in Index /\ taken \in Index
  /\ pop \in {"idle", "tested", "copied", "freed", "done"}
  /\ out \in Events \cup {NO_EVENT}
  /\ got \in Events \cup {NO_EVENT}
  /\ pop \in {"tested", "copied"} => tail = taken
  /\ pop = "freed" => tail = Succ(taken)

(* The slots between tail and head, in circular order.                     *)
UsedSlots == {i \in Index : IF tail <= head THEN tail <= i /\ i < head
                                       ELSE tail <= i \/ i < head}

(* The slot a pop in progress still has to read is not the one the next    *)
(* push writes, even if the pop has already given the slot back: the spare *)
(* slot stands between them.                                               *)
SlotSafe ==
  /\ pop \in {"tested", "copied"} => taken \in UsedSlots
  /\ pop = "freed" /\ taken = head => Full

(* No slot in use is a slot never written, and the copy a pop made is      *)
(* still the content of its slot: a pop returns a real event.              *)
SlotsWritten ==
  /\ \A i \in UsedSlots : buffer[i] \in Events
  /\ pop = "freed" => buffer[taken] \in Events
  /\ pop = "copied" => out = buffer[taken]
  /\ pop \in {"copied", "done"} => out \in Events

-----------------------------------------------------------------------------
(* The refinement: the queue is what lies between tail and head, and an    *)
(* event is in flight from the store to tail until the pop returns.        *)
Count     == IF tail <= head THEN head - tail ELSE head + SIZE - tail
Slot(n)   == IF tail + n < SIZE THEN tail + n ELSE tail + n - SIZE
Contents  == [n \in 1 .. Count |-> buffer[Slot(n - 1)]]
InFlight  == CASE pop = "freed" -> buffer[taken]
               [] pop = "done"  -> out
               [] OTHER         -> NO_EVENT

Queue == INSTANCE EventQueue
           WITH Capacity <- SIZE - 1, queue <- Contents, inflight <- InFlight

(* The ring is a FIFO of SIZE - 1 events: an accepted event is returned    *)
(* once, unchanged and in order, and is never overwritten by a push that   *)
(* interrupts the pop, whichever order the build gives to a pop's stores.  *)
RefinesQueue == Queue!QueueSpec
=============================================================================
