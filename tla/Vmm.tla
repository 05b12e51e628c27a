-------------------------------- MODULE Vmm --------------------------------
(***************************************************************************)
(* The page tables of kernel/mm/vmm.c and the processor that uses them.    *)
(* A virtual page is a number; page v belongs to table v \div TABLE.  The  *)
(* write and user bits are left out: no property is about them.  The       *)
(* processor is external: it may keep in its TLB any translation that it   *)
(* has walked, until invlpg or a load of cr3 removes it.                   *)
(***************************************************************************)
EXTENDS Integers

CONSTANTS
  TABLE,         \* pages per table                                   (1024)
  Tables,        \* directory entries used                            (1024)
  Frames,        \* physical frames callers map
  IDENTITY_PAGES,  \* pages vmm_init maps to themselves               (1024)
  NONE,          \* not present
  MayRemap       \* may vmm_map_page be called for a page that is mapped?

VirtPages == 0 .. Tables * TABLE - 1

ASSUME VmmAssumption ==
  /\ TABLE \in Nat \ {0} /\ Tables \in Nat \ {0}
  /\ IDENTITY_PAGES \in Nat /\ IDENTITY_PAGES <= Tables * TABLE
  /\ 0 .. IDENTITY_PAGES - 1 \subseteq Frames
  /\ NONE \notin Frames
  /\ MayRemap \in BOOLEAN

VARIABLES
  pde,   \* the present bits of page_directory
  pte,   \* [VirtPages -> Frames \cup {NONE}]: page_tables
  own,   \* is page_directory the directory that cr3 points to?
  tlb    \* [VirtPages -> Frames \cup {NONE}]: what the processor remembers

vmm_vars == <<pde, pte, own, tlb>>

Dir(v)  == v \div TABLE
EmptyTlb == [v \in VirtPages |-> NONE]

(* vmm_init: the first pages map to themselves, then cr3 is loaded.        *)
VmmInit ==
  /\ pde = [d \in 0 .. Tables - 1 |-> \E v \in 0 .. IDENTITY_PAGES - 1 : Dir(v) = d]
  /\ pte = [v \in VirtPages |-> IF v < IDENTITY_PAGES THEN v ELSE NONE]
  /\ own = TRUE
  /\ tlb = EmptyTlb

-----------------------------------------------------------------------------
(* vmm_get_physical; its 0 for "not mapped" is NONE here.                  *)
Physical(v) == IF pde[Dir(v)] THEN pte[v] ELSE NONE

(* Operators named Bug_* are mutants of the definition that follows them.  *)

(* vmm_map_page enters the table when it is missing and writes the entry.  *)
(* It does not touch the TLB.                                              *)
MapPage(v, f) ==
  /\ MayRemap \/ Physical(v) = NONE
  /\ pde' = [pde EXCEPT ![Dir(v)] = TRUE]
  /\ pte' = [pte EXCEPT ![v] = f]
  /\ UNCHANGED <<own, tlb>>

(* The entry is cleared and the TLB is left alone.                         *)
Bug_UnmapNoFlush(v) ==
  /\ pte' = [pte EXCEPT ![v] = NONE]
  /\ UNCHANGED <<pde, own, tlb>>

(* vmm_unmap_page clears the entry and executes invlpg.                    *)
UnmapPage(v) ==
  /\ pte' = [pte EXCEPT ![v] = NONE]
  /\ tlb' = [tlb EXCEPT ![v] = NONE]
  /\ UNCHANGED <<pde, own>>

(* vmm_switch_directory to this directory or to another: loading cr3       *)
(* empties the TLB.  What another directory maps is not modelled, and the  *)
(* TLB is kept empty while one is in use.                                  *)
SwitchDirectory(mine) ==
  /\ own' = mine
  /\ tlb' = EmptyTlb
  /\ UNCHANGED <<pde, pte>>

(* The processor translates v by a walk and remembers the answer; pages    *)
(* that are not present are not remembered.                                *)
Walk(v) ==
  /\ own /\ tlb[v] = NONE /\ Physical(v) # NONE
  /\ tlb' = [tlb EXCEPT ![v] = Physical(v)]
  /\ UNCHANGED <<pde, pte, own>>

(* ... and may forget it at any time.                                      *)
Evict(v) ==
  /\ tlb[v] # NONE
  /\ tlb' = [tlb EXCEPT ![v] = NONE]
  /\ UNCHANGED <<pde, pte, own>>

VmmNext ==
  \/ \E v \in VirtPages, f \in Frames : MapPage(v, f)
  \/ \E v \in VirtPages : UnmapPage(v)
  \/ \E mine \in BOOLEAN : SwitchDirectory(mine)
  \/ \E v \in VirtPages : Walk(v)
  \/ \E v \in VirtPages : Evict(v)

VmmSpec == VmmInit /\ [][VmmNext]_vmm_vars

-----------------------------------------------------------------------------
(* Every variable stays in its range.                                      *)
VmmTypeOK ==
  /\ pde \in [0 .. Tables - 1 -> BOOLEAN]
  /\ pte \in [VirtPages -> Frames \cup {NONE}]
  /\ own \in BOOLEAN
  /\ tlb \in [VirtPages -> Frames \cup {NONE}]

(* The processor reaches every entry that was written: no entry is present *)
(* in a table that the directory does not have, so vmm_get_physical and    *)
(* the processor give the answer the last vmm_map_page asked for.          *)
EntriesReachable == \A v \in VirtPages : pte[v] # NONE => pde[Dir(v)]

(* An access goes where the tables say it goes (vmm.c:59, "Map a virtual   *)
(* page to a physical frame").                                             *)
TlbCoherent == \A v \in VirtPages : tlb[v] # NONE => tlb[v] = Physical(v)
=============================================================================
