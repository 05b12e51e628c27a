------------------------------- MODULE Memory -------------------------------
(***************************************************************************)
(* Physical pages (Pmm) and page tables (Vmm) together, as kernel code has *)
(* to use them: a frame comes from pmm_alloc_page, vmm_map_page puts it at *)
(* a virtual page, vmm_unmap_page takes it away, and only then may it go   *)
(* back with pmm_free_page.  Neither file calls the other, so this order   *)
(* is the callers' part; what it is worth depends on both files and on the *)
(* processor.                                                              *)
(***************************************************************************)
EXTENDS Pmm, Vmm

ASSUME MemoryAssumption == Pages \subseteq Frames

mem_vars == <<pmm_vars, vmm_vars>>

(* The virtual pages that vmm_init has not mapped: those callers may use.  *)
Given == {v \in VirtPages : v >= IDENTITY_PAGES}

Used == {pte[v] : v \in Given} \ {NONE}     \* frames that are mapped there

MemInit == PmmInit /\ VmmInit

GetFrame     == Alloc /\ UNCHANGED vmm_vars
PutFrame(p)  == p \notin Used /\ FreePage(p) /\ UNCHANGED vmm_vars
Place(v, f)  == Physical(v) = NONE /\ f \notin Used /\ MapPage(v, f) /\ UNCHANGED pmm_vars
Remove(v)    == UnmapPage(v) /\ UNCHANGED pmm_vars
Switch(mine) == SwitchDirectory(mine) /\ UNCHANGED pmm_vars
Touch(v)     == Walk(v) /\ UNCHANGED pmm_vars
Forget(v)    == Evict(v) /\ UNCHANGED pmm_vars

MemNext ==
  \/ GetFrame
  \/ \E p \in held : PutFrame(p)
  \/ \E v \in Given, f \in held : Place(v, f)
  \/ \E v \in Given : Remove(v)
  \/ \E mine \in BOOLEAN : Switch(mine)
  \/ \E v \in VirtPages : Touch(v)
  \/ \E v \in VirtPages : Forget(v)

MemSpec == MemInit /\ [][MemNext]_mem_vars

-----------------------------------------------------------------------------
(* The frames an access to v may go to: by the tables, or by what the      *)
(* processor remembers of them.                                            *)
Reached(v) == {pte[v], tlb[v]} \ {NONE}

(* No access to a page of a caller's goes to a frame that has been given   *)
(* back, and so perhaps out again: not even through the TLB, whatever the  *)
(* order of unmapping, freeing and directory switches.                     *)
ReachOwned == \A v \in Given : Reached(v) \subseteq held

(* Two virtual pages never reach the same frame.                           *)
ReachApart == \A v, w \in Given : v # w => Reached(v) \cap Reached(w) = {}

(* Both: every page of a caller's is its own.                              *)
Isolated == ReachOwned /\ ReachApart

(* Where an access to v goes: what the processor remembers comes first.    *)
Translated(v) == IF tlb[v] # NONE THEN tlb[v] ELSE Physical(v)

(* The refinement: callers own what they hold, and a page leads where the  *)
(* processor goes with it, not just where the tables point.                *)
Space == INSTANCE AddressSpace
           WITH Mappable <- Given, NOWHERE <- NONE,
                mine <- held, leads <- [v \in Given |-> Translated(v)]

(* Bitmap, directory, tables and TLB implement an address space: a page    *)
(* that is unmapped leads nowhere any more, before its frame can be given  *)
(* back; the first page entered into a table moves no other of it; and     *)
(* walks, evictions and directory switches move none at all.               *)
RefinesAddressSpace == Space!SpaceSpec
=============================================================================
