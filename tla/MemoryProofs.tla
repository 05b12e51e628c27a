---------------------------- MODULE MemoryProofs ----------------------------
(* Theorems about Pmm, for every bitmap and memory size, about Vmm, for    *)
(* every number and size of tables, and about Memory, which composes them. *)
EXTENDS Memory, FiniteSetTheorems, TLAPS

(* The page allocator.                                                     *)
PmmInv == PmmTypeOK /\ Accounted

LEMMA PmmStart == PmmInit => PmmInv
BY PmmAssumption DEF PmmInit, PmmInv, PmmTypeOK, Accounted, Pages, LowPages

LEMMA PmmStep == PmmInv /\ [PmmNext]_pmm_vars => PmmInv'
<1> SUFFICES ASSUME PmmInv, [PmmNext]_pmm_vars PROVE PmmInv'
  OBVIOUS
<1>1. CASE Alloc
  <2>1. free_pages' \in 0 .. WRAP - 1
    BY <1>1, PmmAssumption DEF Alloc, PmmInv, PmmTypeOK
  <2>. QED BY <1>1, <2>1 DEF Alloc, PmmInv, PmmTypeOK, Accounted
<1>2. ASSUME NEW p \in held, FreePage(p) PROVE PmmInv'
  <2>1. free_pages' \in 0 .. WRAP - 1
    BY <1>2, PmmAssumption DEF FreePage, PmmInv, PmmTypeOK
  <2>. QED BY <1>2, <2>1 DEF FreePage, PmmInv, PmmTypeOK, Accounted
<1>3. CASE UNCHANGED pmm_vars
  BY <1>3 DEF pmm_vars, PmmInv, PmmTypeOK, Accounted
<1>. QED BY <1>1, <1>2, <1>3 DEF PmmNext

(* No page is handed out twice, and none above the first megabyte is lost. *)
THEOREM PagesAccounted == PmmSpec => []Accounted
<1>1. PmmInv => Accounted
  BY DEF PmmInv
<1>. QED BY PmmStart, PmmStep, <1>1, PTL DEF PmmSpec

(* The counter.  What it differs from the number of free bits by, less the *)
(* constant, is nothing or one turn of the uint32_t.                       *)
LEMMA ModOnce ==
  ASSUME NEW m \in Nat \ {0}, NEW n \in 0 .. 2 * m - 1
  PROVE  n % m = IF n < m THEN n ELSE n - m
<1>1. CASE n < m
  BY <1>1
<1>2. CASE n >= m
  BY <1>2
<1>. QED BY <1>1, <1>2

LEMMA FreeIsFinite ==
  ASSUME PmmInv
  PROVE  IsFiniteSet(free) /\ Cardinality(free) \in 0 .. MAX_PAGES
<1>1. IsFiniteSet(Pages) /\ Cardinality(Pages) = MAX_PAGES
  BY FS_Interval, PmmAssumption DEF Pages
<1>2. free \subseteq Pages
  BY DEF PmmInv, PmmTypeOK
<1>3. IsFiniteSet(free) /\ Cardinality(free) <= Cardinality(Pages)
  BY <1>1, <1>2, FS_Subset
<1>. QED BY <1>1, <1>3, FS_CardinalityType, PmmAssumption

Balance ==
  LET counted == free_pages + MAX_PAGES
      there   == Cardinality(free) + TotalPages
  IN  counted = there \/ counted = there + WRAP \/ there = counted + WRAP

LEMMA BalanceIsOffset ==
  ASSUME PmmInv
  PROVE  Balance <=> CountOffset
<1> DEFINE counted == free_pages + MAX_PAGES
           there   == Cardinality(free) + TotalPages
<1>1. counted \in 0 .. 2 * WRAP - 1 /\ there \in 0 .. 2 * WRAP - 1 /\ WRAP \in Nat \ {0}
  BY FreeIsFinite, PmmAssumption DEF PmmInv, PmmTypeOK
<1>2. CountOffset <=> counted % WRAP = there % WRAP
  BY DEF CountOffset
<1>3. Balance <=> counted = there \/ counted = there + WRAP \/ there = counted + WRAP
  BY DEF Balance
<1> HIDE DEF counted, there
<1>4. counted % WRAP = IF counted < WRAP THEN counted ELSE counted - WRAP
  BY <1>1, ModOnce
<1>5. there % WRAP = IF there < WRAP THEN there ELSE there - WRAP
  BY <1>1, ModOnce
<1>. QED BY <1>1, <1>2, <1>3, <1>4, <1>5

LEMMA BalanceStep == PmmInv /\ Balance /\ [PmmNext]_pmm_vars => Balance'
<1> SUFFICES ASSUME PmmInv, Balance, [PmmNext]_pmm_vars PROVE Balance'
  OBVIOUS
<1>0. /\ free_pages \in 0 .. WRAP - 1 /\ WRAP \in Nat \ {0}
      /\ IsFiniteSet(free) /\ Cardinality(free) \in 0 .. MAX_PAGES
      /\ PmmInv'
  BY FreeIsFinite, PmmStep, PmmAssumption DEF PmmInv, PmmTypeOK
<1>1. CASE Alloc
  <2>1. PICK p \in free : free' = free \ {p}
    BY <1>1 DEF Alloc
  <2>2. Cardinality(free') = Cardinality(free) - 1
    BY <1>0, <2>1, FS_RemoveElement
  <2>3. free_pages' = IF free_pages = 0 THEN WRAP - 1 ELSE free_pages - 1
    <3> DEFINE n == free_pages + WRAP - 1
    <3>1. n \in 0 .. 2 * WRAP - 1 /\ WRAP \in Nat \ {0}
      BY <1>0
    <3>2. free_pages' = n % WRAP
      BY <1>1 DEF Alloc
    <3>3. n % WRAP = IF n < WRAP THEN n ELSE n - WRAP
      <4> HIDE DEF n
      <4>. QED BY ONLY <3>1, ModOnce
    <3>. QED BY <1>0, <3>2, <3>3
  <2>4. Cardinality(free') \in 0 .. MAX_PAGES
    <3>1. IsFiniteSet(free')
      BY <1>0, <2>1, FS_RemoveElement
    <3>2. Cardinality(free') \in Nat
      BY <3>1, FS_CardinalityType
    <3>. QED BY <1>0, <2>2, <3>2, PmmAssumption
  <2>. QED BY <1>0, <2>2, <2>3, <2>4, PmmAssumption DEF Balance
<1>2. ASSUME NEW p \in held, FreePage(p) PROVE Balance'
  <2>1. p \notin free /\ free' = free \cup {p}
    BY <1>2 DEF FreePage, PmmInv, Accounted
  <2>2. Cardinality(free') = Cardinality(free) + 1
    BY <1>0, <2>1, FS_AddElement
  <2>3. free_pages' = IF free_pages = WRAP - 1 THEN 0 ELSE free_pages + 1
    <3> DEFINE n == free_pages + 1
    <3>1. n \in 0 .. 2 * WRAP - 1 /\ WRAP \in Nat \ {0}
      BY <1>0
    <3>2. free_pages' = n % WRAP
      BY <1>2 DEF FreePage
    <3>3. n % WRAP = IF n < WRAP THEN n ELSE n - WRAP
      <4> HIDE DEF n
      <4>. QED BY ONLY <3>1, ModOnce
    <3>. QED BY <1>0, <3>2, <3>3
  <2>. QED BY <1>0, <2>2, <2>3, PmmAssumption DEF Balance
<1>3. CASE UNCHANGED pmm_vars
  BY <1>3 DEF pmm_vars, Balance
<1>. QED BY <1>1, <1>2, <1>3 DEF PmmNext

(* For every bitmap and memory size, and however often the counter wraps:  *)
(* it is the number of free bits less the pages the machine does not have. *)
THEOREM CounterFollows == PmmSpec => []CountOffset
<1>1. PmmInit => Balance
  <2> SUFFICES ASSUME PmmInit PROVE Balance
    OBVIOUS
  <2>1. free = Pages /\ free_pages = TotalPages
    BY PmmAssumption DEF PmmInit, Pages, LowPages
  <2>2. Cardinality(free) = MAX_PAGES
    BY <2>1, FS_Interval, PmmAssumption DEF Pages
  <2>. QED BY <2>1, <2>2, PmmAssumption DEF Balance
<1>2. PmmInv /\ Balance => CountOffset
  BY BalanceIsOffset
<1>. QED BY PmmStart, PmmStep, BalanceStep, <1>1, <1>2, PTL DEF PmmSpec

(* Both: bitmap, owners and counter agree.                                 *)
THEOREM PagesStaySound == PmmSpec => []PagesSound
<1>1. Accounted /\ CountOffset => PagesSound
  BY DEF PagesSound
<1>. QED BY PagesAccounted, CounterFollows, <1>1, PTL

-----------------------------------------------------------------------------
(* The page tables.                                                        *)
(* Every page belongs to a table of the directory.                         *)
LEMMA DirInRange ==
  ASSUME NEW v \in VirtPages
  PROVE  Dir(v) \in 0 .. Tables - 1
<1>1. v \in Nat /\ v < Tables * TABLE /\ Tables * TABLE \in Nat
  BY VmmAssumption DEF VirtPages
<1>2. PICK q \in Nat : q = v \div TABLE
  BY <1>1, VmmAssumption
<1>3. q * TABLE <= v
  BY <1>1, <1>2, VmmAssumption
<1>4. q < Tables
  <2> SUFFICES ASSUME Tables <= q PROVE FALSE
    BY VmmAssumption
  <2>1. Tables * TABLE <= q * TABLE
    BY VmmAssumption
  <2>. QED BY <1>1, <1>3, <2>1, VmmAssumption
<1>. QED BY <1>2, <1>4, VmmAssumption DEF Dir

VmmInv == VmmTypeOK /\ EntriesReachable /\ (~MayRemap => TlbCoherent)

LEMMA VmmStart == VmmInit => VmmInv
<1> SUFFICES ASSUME VmmInit PROVE VmmInv
  OBVIOUS
<1>1. pde \in [0 .. Tables - 1 -> BOOLEAN]
  BY DEF VmmInit
<1>2. pte \in [VirtPages -> Frames \cup {NONE}]
  BY VmmAssumption DEF VmmInit, VirtPages
<1>3. EntriesReachable
  <2> SUFFICES ASSUME NEW v \in VirtPages, pte[v] # NONE PROVE pde[Dir(v)]
    BY DEF EntriesReachable
  <2>1. v \in 0 .. IDENTITY_PAGES - 1
    BY VmmAssumption DEF VmmInit, VirtPages
  <2>. QED BY <2>1, DirInRange DEF VmmInit
<1>. QED BY <1>1, <1>2, <1>3 DEF VmmInit, EmptyTlb, VmmTypeOK, TlbCoherent, VmmInv

(* What callers do that map only what is not mapped.                       *)
CautiousNext ==
  \/ \E v \in VirtPages, f \in Frames : Physical(v) = NONE /\ MapPage(v, f)
  \/ \E v \in VirtPages : UnmapPage(v) \/ Walk(v) \/ Evict(v)
  \/ \E mine \in BOOLEAN : SwitchDirectory(mine)

(* The TLB stays coherent for them.                                        *)
LEMMA CautiousStep ==
  ASSUME VmmTypeOK, TlbCoherent, [CautiousNext]_vmm_vars
  PROVE  TlbCoherent'
<1>1. ASSUME NEW v \in VirtPages, NEW f \in Frames, Physical(v) = NONE, MapPage(v, f)
      PROVE  TlbCoherent'
  <2> SUFFICES ASSUME NEW w \in VirtPages, tlb[w] # NONE
               PROVE  tlb[w] = Physical(w)'
    BY <1>1 DEF MapPage, TlbCoherent
  <2>1. tlb[w] = Physical(w)
    BY DEF TlbCoherent
  <2>2. w # v /\ pde[Dir(w)] /\ Physical(w) = pte[w]
    BY <1>1, <2>1 DEF Physical
  <2>. QED BY <1>1, <2>1, <2>2, DirInRange DEF MapPage, Physical, VmmTypeOK
<1>2. ASSUME NEW v \in VirtPages, UnmapPage(v) PROVE TlbCoherent'
  BY <1>2 DEF UnmapPage, VmmTypeOK, TlbCoherent, Physical
<1>3. ASSUME NEW v \in VirtPages, Walk(v) PROVE TlbCoherent'
  BY <1>3 DEF Walk, VmmTypeOK, TlbCoherent, Physical
<1>4. ASSUME NEW v \in VirtPages, Evict(v) PROVE TlbCoherent'
  BY <1>4 DEF Evict, VmmTypeOK, TlbCoherent, Physical
<1>5. ASSUME NEW mine \in BOOLEAN, SwitchDirectory(mine) PROVE TlbCoherent'
  BY <1>5 DEF SwitchDirectory, EmptyTlb, TlbCoherent
<1>6. CASE UNCHANGED vmm_vars
  BY <1>6 DEF vmm_vars, TlbCoherent, Physical
<1>. QED BY <1>1, <1>2, <1>3, <1>4, <1>5, <1>6 DEF CautiousNext

LEMMA VmmStep == VmmInv /\ [VmmNext]_vmm_vars => VmmInv'
<1> SUFFICES ASSUME VmmInv, [VmmNext]_vmm_vars PROVE VmmInv'
  OBVIOUS
<1>0. ASSUME ~MayRemap PROVE TlbCoherent'
  <2>1. [CautiousNext]_vmm_vars
    BY <1>0 DEF VmmNext, CautiousNext, MapPage
  <2>. QED BY <1>0, <2>1, CautiousStep DEF VmmInv
<1> DEFINE Kept == VmmTypeOK /\ EntriesReachable
<1>1. ASSUME NEW v \in VirtPages, NEW f \in Frames, MapPage(v, f) PROVE Kept'
  BY <1>1, DirInRange DEF MapPage, VmmTypeOK, EntriesReachable, VmmInv
<1>2. ASSUME NEW v \in VirtPages, UnmapPage(v) PROVE Kept'
  BY <1>2 DEF UnmapPage, VmmTypeOK, EntriesReachable, VmmInv
<1>3. ASSUME NEW mine \in BOOLEAN, SwitchDirectory(mine) PROVE Kept'
  BY <1>3 DEF SwitchDirectory, EmptyTlb, VmmTypeOK, EntriesReachable, VmmInv
<1>4. ASSUME NEW v \in VirtPages, Walk(v) PROVE Kept'
  BY <1>4 DEF Walk, VmmTypeOK, EntriesReachable, Physical, VmmInv
<1>5. ASSUME NEW v \in VirtPages, Evict(v) PROVE Kept'
  BY <1>5 DEF Evict, VmmTypeOK, EntriesReachable, VmmInv
<1>6. ASSUME UNCHANGED vmm_vars PROVE Kept'
  BY <1>6 DEF vmm_vars, VmmTypeOK, EntriesReachable, VmmInv
<1> HIDE DEF Kept
<1>7. Kept'
  BY <1>1, <1>2, <1>3, <1>4, <1>5, <1>6 DEF VmmNext
<1>. QED BY <1>0, <1>7 DEF Kept, VmmInv

(* No entry is present in a table the directory does not have, whatever    *)
(* callers map and unmap (vmm_map_page enters the table first).            *)
THEOREM TablesEntered == VmmSpec => []EntriesReachable
<1>1. VmmInv => EntriesReachable
  BY DEF VmmInv
<1>. QED BY VmmStart, VmmStep, <1>1, PTL DEF VmmSpec

(* Callers that unmap a page before they map it again never meet a stale   *)
(* translation: the invlpg of vmm_unmap_page is enough for them.           *)
THEOREM TlbCoherentWithoutRemap ==
  ASSUME ~MayRemap
  PROVE  VmmSpec => []TlbCoherent
<1>1. VmmInv => TlbCoherent
  BY DEF VmmInv
<1>. QED BY VmmStart, VmmStep, <1>1, PTL DEF VmmSpec

-----------------------------------------------------------------------------
(* Both together.                                                          *)
TablesOwned == \A v \in Given : pte[v] # NONE => pte[v] \in held

TablesApart ==
  \A v, w \in Given : pte[v] # NONE /\ pte[v] = pte[w] => v = w

(* The processor remembers what the tables say, so it is enough to follow  *)
(* the tables.                                                             *)
MemInv ==
  /\ PmmInv /\ VmmTypeOK /\ EntriesReachable /\ TlbCoherent
  /\ TablesOwned /\ TablesApart

LEMMA GivenIsVirtual == Given \subseteq VirtPages
BY DEF Given

LEMMA MemStart == MemInit => MemInv
<1> SUFFICES ASSUME MemInit PROVE MemInv
  OBVIOUS
<1>1. PmmInv /\ VmmTypeOK /\ EntriesReachable
  BY PmmStart, VmmStart DEF MemInit, VmmInv
<1>2. \A v \in Given : pte[v] = NONE
  BY VmmAssumption DEF MemInit, VmmInit, Given, VirtPages
<1>3. TlbCoherent
  BY DEF MemInit, VmmInit, EmptyTlb, TlbCoherent
<1>. QED BY <1>1, <1>2, <1>3 DEF MemInv, TablesOwned, TablesApart

(* Each step is a step of one of the two modules and leaves the other be.  *)
LEMMA MemStepParts ==
  ASSUME MemInv, [MemNext]_mem_vars
  PROVE  [PmmNext]_pmm_vars /\ [VmmNext]_vmm_vars /\ [CautiousNext]_vmm_vars
<1> DEFINE Parts == [PmmNext]_pmm_vars /\ [CautiousNext]_vmm_vars
<1>1. CASE GetFrame
  BY <1>1 DEF GetFrame, PmmNext
<1>2. ASSUME NEW p \in held, PutFrame(p) PROVE Parts
  BY <1>2 DEF PutFrame, PmmNext
<1>3. ASSUME NEW v \in Given, NEW f \in held, Place(v, f) PROVE Parts
  <2>1. f \in Frames
    BY MemoryAssumption DEF MemInv, PmmInv, PmmTypeOK
  <2>2. CautiousNext
    BY <1>3, <2>1, GivenIsVirtual DEF Place, CautiousNext
  <2>. QED BY <1>3, <2>2 DEF Place
<1>4. ASSUME NEW v \in Given, Remove(v) PROVE Parts
  BY <1>4, GivenIsVirtual DEF Remove, CautiousNext
<1>5. ASSUME NEW mine \in BOOLEAN, Switch(mine) PROVE Parts
  BY <1>5 DEF Switch, CautiousNext
<1>6. ASSUME NEW v \in VirtPages, Touch(v) PROVE Parts
  BY <1>6 DEF Touch, CautiousNext
<1>7. ASSUME NEW v \in VirtPages, Forget(v) PROVE Parts
  BY <1>7 DEF Forget, CautiousNext
<1>8. CASE UNCHANGED mem_vars
  BY <1>8 DEF mem_vars
<1>9. Parts
  BY <1>1, <1>2, <1>3, <1>4, <1>5, <1>6, <1>7, <1>8 DEF MemNext
<1>10. CautiousNext => VmmNext
  BY DEF CautiousNext, VmmNext
<1>. QED BY <1>9, <1>10

LEMMA MemStep == MemInv /\ [MemNext]_mem_vars => MemInv'
<1> SUFFICES ASSUME MemInv, [MemNext]_mem_vars PROVE MemInv'
  OBVIOUS
<1>a. PmmInv' /\ VmmTypeOK' /\ EntriesReachable' /\ TlbCoherent'
  <2>1. [PmmNext]_pmm_vars /\ [VmmNext]_vmm_vars /\ [CautiousNext]_vmm_vars
    BY MemStepParts
  <2>2. PmmInv' /\ VmmInv'
    BY <2>1, PmmStep, VmmStep DEF MemInv, VmmInv
  <2>3. TlbCoherent'
    BY <2>1, CautiousStep DEF MemInv
  <2>. QED BY <2>2, <2>3 DEF VmmInv
<1>b. pte \in [VirtPages -> Frames \cup {NONE}] /\ Given \subseteq VirtPages
  BY GivenIsVirtual DEF MemInv, VmmTypeOK
<1> DEFINE Apart == TablesOwned /\ TablesApart
<1>c. Apart
  BY DEF MemInv
<1>1. ASSUME GetFrame PROVE Apart'
  BY <1>1, <1>c DEF GetFrame, Alloc, vmm_vars, TablesOwned, TablesApart
<1>2. ASSUME NEW p \in held, PutFrame(p) PROVE Apart'
  <2>1. \A v \in Given : pte[v] # NONE => pte[v] # p
    BY <1>2 DEF PutFrame, Used
  <2>. QED BY <1>2, <1>c, <2>1 DEF PutFrame, FreePage, vmm_vars, TablesOwned, TablesApart
<1>3. ASSUME NEW v \in Given, NEW f \in held, Place(v, f) PROVE Apart'
  <2>1. pte' = [pte EXCEPT ![v] = f] /\ held' = held
    BY <1>3 DEF Place, MapPage, pmm_vars
  <2>2. \A w \in Given : pte'[w] = IF w = v THEN f ELSE pte[w]
    BY <1>b, <2>1
  <2>3. \A w \in Given : pte[w] # NONE => pte[w] # f
    BY <1>3 DEF Place, Used
  <2>4. TablesOwned'
    BY <1>c, <2>1, <2>2 DEF TablesOwned
  <2>5. TablesApart'
    BY <1>c, <2>2, <2>3 DEF TablesApart
  <2>. QED BY <2>4, <2>5
<1>4. ASSUME NEW v \in Given, Remove(v) PROVE Apart'
  <2>1. pte' = [pte EXCEPT ![v] = NONE] /\ held' = held
    BY <1>4 DEF Remove, UnmapPage, pmm_vars
  <2>2. \A w \in Given : pte'[w] = IF w = v THEN NONE ELSE pte[w]
    BY <1>b, <2>1
  <2>. QED BY <1>c, <2>1, <2>2 DEF TablesOwned, TablesApart
<1>5. ASSUME pte' = pte, held' = held PROVE Apart'
  BY <1>5, <1>c DEF TablesOwned, TablesApart
<1>6. ASSUME NEW mine \in BOOLEAN, Switch(mine) PROVE Apart'
  BY <1>5, <1>6 DEF Switch, SwitchDirectory, pmm_vars
<1>7. ASSUME NEW v \in VirtPages, Touch(v) PROVE Apart'
  BY <1>5, <1>7 DEF Touch, Walk, pmm_vars
<1>8. ASSUME NEW v \in VirtPages, Forget(v) PROVE Apart'
  BY <1>5, <1>8 DEF Forget, Evict, pmm_vars
<1>9. ASSUME UNCHANGED mem_vars PROVE Apart'
  BY <1>5, <1>9 DEF mem_vars, pmm_vars, vmm_vars
<1> HIDE DEF Apart
<1>10. Apart'
  BY <1>1, <1>2, <1>3, <1>4, <1>6, <1>7, <1>8, <1>9 DEF MemNext
<1>. QED BY <1>a, <1>10 DEF MemInv, Apart

(* An access reaches what the tables say.                                  *)
LEMMA ReachedIsMapped ==
  ASSUME MemInv, NEW v \in Given, NEW f \in Reached(v)
  PROVE  f # NONE /\ f = pte[v]
<1>1. v \in VirtPages /\ f # NONE /\ (f = pte[v] \/ f = tlb[v])
  BY GivenIsVirtual DEF Reached
<1>2. tlb[v] # NONE => tlb[v] = Physical(v)
  BY <1>1 DEF MemInv, TlbCoherent
<1>. QED BY <1>1, <1>2 DEF Physical

(* Callers that unmap before they free and before they map again never     *)
(* reach a frame that is not theirs (vmm_unmap_page's invlpg).             *)
THEOREM FramesStayOwned == MemSpec => []ReachOwned
<1>1. MemInv => ReachOwned
  <2> SUFFICES ASSUME MemInv, NEW v \in Given, NEW f \in Reached(v) PROVE f \in held
    BY DEF ReachOwned
  <2>. QED BY ReachedIsMapped DEF MemInv, TablesOwned
<1>. QED BY MemStart, MemStep, <1>1, PTL DEF MemSpec

(* ... and no two of their pages reach the same frame.                     *)
THEOREM FramesStayApart == MemSpec => []ReachApart
<1>1. MemInv => ReachApart
  <2> SUFFICES ASSUME MemInv, NEW v \in Given, NEW w \in Given,
                      NEW f \in Reached(v), f \in Reached(w)
               PROVE  v = w
    BY DEF ReachApart
  <2>. QED BY ReachedIsMapped DEF MemInv, TablesApart
<1>. QED BY MemStart, MemStep, <1>1, PTL DEF MemSpec

(* Together: every page of a caller's is its own.                          *)
COROLLARY PagesIsolated == MemSpec => []Isolated
<1>1. ReachOwned /\ ReachApart => Isolated
  BY DEF Isolated
<1>. QED BY FramesStayOwned, FramesStayApart, <1>1, PTL

-----------------------------------------------------------------------------
(* The address space.  The processor goes where the tables point.          *)
LEMMA TranslatedIs ==
  MemInv => \A v \in Given : Translated(v) = pte[v]
<1> SUFFICES ASSUME MemInv, NEW v \in Given PROVE Translated(v) = pte[v]
  OBVIOUS
<1>1. v \in VirtPages
  BY GivenIsVirtual
<1>2. /\ tlb[v] # NONE => tlb[v] = Physical(v)
      /\ pte[v] # NONE => pde[Dir(v)]
  BY <1>1 DEF MemInv, TlbCoherent, EntriesReachable
<1>. QED BY <1>2 DEF Translated, Physical

LEMMA SpaceStart == MemInit => Space!SpaceInit
<1> SUFFICES ASSUME MemInit PROVE Space!SpaceInit
  OBVIOUS
<1>1. \A v \in Given : pte[v] = NONE /\ tlb[v] = NONE
  BY VmmAssumption DEF MemInit, VmmInit, EmptyTlb, Given, VirtPages
<1>. QED BY <1>1 DEF MemInit, PmmInit, Translated, Physical, Space!SpaceInit

(* The same a step later.                                                  *)
LEMMA TranslatedNext ==
  MemInv' => \A v \in Given : Translated(v)' = pte'[v]
<1> SUFFICES ASSUME MemInv', NEW v \in Given PROVE Translated(v)' = pte'[v]
  OBVIOUS
<1>1. v \in VirtPages
  BY GivenIsVirtual
<1>2. /\ tlb'[v] # NONE => tlb'[v] = Physical(v)'
      /\ pte'[v] # NONE => pde'[Dir(v)]
  BY <1>1 DEF MemInv, TlbCoherent, EntriesReachable
<1>. QED BY <1>2 DEF Translated, Physical

(* Every step is one of the address space's, or not to be noticed: by the  *)
(* tables, which it changes in at most one place.                          *)
LEMMA SpaceStep ==
  ASSUME MemInv, MemInv', [MemNext]_mem_vars
  PROVE  [Space!SpaceNext]_(Space!space_vars)
<1> DEFINE leads  == [v \in Given |-> Translated(v)]
           leads2 == [v \in Given |-> Translated(v)']
<1>1. /\ leads = [v \in Given |-> pte[v]] /\ leads2 = [v \in Given |-> pte'[v]]
      /\ Given \subseteq VirtPages /\ pte \in [VirtPages -> Frames \cup {NONE}]
  BY TranslatedIs, TranslatedNext, GivenIsVirtual DEF MemInv, VmmTypeOK
<1>2. Space!Mapped = Used
  BY <1>1 DEF Space!Mapped, Used
<1>3. ASSUME held' = held, leads2 = leads PROVE [Space!SpaceNext]_(Space!space_vars)
  BY <1>3 DEF Space!space_vars
<1>4. CASE GetFrame
  <2>1. leads2 = leads
    BY <1>1, <1>4 DEF GetFrame, vmm_vars
  <2>2. PICK p \in free : held' = IF p = 0 THEN held ELSE held \cup {p}
    BY <1>4 DEF GetFrame, Alloc
  <2>3. CASE p = 0
    BY <1>3, <2>1, <2>2, <2>3
  <2>4. CASE p # 0
    <3>1. p \notin held
      BY DEF MemInv, PmmInv, Accounted
    <3>2. p \in held' /\ Space!Obtain(p)
      BY <2>1, <2>2, <2>4, <3>1 DEF Space!Obtain
    <3>. QED BY <3>2 DEF Space!SpaceNext
  <2>. QED BY <2>3, <2>4
<1>5. ASSUME NEW p \in held, PutFrame(p) PROVE [Space!SpaceNext]_(Space!space_vars)
  <2>1. leads2 = leads /\ held' = held \ {p} /\ p \notin Used
    BY <1>1, <1>5 DEF PutFrame, FreePage, vmm_vars
  <2>2. Space!Surrender(p)
    BY <1>2, <2>1 DEF Space!Surrender
  <2>. QED BY <2>2 DEF Space!SpaceNext
<1>6. ASSUME NEW v \in Given, NEW f \in held, Place(v, f)
      PROVE  [Space!SpaceNext]_(Space!space_vars)
  <2>1. pte' = [pte EXCEPT ![v] = f] /\ held' = held /\ f \notin Used
    BY <1>6 DEF Place, MapPage, pmm_vars
  <2>2. leads[v] = NONE
    <3>1. pte[v] # NONE => pde[Dir(v)]
      BY <1>1 DEF MemInv, EntriesReachable
    <3>2. Physical(v) = NONE
      BY <1>6 DEF Place
    <3>. QED BY <1>1, <3>1, <3>2 DEF Physical
  <2>3. leads2 = [leads EXCEPT ![v] = f]
    BY <1>1, <2>1
  <2>4. Space!Enter(v, f)
    BY <1>2, <2>1, <2>2, <2>3 DEF Space!Enter
  <2>. QED BY <2>4 DEF Space!SpaceNext
<1>7. ASSUME NEW v \in Given, Remove(v) PROVE [Space!SpaceNext]_(Space!space_vars)
  <2>1. pte' = [pte EXCEPT ![v] = NONE] /\ held' = held
    BY <1>7 DEF Remove, UnmapPage, pmm_vars
  <2>2. leads2 = [leads EXCEPT ![v] = NONE]
    BY <1>1, <2>1
  <2>3. Space!TakeOut(v)
    BY <2>1, <2>2 DEF Space!TakeOut
  <2>. QED BY <2>3 DEF Space!SpaceNext
<1>8. ASSUME pte' = pte, held' = held PROVE [Space!SpaceNext]_(Space!space_vars)
  BY <1>1, <1>3, <1>8
<1>9. ASSUME NEW mine \in BOOLEAN, Switch(mine)
      PROVE  [Space!SpaceNext]_(Space!space_vars)
  BY <1>8, <1>9 DEF Switch, SwitchDirectory, pmm_vars
<1>10. ASSUME NEW v \in VirtPages, Touch(v) \/ Forget(v)
       PROVE  [Space!SpaceNext]_(Space!space_vars)
  BY <1>8, <1>10 DEF Touch, Walk, Forget, Evict, pmm_vars
<1>11. CASE UNCHANGED mem_vars
  BY <1>8, <1>11 DEF mem_vars, pmm_vars, vmm_vars
<1>. QED BY <1>4, <1>5, <1>6, <1>7, <1>9, <1>10, <1>11 DEF MemNext

(* Bitmap, directories, tables and TLB together implement an address       *)
(* space, for any number of pages and tables and any size of the bitmap:   *)
(* callers that give a frame back only once it is unmapped, and map a page *)
(* only when it is not, need to know nothing else.                         *)
THEOREM MemoryImplementsAddressSpace == MemSpec => RefinesAddressSpace
BY MemStart, MemStep, SpaceStart, SpaceStep, PTL
   DEF MemSpec, RefinesAddressSpace, Space!SpaceSpec
=============================================================================
