-------------------------------- MODULE Pmm --------------------------------
(***************************************************************************)
(* The physical page allocator of kernel/mm/pmm.c.  The bitmap is the set  *)
(* free of the pages whose bit is 1.  held is the pages callers own: the   *)
(* pages pmm_alloc_page returned to them, but not page 0, whose address is *)
(* the NULL that means "out of memory".                                    *)
(***************************************************************************)
EXTENDS Integers, FiniteSets

CONSTANTS
  MAX_PAGES,     \* bits in the bitmap                              (131072)
  LOW_PAGES,     \* pages of the first megabyte                        (256)
  TotalPages,    \* mem_size / PAGE_SIZE, from pmm_init's caller
  WRAP           \* 2^32

Pages    == 0 .. MAX_PAGES - 1
LowPages == 0 .. LOW_PAGES - 1    \* the first megabyte

ASSUME PmmAssumption ==
  /\ MAX_PAGES \in Nat \ {0} /\ LOW_PAGES \in Nat /\ TotalPages \in Nat
  /\ WRAP \in Nat /\ MAX_PAGES < WRAP /\ TotalPages < WRAP
  /\ LOW_PAGES <= MAX_PAGES

VARIABLES
  free,         \* pages whose bit in physical_bitmap is 1
  free_pages,   \* the counter, a uint32_t
  total_pages,
  held          \* pages owned by callers

pmm_vars == <<free, free_pages, total_pages, held>>

(* pmm_init sets every bit of the bitmap, whatever the memory size.  Its   *)
(* second loop calls pmm_free_page on the kernel's pages, which sets bits  *)
(* that are set already and counts up, and then counts down again.         *)
PmmInit ==
  /\ total_pages = TotalPages
  /\ free = Pages \cup LowPages
  /\ free_pages = TotalPages
  /\ held = {}

-----------------------------------------------------------------------------
(* pmm_alloc_page: the lowest free page.  A caller that is given page 0    *)
(* sees NULL.  With no bit set it returns NULL and changes nothing.        *)
Alloc ==
  /\ \E p \in free :
       /\ \A q \in free : p <= q
       /\ free' = free \ {p}
       /\ held' = IF p = 0 THEN held ELSE held \cup {p}
  /\ free_pages' = (free_pages + WRAP - 1) % WRAP
  /\ UNCHANGED total_pages

(* Operators named Bug_* are mutants of the definition that follows them.  *)

(* The counter follows the memory size instead of the pages returned.      *)
Bug_FreeCapped(p) ==
  /\ free' = free \cup {p}
  /\ held' = held \ {p}
  /\ free_pages' = IF free_pages < total_pages THEN free_pages + 1 ELSE free_pages
  /\ UNCHANGED total_pages

(* The page's bit is cleared again instead of set.                         *)
Bug_FreeClearsBit(p) ==
  /\ free' = free \ {p}
  /\ held' = held \ {p}
  /\ free_pages' = (free_pages + 1) % WRAP
  /\ UNCHANGED total_pages

(* pmm_free_page of a page the caller owns.                                *)
FreePage(p) ==
  /\ free' = free \cup {p}
  /\ held' = held \ {p}
  /\ free_pages' = (free_pages + 1) % WRAP
  /\ UNCHANGED total_pages

PmmNext == Alloc \/ \E p \in held : FreePage(p)

PmmSpec == PmmInit /\ [][PmmNext]_pmm_vars

-----------------------------------------------------------------------------
(* The counter is a uint32_t, pages are pages of the bitmap.               *)
PmmTypeOK ==
  /\ free \subseteq Pages /\ held \subseteq Pages
  /\ free_pages \in 0 .. WRAP - 1
  /\ total_pages = TotalPages

(* A page in use is never handed out again, and no page above the first    *)
(* megabyte is lost: each is either free or owned.  What may become of the *)
(* pages below is LowPagesReserved's question; one of them, page 0, is     *)
(* lost once its caller has taken it for "out of memory".                  *)
Accounted ==
  /\ held \cap free = {}
  /\ Pages \ (free \cup held) \subseteq LowPages \cup {0}

(* The first megabyte is the kernel's (pmm.c:24, "Mark first 1MB as used   *)
(* (kernel space)"): none of its pages is ever handed to a caller.         *)
LowPagesReserved == held \cap LowPages = {}

(* The counter is the number of free bits less the pages of the bitmap     *)
(* that the machine does not have, modulo 2^32.                            *)
CountOffset ==
  (free_pages + MAX_PAGES) % WRAP = (Cardinality(free) + TotalPages) % WRAP

(* Bitmap, owners and counter agree, whatever was allocated and freed.     *)
PagesSound == Accounted /\ CountOffset
=============================================================================
