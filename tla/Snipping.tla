------------------------------ MODULE Snipping ------------------------------
(***************************************************************************)
(* The screen capture, userspace/gui/snipping/snipping.c, and the blocks   *)
(* that it takes from the heap.  kmalloc is external here: it returns a    *)
(* block nobody holds, or NULL when the arena's last is gone or at any     *)
(* other time; its own behaviour is Heap's.  The mode, the picture and     *)
(* where it is saved are left out.                                         *)
(***************************************************************************)
EXTENDS Integers, FiniteSets

CONSTANTS
  Blocks,       \* the blocks that the heap has room for
  Coordinates   \* of the pointer, 0 among them

NULL == "NULL"

ASSUME SnippingAssumption ==
  Coordinates \subseteq Int /\ 0 \in Coordinates /\ NULL \notin Blocks

VARIABLES
  snip,     \* the structure: screenshot is a block, start and end are points
  blocks,   \* the blocks that are allocated
  lost      \* for the property: the screenshots that a second capture made
            \* the tool forget, and the blocks taken for the copy of a
            \* screenshot that was not there

snip_vars == <<snip, blocks, lost>>

Points == Coordinates \X Coordinates

SnipInit ==
  /\ snip = [active |-> FALSE, selecting |-> FALSE, screenshot |-> NULL,
             start |-> <<0, 0>>, end |-> <<0, 0>>, saved |-> FALSE]
  /\ blocks = {} /\ lost = {}

-----------------------------------------------------------------------------
(* Operators named Bug_* are mutants of the definition that follows them.  *)

(* What kmalloc may return.                                                *)
Allocated == (Blocks \ blocks) \cup {NULL}

(* snipping_start, with snipping_take_screenshot: an older screenshot is   *)
(* forgotten, not freed.                                                   *)
SnipStart ==
  \E b \in Allocated :
    /\ snip' = [snip EXCEPT !.active = TRUE, !.selecting = FALSE, !.screenshot = b]
    /\ blocks' = blocks \cup ({b} \ {NULL})
    /\ lost' = lost \cup ({snip.screenshot} \ {NULL})

(* snipping_stop of a structure.                                           *)
Idle(s) == [s EXCEPT !.active = FALSE, !.selecting = FALSE, !.screenshot = NULL]

SnipStop ==
  /\ snip' = Idle(snip) /\ blocks' = blocks \ {snip.screenshot}
  /\ UNCHANGED lost

(* snipping_start_selection, in a capture or not.                          *)
SnipBegin(p) ==
  /\ snip' = [snip EXCEPT !.selecting = TRUE, !.start = p, !.end = p]
  /\ UNCHANGED <<blocks, lost>>

SnipDrag(p) ==
  /\ snip.selecting
  /\ snip' = [snip EXCEPT !.end = p]
  /\ UNCHANGED <<blocks, lost>>

(* The rectangle between the two points has an inside.                     *)
HasArea(s) == s.start[1] # s.end[1] /\ s.start[2] # s.end[2]

(* The selection is copied and kept.                                       *)
Bug_SnipEnd ==
  \E b \in IF HasArea(snip) THEN Allocated ELSE {NULL} :
    /\ snip' = Idle([snip EXCEPT !.saved = @ \/ (b # NULL /\ snip.screenshot # NULL)])
    /\ blocks' = (blocks \cup ({b} \ {NULL})) \ {snip.screenshot}
    /\ lost' = IF snip.screenshot = NULL THEN lost \cup ({b} \ {NULL}) ELSE lost

(* snipping_end_selection: the points of an earlier selection will do.  The*)
(* block for the copy is freed only if there is a screenshot to copy from. *)
SnipEnd ==
  \E b \in IF HasArea(snip) THEN Allocated ELSE {NULL} :
    LET copied == b # NULL /\ snip.screenshot # NULL
    IN  /\ snip' = Idle([snip EXCEPT !.saved = @ \/ copied])
        /\ blocks' = (blocks \cup (IF copied THEN {} ELSE {b} \ {NULL})) \ {snip.screenshot}
        /\ lost' = IF snip.screenshot = NULL THEN lost \cup ({b} \ {NULL}) ELSE lost

(* snipping_copy_to_clipboard and snipping_save_to_file.                   *)
SnipSave == snip' = [snip EXCEPT !.saved = TRUE] /\ UNCHANGED <<blocks, lost>>

SnipNext ==
  \/ SnipStart \/ SnipStop \/ SnipEnd \/ SnipSave
  \/ \E p \in Points : SnipBegin(p) \/ SnipDrag(p)

SnipSpec == SnipInit /\ [][SnipNext]_snip_vars

-----------------------------------------------------------------------------
SnipTypeOK ==
  /\ snip \in [active : BOOLEAN, selecting : BOOLEAN, screenshot : Blocks \cup {NULL},
               start : Points, end : Points, saved : BOOLEAN]
  /\ blocks \subseteq Blocks /\ lost \subseteq Blocks

(* Whatever is dragged, saved or cancelled, and whether or not kmalloc has *)
(* memory, the heap holds the screenshot of the capture under way and the  *)
(* blocks lost in one of two ways: a capture over another loses the        *)
(* screenshot of the first, and a selection with an inside that ends with  *)
(* no screenshot behind it, as after a failed kmalloc (snipping.c:170),    *)
(* loses the block of its copy.  No other call loses a block, and none     *)
(* frees one that is lost already or twice.                                *)
ScreenshotsFreed ==
  /\ blocks = ({snip.screenshot} \ {NULL}) \cup lost
  /\ snip.screenshot \notin lost
  /\ snip.screenshot # NULL => snip.active
=============================================================================
