--------------------------- MODULE WindowManager ---------------------------
(***************************************************************************)
(* The window table of userspace/gui/desktop/desktop.c on top of the       *)
(* kernel heap, which it shares with other callers.  A window's id is its  *)
(* index plus one: entries are never removed, so finding a window by its   *)
(* id is going to its entry.  Titles, places, colours and all that draws   *)
(* are left out.                                                           *)
(*                                                                         *)
(* The mainline is one thread: a call of kmalloc or kfree runs to its end  *)
(* before anybody makes another.                                           *)
(***************************************************************************)
EXTENDS Heap

CONSTANTS
  MAX_WINDOWS,    \* 64
  Areas,          \* w * h * 4, before it is cut to 32 bits
  MayCloseTwice   \* may wm_close_window be called for a closed window?

ASSUME WindowAssumption ==
  /\ MAX_WINDOWS \in Nat /\ Areas \subseteq Nat
  /\ MayCloseTwice \in BOOLEAN

VARIABLES
  windows,       \* [0 .. MAX_WINDOWS - 1 -> entries]
  window_count,
  creating       \* bytes of the buffer that wm_create_window waits for, or 0

table   == <<windows, window_count>>
wm_vars == <<vars, windows, window_count, creating>>

Indices == 0 .. MAX_WINDOWS - 1
Opened  == {i \in Indices : i < window_count /\ windows[i].visible}

(* content_buffer is NULL when kmalloc had nothing.                        *)
Entry(buffer, bytes) == [visible |-> TRUE, content_buffer |-> buffer, bytes |-> bytes]

WmInit ==
  /\ Init
  /\ windows = [i \in Indices |-> [visible |-> FALSE, content_buffer |-> NULL, bytes |-> 0]]
  /\ window_count = 0 /\ creating = 0

-----------------------------------------------------------------------------
(* wm_create_window up to its call of kmalloc; a full table returns 0.     *)
CreateWindow(area) ==
  /\ creating = 0 /\ window_count < MAX_WINDOWS
  /\ Kmalloc(area, area % WRAP)
  /\ creating' = area
  /\ UNCHANGED table

(* A product of 0, as it is or modulo 2^32, makes kmalloc return at once.  *)
CreateEmpty(area) ==
  /\ pc = "idle" /\ creating = 0 /\ window_count < MAX_WINDOWS
  /\ area % WRAP = 0
  /\ windows' = [windows EXCEPT ![window_count] = Entry(NULL, area)]
  /\ window_count' = window_count + 1
  /\ UNCHANGED <<vars, creating>>

(* What kmalloc has just handed out.                                       *)
Granted == IF Live' = Live THEN NULL ELSE CHOOSE b \in Live' : b \notin Live

(* A step of the heap; the one that ends wm_create_window's call completes *)
(* the new entry.                                                          *)
HeapStep ==
  /\ Step
  /\ IF creating # 0 /\ pc' # "find"
     THEN /\ windows' = [windows EXCEPT ![window_count] = Entry(Granted, creating)]
          /\ window_count' = window_count + 1
          /\ creating' = 0
     ELSE UNCHANGED <<table, creating>>

(* Operators named Bug_* are mutants of the definition that follows them.  *)

(* The closed window stays visible.                                        *)
Bug_CloseKeepsVisible(i) ==
  /\ pc = "idle" /\ creating = 0
  /\ i < window_count /\ (windows[i].visible \/ MayCloseTwice)
  /\ LET b == windows[i].content_buffer IN
       IF b = NULL THEN UNCHANGED vars ELSE Kfree(b)
  /\ UNCHANGED <<windows, window_count, creating>>

(* wm_close_window frees the buffer and hides the window; the entry keeps  *)
(* the pointer.  The code stores visible when kfree has returned; nobody   *)
(* else runs in between.  kfree of a block that was merged away scribbles  *)
(* over what is there now, which the heap's model does not keep.           *)
CloseWindow(i) ==
  /\ pc = "idle" /\ creating = 0
  /\ i < window_count /\ (windows[i].visible \/ MayCloseTwice)
  /\ LET b == windows[i].content_buffer IN
       IF b = NULL \/ b \notin blocks THEN UNCHANGED vars ELSE Kfree(b)
  /\ windows' = [windows EXCEPT ![i].visible = FALSE]
  /\ UNCHANGED <<window_count, creating>>

(* Everybody else allocates, and frees what it has not freed yet.          *)
OthersMalloc(n) ==
  /\ creating = 0
  /\ Kmalloc(n, n)
  /\ UNCHANGED <<table, creating>>

OthersCalloc(nmemb, n) ==
  /\ creating = 0
  /\ Kcalloc(nmemb, n)
  /\ UNCHANGED <<table, creating>>

OthersFree(b) ==
  /\ b \notin {windows[i].content_buffer : i \in Opened}
  /\ Kfree(b)
  /\ UNCHANGED <<table, creating>>

WmNext ==
  \/ \E area \in Areas : CreateWindow(area)
  \/ \E area \in Areas : CreateEmpty(area)
  \/ HeapStep
  \/ \E i \in Indices : CloseWindow(i)
  \/ \E n \in Requests : OthersMalloc(n)
  \/ \E a \in Arrays : OthersCalloc(a[1], a[2])
  \/ \E b \in Live : OthersFree(b)

WmSpec == WmInit /\ [][WmNext]_wm_vars

(* The loops of a call run on; nothing obliges anybody to call.            *)
WmFairSpec == WmSpec /\ WF_wm_vars(HeapStep)

-----------------------------------------------------------------------------
(* A window that is open owns its content buffer (desktop.c:170, "Allocate *)
(* content buffer"): it is allocated, as long as it was asked for, and no  *)
(* other open window's, whatever was closed before and whoever else uses   *)
(* the heap.                                                               *)
BuffersOwned ==
  \A i \in Opened :
    LET b == windows[i].content_buffer IN
      b # NULL => /\ b \in Live /\ asked[b] = windows[i].bytes
                  /\ \A j \in Opened \ {i} : windows[j].content_buffer # b
=============================================================================
