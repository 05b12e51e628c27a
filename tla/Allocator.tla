----------------------------- MODULE Allocator -----------------------------
(***************************************************************************)
(* What kmalloc and kfree promise: memory handed out is the caller's own   *)
(* until it gives it back, all of it and as long as it was asked for.      *)
(* Nothing here knows about blocks, headers or the list; a call may refuse *)
(* whenever it likes.                                                      *)
(***************************************************************************)
EXTENDS Integers

CONSTANTS
  First, Past    \* the arena is First .. Past - 1

VARIABLES
  owned,    \* the pieces of memory that callers own
  intact    \* FALSE once the promise is withdrawn

alloc_vars == <<owned, intact>>

Bytes(piece) == piece.at .. piece.at + piece.bytes - 1
Apart(p, q)  == Bytes(p) \cap Bytes(q) = {}

AllocInit == owned = {} /\ intact = TRUE

(* A caller becomes the owner of bytes that were nobody's.                 *)
Grant(piece) ==
  /\ owned' = owned \cup {piece} /\ piece \notin owned
  /\ Bytes(piece) # {} /\ Bytes(piece) \subseteq First .. Past - 1
  /\ \A p \in owned : Apart(p, piece)
  /\ intact = TRUE /\ intact' = TRUE

(* An owner gives a piece back; everybody else's stays as it is.           *)
GiveBack(piece) ==
  /\ piece \in owned
  /\ owned' = owned \ {piece}
  /\ intact = TRUE /\ intact' = TRUE

(* The promise ends, and nothing is known of what is owned.                *)
Withdraw == intact = TRUE /\ intact' = FALSE

AllocNext ==
  \/ \E piece \in owned' : Grant(piece)
  \/ \E piece \in owned : GiveBack(piece)
  \/ Withdraw

AllocSpec == AllocInit /\ [][AllocNext]_alloc_vars
=============================================================================
