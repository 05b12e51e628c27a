------------------------------ MODULE MCKernel ------------------------------
(* The scheduler, virtual memory and the input drivers: the event ring,    *)
(* the controller that keyboard and mouse share, the keyboard's handler.   *)
(* They share no variable, so a behaviour is one of a single part and the  *)
(* others rest.                                                            *)
(*                                                                         *)
(* Priorities are small stand-ins: 0 and 1 are ordinary, 2 is the idle     *)
(* priority and 3 stands for 0xFFFFFFFF.  Five physical pages; two tables  *)
(* of two virtual pages, of which the first is mapped to itself.           *)
(* WRAP = 16 stands for 2^32.  A ring of four slots and three events: head *)
(* and tail wrap several times and the ring fills.  Two packets and two    *)
(* keys wait at the controller.  A keyboard with keys of every kind, the   *)
(* right block's among them.                                               *)
EXTENDS Scheduler, Memory, EventRing, Ps2, Keyboard

VARIABLE part

const_Priorities == {0, 1, 3}
const_Frames     == Pages
const_Keys       == {"rshift", "lctrl", "rctrl", "lalt", "a"}

kernel_vars == <<part, vars, mem_vars, rvars, ps2_vars, keyboard_vars>>

KernelInit ==
  /\ part \in {"scheduler", "memory", "ring", "ps2", "keyboard"}
  /\ Init /\ MemInit /\ RingInit /\ Ps2Init /\ KeyboardInit
  /\ part = "ps2" \/ latch = NoByte

KernelNext ==
  \/ /\ part = "scheduler" /\ Next
     /\ UNCHANGED <<part, mem_vars, rvars, ps2_vars, keyboard_vars>>
  \/ /\ part = "memory" /\ MemNext
     /\ UNCHANGED <<part, vars, rvars, ps2_vars, keyboard_vars>>
  \/ /\ part = "ring" /\ RingNext
     /\ UNCHANGED <<part, vars, mem_vars, ps2_vars, keyboard_vars>>
  \/ /\ part = "ps2" /\ Ps2Next
     /\ UNCHANGED <<part, vars, mem_vars, rvars, keyboard_vars>>
  \/ part = "ps2" /\ UNCHANGED kernel_vars  \* a byte nobody reads blocks the port
  \/ /\ part = "keyboard" /\ KeyboardNext
     /\ UNCHANGED <<part, vars, mem_vars, rvars, ps2_vars>>

KernelSpec ==
  /\ KernelInit /\ [][KernelNext]_kernel_vars
  /\ part = "scheduler" => Fairness
  /\ part = "ps2" => Ps2Fairness
=============================================================================
