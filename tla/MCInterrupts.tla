---------------------------- MODULE MCInterrupts ----------------------------
(* Interrupt dispatch, the timer's sleep and the disk driver.  They share  *)
(* no variable, so a behaviour is one of a single part and the others rest.*)
(*                                                                         *)
(* The timer's line, the slave's first one and the mouse's; the stub as it *)
(* stands and the stub that calls irq_handler.  A PIT clock of 17, counts  *)
(* of at most 8: divisors of 17, which loses its high bits, of 8, 5 and 0. *)
(* Seconds of 4 milliseconds; 32 stands for 2^32.  Transfers of one to     *)
(* four sectors; 8 stands for 256.                                         *)
EXTENDS Irq, Timer, Ata

VARIABLE part

const_Lines    == {0, 8, 12}
const_Sleeps   == {0, 1, 4, 6}
const_Frequent == {1, 2, 3, 18}

interrupts_vars == <<part, irq_vars, clock_vars, ata_vars>>

InterruptsInit ==
  /\ part \in {"irq", "timer", "ata"}
  /\ IrqInit /\ ClockInit /\ AtaInit
  /\ part = "ata" \/ drive = "ready"

InterruptsNext ==
  \/ part = "irq" /\ IrqNext /\ UNCHANGED <<part, clock_vars, ata_vars>>
  \/ part = "timer" /\ ClockNext /\ UNCHANGED <<part, irq_vars, ata_vars>>
  \/ part = "ata" /\ AtaNext /\ UNCHANGED <<part, irq_vars, clock_vars>>

InterruptsSpec ==
  /\ InterruptsInit /\ [][InterruptsNext]_interrupts_vars
  /\ part = "irq" => IrqFairness
  /\ part = "timer" => ClockFairness
  /\ part = "ata" => AtaFairness
=============================================================================
