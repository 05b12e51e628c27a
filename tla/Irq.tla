-------------------------------- MODULE Irq --------------------------------
(***************************************************************************)
(* Interrupt dispatch: kernel/irq/irq.c with the stub of kernel/entry.asm  *)
(* and the two 8259 controllers that the code programs.  The controllers   *)
(* are external and modelled as far as irq.c depends on them: edges are    *)
(* latched in irr, a request is delivered when it is unmasked, when its    *)
(* cascade line is, and when nothing of the same or a higher rank is in    *)
(* service; a non-specific EOI ends the highest-ranked service.            *)
(*                                                                         *)
(* The processor takes one interrupt at a time: the stub runs with         *)
(* interrupts off and enables them in front of its iret.                   *)
(***************************************************************************)
EXTENDS Integers, FiniteSets

CONSTANTS
  Lines,      \* device lines wired to the controllers, among 0 .. 15
  Stubs,      \* the stubs considered: FALSE is entry.asm as it stands,
              \* TRUE the same with line 129 uncommented
  NO_LINE     \* no interrupt

CASCADE == 2

ASSUME IrqAssumption ==
  /\ Lines \subseteq (0 .. 15) \ {CASCADE}
  /\ NO_LINE \notin 0 .. 15
  /\ Stubs \subseteq BOOLEAN

VARIABLES
  stub_calls, \* does irq_common_stub call irq_handler?  Never changes
  imr,       \* masked lines, both data ports together
  irr,       \* latched requests
  isr1,      \* in service at the master: lines 0 .. 7
  isr2,      \* in service at the slave: lines 8 .. 15
  handlers,  \* lines with a handler in irq_handlers[]
  serving,   \* regs->int_no - 32; NO_LINE after the call of irq_handler
  stage      \* "mainline", "handler", "eoi2", "eoi1"

irq_vars == <<stub_calls, imr, irr, isr1, isr2, handlers, serving, stage>>
pics == <<imr, irr, isr1, isr2>>

(* After irq_init: pic_remap masks everything and IRQ0, 1 and 12 are       *)
(* unmasked again; no handler is registered yet.                           *)
IrqInit ==
  /\ stub_calls \in Stubs
  /\ imr = (0 .. 15) \ {0, 1, 12}
  /\ irr = {} /\ isr1 = {} /\ isr2 = {}
  /\ handlers = {}
  /\ serving = NO_LINE /\ stage = "mainline"

Highest(s) == {i \in s : \A j \in s : i <= j}

-----------------------------------------------------------------------------
(* The controllers.                                                        *)
Raise(i) ==
  /\ irr' = irr \cup {i}
  /\ UNCHANGED <<stub_calls, imr, isr1, isr2, handlers, serving, stage>>

(* The requests each controller would pass on.  The slave's request        *)
(* reaches the processor on the master's line 2.                           *)
SlaveReady  == {i \in irr \ imr : i >= 8 /\ \A j \in isr2 : i < j}
MasterReady == {i \in irr \ imr : i < 8 /\ \A j \in isr1 : i < j}
Cascaded    == SlaveReady # {} /\ CASCADE \notin imr
                 /\ \A j \in isr1 : CASCADE < j

(* The rank of a request at the master.                                    *)
Rank(i) == IF i < 8 THEN i ELSE CASCADE

Deliverable(i) ==
  /\ \/ i \in Highest(MasterReady)
     \/ Cascaded /\ i \in Highest(SlaveReady)
  /\ \A j \in MasterReady : Rank(i) <= j
  /\ Cascaded => Rank(i) <= CASCADE

Deliver(i) ==
  /\ stage = "mainline" /\ Deliverable(i)
  /\ irr' = irr \ {i}
  /\ isr1' = isr1 \cup {Rank(i)}
  /\ isr2' = IF i < 8 THEN isr2 ELSE isr2 \cup {i}
  /\ serving' = i
  /\ stage' = IF stub_calls THEN "handler" ELSE "mainline"
  /\ UNCHANGED <<stub_calls, imr, handlers>>

(* A request that vanishes while it is being acknowledged arrives as line  *)
(* 7 of its controller, with no service bit; the slave's still occupies    *)
(* the master's line 2.                                                    *)
Spurious(i) ==
  /\ stage = "mainline" /\ isr1 = {} /\ isr2 = {}
  /\ i = 15 => CASCADE \notin imr
  /\ isr1' = IF i = 15 THEN {CASCADE} ELSE {}
  /\ serving' = i
  /\ stage' = IF stub_calls THEN "handler" ELSE "mainline"
  /\ UNCHANGED <<stub_calls, imr, irr, isr2, handlers>>

-----------------------------------------------------------------------------
(* irq_handler: the registered handler, if any, then irq_eoi.              *)
Handler ==
  /\ stage = "handler"
  /\ stage' = "eoi2"
  /\ UNCHANGED <<stub_calls, pics, handlers, serving>>

(* Operators named Bug_* are mutants of the definition that follows them.  *)

(* The slave's EOI is sent for lines above 8 only.                         *)
Bug_EoiSlaveAbove8 ==
  /\ stage = "eoi2"
  /\ isr2' = IF serving > 8 THEN isr2 \ Highest(isr2) ELSE isr2
  /\ stage' = "eoi1"
  /\ UNCHANGED <<stub_calls, imr, irr, isr1, handlers, serving>>

EoiSlave ==
  /\ stage = "eoi2"
  /\ isr2' = IF serving >= 8 THEN isr2 \ Highest(isr2) ELSE isr2
  /\ stage' = "eoi1"
  /\ UNCHANGED <<stub_calls, imr, irr, isr1, handlers, serving>>

(* The master's EOI is sent for the master's lines only.                   *)
Bug_EoiMasterOwn ==
  /\ stage = "eoi1"
  /\ isr1' = IF serving < 8 THEN isr1 \ Highest(isr1) ELSE isr1
  /\ stage' = "mainline" /\ serving' = NO_LINE
  /\ UNCHANGED <<stub_calls, imr, irr, isr2, handlers>>

EoiMaster ==
  /\ stage = "eoi1"
  /\ isr1' = isr1 \ Highest(isr1)
  /\ stage' = "mainline" /\ serving' = NO_LINE
  /\ UNCHANGED <<stub_calls, imr, irr, isr2, handlers>>

-----------------------------------------------------------------------------
(* Mainline calls.  Only the mainline writes the mask registers, so their  *)
(* read and write are one step.                                            *)
Unmask(i) ==
  /\ stage = "mainline"
  /\ imr' = imr \ {i}
  /\ UNCHANGED <<stub_calls, irr, isr1, isr2, handlers, serving, stage>>

Mask(i) ==
  /\ stage = "mainline"
  /\ imr' = imr \cup {i}
  /\ UNCHANGED <<stub_calls, irr, isr1, isr2, handlers, serving, stage>>

RegisterIrq(i) ==
  /\ stage = "mainline"
  /\ handlers' = handlers \cup {i}
  /\ UNCHANGED <<stub_calls, pics, serving, stage>>

Maskable == Lines \cup {CASCADE}

IrqNext ==
  \/ \E i \in Lines : Raise(i) \/ Deliver(i) \/ RegisterIrq(i)
  \/ \E i \in {7, 15} : Spurious(i)
  \/ Handler \/ EoiSlave \/ EoiMaster
  \/ \E i \in Maskable : Unmask(i)
  \/ \E i \in Maskable : Mask(i)

IrqSpec == IrqInit /\ [][IrqNext]_irq_vars

(* The processor delivers what can be delivered, in the end, and a handler *)
(* runs to its end.  Devices and mainline are free.                        *)
IrqFairness ==
  /\ WF_irq_vars(Handler \/ EoiSlave \/ EoiMaster)
  /\ \A i \in Lines : SF_irq_vars(Deliver(i))

(* The kernel as irq_init leaves it: drivers unmask the lines that are     *)
(* unmasked already, and nobody masks one.                                 *)
BootNext ==
  \/ \E i \in Lines : Raise(i) \/ Deliver(i) \/ RegisterIrq(i)
  \/ Handler \/ EoiSlave \/ EoiMaster
  \/ \E i \in {0, 1, 12} : Unmask(i)

BootSpec == IrqInit /\ [][BootNext]_irq_vars /\ IrqFairness

-----------------------------------------------------------------------------
(* With the call: when no handler runs, neither controller has a service   *)
(* open.  irq_eoi ends exactly what the delivery began, for lines of       *)
(* either controller, with a handler or without, spurious ones included.   *)
NothingLeftInService == stage = "mainline" => isr1 = {} /\ isr2 = {}

(* Without it: what was taken last stays in service, and nothing of its    *)
(* rank or a lower is delivered again.                                     *)
LastOfItsRank ==
  isr1 # {} => /\ Rank(serving) \in isr1
               /\ \A k \in Lines : Deliverable(k) => Rank(k) < Rank(serving)

(* irq_eoi (irq.c:67-72) is what keeps lines alive: the stub that calls    *)
(* irq_handler leaves no service behind, and the stub as it stands         *)
(* (entry.asm:129) leaves every one, so that the timer's first interrupt   *)
(* is the last of all.                                                     *)
EoiMatchesStub == IF stub_calls THEN NothingLeftInService ELSE LastOfItsRank

(* What a line that is requested waits for: a mask, a request that ranks   *)
(* higher, or a service that never ends.                                   *)
Held(k) ==
  \/ k \in imr
  \/ k >= 8 /\ CASCADE \in imr
  \/ \E j \in irr \ imr : Rank(j) < Rank(k) \/ (Rank(j) = Rank(k) /\ j < k)

Silenced(k) == ~stub_calls /\ \E j \in isr1 : j <= Rank(k)

(* A line that is requested is served, unless it is held; with the stub as *)
(* it stands also unless an interrupt of its rank or a higher was taken    *)
(* before.                                                                 *)
Served == \A k \in Lines : [](k \in irr => <>(k \notin irr \/ Held(k) \/ Silenced(k)))

(* A mouse interrupt that was raised is delivered when no other line asks  *)
(* (irq.c:42, "Enable IRQ0 (timer), IRQ1 (keyboard), IRQ12 (mouse)").      *)
MouseServed == [](12 \in irr => <>(12 \notin irr \/ irr # {12}))
=============================================================================
