-------------------------------- MODULE Ps2 --------------------------------
(***************************************************************************)
(* Keyboard and mouse on one 8042: the two interrupt handlers and          *)
(* mouse_init (drivers/keyboard/keyboard.c, drivers/mouse/mouse.c), which  *)
(* all read port 0x60.                                                     *)
(*                                                                         *)
(* The controller and the devices are external, modelled as far as the     *)
(* drivers depend on them: one output buffer for keyboard, mouse and the   *)
(* answers to commands; a byte enters it when it is empty and raises IRQ1  *)
(* or IRQ12 if the command byte says so; a read of an empty buffer returns *)
(* the last byte again; the mouse acknowledges every command sent to it.   *)
(* A byte is <<source, meaning>>.                                          *)
(***************************************************************************)
EXTENDS Integers, Sequences

CONSTANTS
  Moves,        \* bound: mouse packets waiting
  Keys,         \* bound: scan codes waiting
  Irq12Reaches  \* is IRQ12 delivered once unmasked?  irq_init leaves the
                \* cascade masked, then it is not

ASSUME Ps2Assumption ==
  /\ Moves \in Nat \ {0} /\ Keys \in Nat \ {0}
  /\ Irq12Reaches \in BOOLEAN

Bits  == {"irq1", "irq12", "auxoff"}      \* of the command byte
NoByte == <<"none", "none">>

VARIABLES
  outbuf,       \* the output buffer, NoByte or a byte
  latch,        \* what a read of the empty buffer returns
  config,       \* the command byte, as the set of its 1 bits
  answer,       \* answers to controller commands not yet in outbuf
  keys,         \* scan codes the keyboard has yet to send
  aux,          \* bytes the mouse has yet to send
  stream,       \* does the mouse report its movements?
  raised,       \* interrupts requested: subset of {1, 12}
  init,         \* mouse_init's next step
  status,       \* its local
  registered,   \* is mouse_irq_handler in irq_handlers[12]?
  mouse_cycle,
  mouse_byte,   \* the meanings of the bytes of the packet so far
  owing,        \* scan codes sent, less those the keyboard handler took
  stolen        \* scan codes that mouse_init's read took

ctrl  == <<outbuf, latch, config, answer, raised>>
devs  == <<keys, aux, stream>>
drv   == <<init, status, registered>>
mouse == <<mouse_cycle, mouse_byte>>
fate  == <<owing, stolen>>
ps2_vars  == <<outbuf, latch, config, answer, keys, aux, stream, raised, init, status,
           registered, mouse_cycle, mouse_byte, owing, stolen>>

(* keyboard_init has run: IRQ1 is registered and unmasked.                 *)
Ps2Init ==
  /\ outbuf = NoByte /\ latch \in {NoByte, <<"kbd", "scancode">>}
  /\ config = {"irq1", "auxoff"} /\ answer = <<>>
  /\ keys = 0 /\ aux = <<>> /\ stream = FALSE
  /\ raised = {}
  /\ init = "enable"
  /\ status = {} /\ registered = FALSE
  /\ mouse_cycle = 0 /\ mouse_byte = <<"none", "none", "none">>
  /\ owing = 0 /\ stolen = 0

-----------------------------------------------------------------------------
(* The devices and the controller.                                         *)
Type ==
  /\ keys < Keys
  /\ keys' = keys + 1
  /\ UNCHANGED <<ctrl, aux, stream, drv, mouse, fate>>

Move ==
  /\ stream /\ Len(aux) <= 3 * (Moves - 1)
  /\ aux' = aux \o <<"buttons", "dx", "dy">>
  /\ UNCHANGED <<ctrl, keys, stream, drv, mouse, fate>>

(* A byte takes a millisecond on the wire, and interrupts are on: what can *)
(* be delivered is delivered sooner.                                       *)
Settled == raised \subseteq (IF Irq12Reaches THEN {} ELSE {12})

Request(line, bit) == raised' = IF bit \in config THEN raised \cup {line} ELSE raised

SendKey ==
  /\ outbuf = NoByte /\ keys > 0 /\ Settled
  /\ outbuf' = <<"kbd", "scancode">> /\ keys' = keys - 1
  /\ owing' = owing + 1
  /\ Request(1, "irq1")
  /\ UNCHANGED <<latch, config, answer, aux, stream, drv, mouse, stolen>>

SendAux ==
  /\ outbuf = NoByte /\ aux # <<>> /\ "auxoff" \notin config /\ Settled
  /\ outbuf' = <<"aux", Head(aux)>> /\ aux' = Tail(aux)
  /\ Request(12, "irq12")
  /\ UNCHANGED <<latch, config, answer, keys, stream, drv, mouse, fate>>

SendAnswer ==
  /\ outbuf = NoByte /\ answer # <<>>
  /\ outbuf' = <<"cmd", Head(answer)>> /\ answer' = Tail(answer)
  /\ Request(1, "irq1")
  /\ UNCHANGED <<latch, config, devs, drv, mouse, fate>>

(* inb(0x60) and what it returns                                           *)
Data == IF outbuf = NoByte THEN latch ELSE outbuf
Read == outbuf' = NoByte /\ latch' = Data
Meaning == IF Data[1] = "aux" THEN Data[2] ELSE "other"

-----------------------------------------------------------------------------
(* Operators named Bug_* are mutants of the definition that follows them.  *)

(* The handler counts what it takes for a scan code and is one.            *)
Handled == owing' = IF Data[1] = "kbd" THEN owing - 1 ELSE owing

(* The handler does not read the byte of a key it does not map.            *)
Bug_KeyboardSkipsRead ==
  /\ 1 \in raised
  /\ raised' = raised \ {1}
  /\ \/ Read /\ Handled
     \/ UNCHANGED <<outbuf, latch, owing>>
  /\ UNCHANGED <<config, answer, devs, drv, mouse, stolen>>

(* keyboard_irq_handler; what it does with a scan code is Keyboard's.      *)
KeyboardIrq ==
  /\ 1 \in raised
  /\ raised' = raised \ {1}
  /\ Read /\ Handled
  /\ UNCHANGED <<config, answer, devs, drv, mouse, stolen>>

(* A packet is taken for complete after two bytes.                         *)
Bug_CycleNext == IF mouse_cycle = 1 THEN 0 ELSE mouse_cycle + 1

CycleNext == IF mouse_cycle = 2 THEN 0 ELSE mouse_cycle + 1

(* mouse_irq_handler; where the packet moves the pointer is Mouse's.       *)
(* Without a registered handler irq_handler sends the EOI and the byte     *)
(* stays where it is.                                                      *)
MouseIrq ==
  /\ 12 \in raised /\ Irq12Reaches
  /\ raised' = raised \ {12}
  /\ IF registered
     THEN /\ Read
          /\ mouse_byte' = [mouse_byte EXCEPT ![mouse_cycle + 1] = Meaning]
          /\ mouse_cycle' = CycleNext
     ELSE UNCHANGED <<outbuf, latch, mouse>>
  /\ UNCHANGED <<config, answer, devs, drv, fate>>

-----------------------------------------------------------------------------
(* mouse_init, one step per access that matters.                           *)
EnableAux ==
  /\ init = "enable" /\ init' = "ask"
  /\ config' = config \ {"auxoff"}
  /\ UNCHANGED <<outbuf, latch, answer, raised, devs, status, registered, mouse, fate>>

AskConfig ==
  /\ init = "ask" /\ init' = "read"
  /\ answer' = Append(answer, config)
  /\ UNCHANGED <<outbuf, latch, config, raised, devs, status, registered, mouse, fate>>

(* The read does not wait for the output buffer to fill.  A byte that is   *)
(* not the answer stands for any set of bits.                              *)
ReadConfig ==
  /\ init = "read" /\ init' = "write"
  /\ Read
  /\ status' \in IF Data[1] = "cmd" THEN {Data[2]} ELSE SUBSET Bits
  /\ stolen' = IF outbuf[1] = "kbd" THEN 1 ELSE 0
  /\ UNCHANGED <<config, answer, raised, devs, registered, mouse, owing>>

WriteConfig ==
  /\ init = "write" /\ init' = "defaults"
  /\ config' = (status \cup {"irq12"}) \ {"auxoff"}
  /\ UNCHANGED <<outbuf, latch, answer, raised, devs, status, registered, mouse, fate>>

(* Nobody waits for the acknowledgement of a command.                      *)
MouseSendCmd == aux' = Append(aux, "ack")

(* mouse_send_cmd(0xF6)                                                    *)
SetDefaults ==
  /\ init = "defaults" /\ init' = "report"
  /\ MouseSendCmd
  /\ UNCHANGED <<ctrl, keys, stream, status, registered, mouse, fate>>

(* mouse_send_cmd(0xF4)                                                    *)
EnableReports ==
  /\ init = "report" /\ init' = "register"
  /\ MouseSendCmd /\ stream' = TRUE
  /\ UNCHANGED <<ctrl, keys, status, registered, mouse, fate>>

RegisterMouse ==
  /\ init = "register" /\ init' = "done"
  /\ registered' = TRUE
  /\ UNCHANGED <<ctrl, devs, status, mouse, fate>>

Ps2Next ==
  \/ Type \/ Move
  \/ SendKey \/ SendAux \/ SendAnswer
  \/ KeyboardIrq \/ MouseIrq
  \/ EnableAux \/ AskConfig \/ ReadConfig \/ WriteConfig
  \/ SetDefaults \/ EnableReports \/ RegisterMouse

Ps2Spec == Ps2Init /\ [][Ps2Next]_ps2_vars

(* The processor goes on to serve IRQ1.  Nothing else is taken for         *)
(* granted: not that the mouse is served, nor that mouse_init or the       *)
(* keyboard goes on.                                                       *)
Ps2Fairness == WF_ps2_vars(KeyboardIrq)

-----------------------------------------------------------------------------
(* Every scan code that left the buffer was taken by the keyboard handler, *)
(* once, but for the one that mouse_init's read (mouse.c:102) may take for *)
(* its answer; the handler gets that one too, from the controller's latch, *)
(* unless the answer comes first.                                          *)
KeysHandled ==
  LET waiting == IF outbuf[1] = "kbd" THEN 1 ELSE 0
  IN  waiting <= owing /\ owing <= waiting + stolen

(* And none stays in the buffer, as long as the command byte lets the      *)
(* controller announce it.  So no key is lost but the one mouse_init takes *)
(* and those of a keyboard it switches off with a wrong command byte.      *)
KeyRead ==
  /\ []KeysHandled
  /\ outbuf[1] = "kbd" ~> outbuf[1] # "kbd" \/ "irq1" \notin config

(* The position in the packet that a byte with this meaning has.           *)
PlaceOf(m) == CASE m = "buttons" -> 1 [] m = "dx" -> 2 [] m = "dy" -> 3 [] OTHER -> 0

(* The bytes of a parsed packet are taken for what they are (mouse.c:51,   *)
(* "Parse mouse packet").                                                  *)
PacketsAligned ==
  mouse_cycle = 0 => \A i \in 1 .. 3 : mouse_byte[i] \in {"none", <<"buttons", "dx", "dy">>[i]}

(* The packets the handler parses are three consecutive bytes of the       *)
(* mouse's stream, none left over from another packet and none missing in  *)
(* between, however keys, mouse and mouse_init interleave: what the        *)
(* acknowledgements misalign stays misaligned by the same distance.        *)
NeverTorn ==
  mouse_cycle = 0 /\ (\E i \in 1 .. 3 : mouse_byte[i] # "none") =>
    /\ \A i \in 1 .. 3 : mouse_byte[i] # "none"
    /\ \A i \in 1 .. 2 : PlaceOf(mouse_byte[i]) # 0 /\ PlaceOf(mouse_byte[i + 1]) # 0
         => (PlaceOf(mouse_byte[i + 1]) - PlaceOf(mouse_byte[i])) % 3 = 1
=============================================================================
