------------------------------ MODULE Keyboard ------------------------------
(***************************************************************************)
(* What keyboard_irq_handler makes of the scan codes of set 1:             *)
(* drivers/keyboard/keyboard.c:10-30 and 55-97.  The keyboard, external,   *)
(* sends a byte for a key pressed, the same plus 128 for a key released,   *)
(* and puts 224 in front for the keys of its right block; it repeats the   *)
(* key that is held.  The handler runs some time after that; bytes wait in *)
(* the keyboard's buffer and keep their order.                             *)
(*                                                                         *)
(* The bytes carry the keys that were down when they were sent, for the    *)
(* properties only.                                                        *)
(***************************************************************************)
EXTENDS Naturals, Sequences, FiniteSets

CONSTANTS
  Keyboard,   \* the keys in use: names of Code's domain
  WIRE,       \* bound: bytes in the keyboard's buffer
  OneOfEach   \* are the two keys of a pair never held together?

(* Scan codes, set 1, of the keys that matter.                             *)
Code == [lshift |-> 42, rshift |-> 54, lctrl |-> 29, rctrl |-> 29,
         lalt |-> 56, ralt |-> 56, caps |-> 58, a |-> 30, f1 |-> 59]
Extended == {"rctrl", "ralt"}
Pairs    == {{"lshift", "rshift"}, {"lctrl", "rctrl"}, {"lalt", "ralt"}}

RELEASED == 128

ASSUME KeyboardAssumption ==
  /\ Keyboard \subseteq DOMAIN Code
  /\ WIRE \in Nat \ {0}
  /\ OneOfEach \in BOOLEAN

VARIABLES
  down,           \* keys that are held
  repeating,      \* the key the keyboard repeats, or "none"
  wire,           \* bytes sent and not yet handled, with the keys down then
  shift_pressed, ctrl_pressed, alt_pressed, caps_lock,
  event,          \* the last event pushed, or None
  typed           \* the keys down when its byte was sent

key_state == <<down, repeating>>
flags     == <<shift_pressed, ctrl_pressed, alt_pressed, caps_lock>>
pushed    == <<event, typed>>
keyboard_vars == <<down, repeating, wire, shift_pressed, ctrl_pressed,
                   alt_pressed, caps_lock, event, typed>>

None == [key |-> 0, ctrl |-> FALSE, alt |-> FALSE, shift |-> FALSE]

KeyboardInit ==
  /\ down = {} /\ repeating = "none" /\ wire = <<>>
  /\ shift_pressed = FALSE /\ ctrl_pressed = FALSE /\ alt_pressed = FALSE
  /\ caps_lock = FALSE
  /\ event = None /\ typed = {}

-----------------------------------------------------------------------------
(* The keyboard.                                                           *)
Bytes(k, n) == IF k \in Extended THEN <<224, n>> ELSE <<n>>

Send(bytes, held) ==
  /\ Len(wire) + Len(bytes) <= WIRE
  /\ wire' = wire \o [i \in 1 .. Len(bytes) |-> [byte |-> bytes[i], held |-> held]]
  /\ UNCHANGED <<flags, pushed>>

Press(k) ==
  /\ k \notin down
  /\ OneOfEach => \A p \in Pairs : k \in p => p \cap down = {}
  /\ down' = down \cup {k} /\ repeating' = k
  /\ Send(Bytes(k, Code[k]), down')

Repeat ==
  /\ repeating # "none"
  /\ UNCHANGED key_state
  /\ Send(Bytes(repeating, Code[repeating]), down)

Release(k) ==
  /\ k \in down
  /\ down' = down \ {k}
  /\ repeating' = IF repeating = k THEN "none" ELSE repeating
  /\ Send(Bytes(k, Code[k] + RELEASED), down')

-----------------------------------------------------------------------------
(* keyboard_irq_handler, by the kind of the byte.                          *)
Scancode == Head(wire).byte
Taken    == wire # <<>> /\ wire' = Tail(wire) /\ UNCHANGED key_state

(* Operators named Bug_* are mutants of the definition that follows them.  *)

(* The release of the right shift key is not looked for.                   *)
Bug_IsShift(code) == code = 42

IsShift(code) == code \in {42, 54}

(* The release of a control key is taken for that of an alt key.           *)
Bug_HandleReleaseSwaps ==
  /\ Taken /\ Scancode >= RELEASED
  /\ LET released == Scancode - RELEASED IN
       /\ shift_pressed' = (shift_pressed /\ ~IsShift(released))
       /\ ctrl_pressed' = (ctrl_pressed /\ released # 56)
       /\ alt_pressed' = (alt_pressed /\ released # 29)
  /\ UNCHANGED <<caps_lock, pushed>>

HandleRelease ==
  /\ Taken /\ Scancode >= RELEASED
  /\ LET released == Scancode - RELEASED IN
       /\ shift_pressed' = (shift_pressed /\ ~IsShift(released))
       /\ ctrl_pressed' = (ctrl_pressed /\ released # 29)
       /\ alt_pressed' = (alt_pressed /\ released # 56)
  /\ UNCHANGED <<caps_lock, pushed>>

Special(code) == IsShift(code) \/ code \in {29, 56, 58}

HandleSpecial ==
  /\ Taken /\ Special(Scancode)
  /\ shift_pressed' = (shift_pressed \/ IsShift(Scancode))
  /\ ctrl_pressed' = (ctrl_pressed \/ Scancode = 29)
  /\ alt_pressed' = (alt_pressed \/ Scancode = 56)
  /\ caps_lock' = (caps_lock # (Scancode = 58))
  /\ UNCHANGED pushed

(* The character that the code looks up for the key, caps lock included,   *)
(* is not stored in the event and is left out; kb_push_event is            *)
(* EventRing's Push.                                                       *)
HandleKey ==
  /\ Taken /\ Scancode < RELEASED /\ ~Special(Scancode)
  /\ event' = [key |-> Scancode, ctrl |-> ctrl_pressed,
               alt |-> alt_pressed, shift |-> shift_pressed]
  /\ typed' = Head(wire).held
  /\ UNCHANGED flags

KeyboardNext ==
  \/ \E k \in Keyboard : Press(k) \/ Release(k)
  \/ Repeat
  \/ HandleRelease \/ HandleSpecial \/ HandleKey

KeyboardSpec == KeyboardInit /\ [][KeyboardNext]_keyboard_vars

-----------------------------------------------------------------------------
PairHeld(pair, s) == pair \cap s # {}

(* When the handler has caught up, the flags say which modifiers are held  *)
(* (keyboard.c:9, "Key states"): no release is missed, and none is taken   *)
(* for another key's, the keys of the right block included.                *)
ModifiersFollow ==
  wire = <<>> =>
    /\ shift_pressed = PairHeld({"lshift", "rshift"}, down)
    /\ ctrl_pressed = PairHeld({"lctrl", "rctrl"}, down)
    /\ alt_pressed = PairHeld({"lalt", "ralt"}, down)

(* An event carries the modifiers that were held when its key was pressed, *)
(* however late the handler runs.                                          *)
EventAsTyped ==
  event # None =>
    /\ event.shift = PairHeld({"lshift", "rshift"}, typed)
    /\ event.ctrl = PairHeld({"lctrl", "rctrl"}, typed)
    /\ event.alt = PairHeld({"lalt", "ralt"}, typed)
=============================================================================
