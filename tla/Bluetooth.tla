------------------------------ MODULE Bluetooth ------------------------------
(***************************************************************************)
(* The Bluetooth driver, drivers/net/bluetooth.c.  Every discovery finds   *)
(* the same devices in the same order, so a device is its place in the     *)
(* table, and active_connections holds places.  Callers pass devices of    *)
(* that table.  The copies in paired_devices are told apart by name only.  *)
(* In bluetooth_disconnect the entry behind the moved ones is cleared (the *)
(* source names it by an index that is out of scope there).  Addresses,    *)
(* signal strengths and counters of events are left out.                   *)
(***************************************************************************)
EXTENDS Naturals, Sequences, SequencesExt

CONSTANTS
  Audio, Hid, Others,  \* the devices a discovery finds              (8)
  MAX_PAIRED,          \* 16
  MAX_ACTIVE           \* 4

Devices == Audio \cup Hid \cup Others

ASSUME BluetoothAssumption ==
  /\ MAX_PAIRED \in Nat /\ MAX_ACTIVE \in Nat \ {0}
  /\ Audio \cap Hid = {} /\ (Audio \cup Hid) \cap Others = {}

VARIABLES
  bt,          \* the driver's structure; known, paired and connected are the
               \* devices in the table and those with the flag set
  overflowed   \* has a device been connected that active_connections had no
               \* room for, since the last discovery?  For the property

bt_vars == <<bt, overflowed>>

BtStates == {"OFF", "IDLE", "DISCOVERING", "PAIRING", "CONNECTING", "CONNECTED"}

BtInit ==
  /\ bt = [state |-> "OFF", enabled |-> FALSE, visible |-> FALSE,
           airplane |-> FALSE, known |-> {}, paired |-> {}, connected |-> {},
           pairings |-> <<>>, active |-> <<>>]
  /\ overflowed = FALSE

-----------------------------------------------------------------------------
(* Operators named Bug_* are mutants of the definition that follows them.  *)

BtSetUp == bt' = [bt EXCEPT !.state = "IDLE"] /\ UNCHANGED overflowed

(* bluetooth_enable asks nothing of airplane_mode.                         *)
BtEnable ==
  /\ bt' = [bt EXCEPT !.enabled = TRUE, !.state = "IDLE", !.visible = TRUE]
  /\ UNCHANGED overflowed

(* bluetooth_disable: the devices on the list lose their flag.             *)
SwitchedOff(b) ==
  [b EXCEPT !.enabled = FALSE, !.state = "OFF", !.visible = FALSE,
            !.connected = @ \ ToSet(b.active), !.active = <<>>]

BtDisable == bt' = SwitchedOff(bt) /\ UNCHANGED overflowed

(* bluetooth_start_discovery forgets the flags; the lists stay.            *)
BtDiscover ==
  /\ bt.enabled
  /\ bt' = [bt EXCEPT !.state = "IDLE", !.known = Devices, !.paired = {},
                      !.connected = {}]
  /\ overflowed' = FALSE

BtStopDiscovery == bt' = [bt EXCEPT !.state = "IDLE"] /\ UNCHANGED overflowed

(* bluetooth_pair appends a copy, of a device that has one already too.    *)
BtPair(d) ==
  /\ bt.enabled /\ d \in bt.known
  /\ bt' = [bt EXCEPT !.state = "IDLE", !.paired = @ \cup {d},
              !.pairings = IF Len(@) < MAX_PAIRED THEN Append(@, d) ELSE @]
  /\ UNCHANGED overflowed

(* The entries move down, but the last one of the list is dropped.         *)
Bug_Without(s, d) == IF Contains(s, d) THEN Front(s) ELSE s

(* A list without its first entry d, those behind it moved down.           *)
Without(s, d) == RemoveFirst(s, d)

(* bluetooth_unpair, by name; a connection of the device stays.            *)
BtUnpair(d) ==
  /\ d \in bt.known
  /\ bt' = [bt EXCEPT !.paired = @ \ {d}, !.pairings = Without(@, d)]
  /\ UNCHANGED overflowed

(* bluetooth_connect: the device is connected whether or not the list has  *)
(* room for it.                                                            *)
BtConnect(d) ==
  /\ bt.enabled /\ d \in bt.known \cap bt.paired
  /\ bt' = [bt EXCEPT !.state = "CONNECTED", !.connected = @ \cup {d},
              !.active = IF Len(@) < MAX_ACTIVE THEN Append(@, d) ELSE @]
  /\ overflowed' = (overflowed \/ Len(bt.active) >= MAX_ACTIVE)

BtConnectAudio(d) == d \in Audio /\ BtConnect(d)
BtConnectHid(d)   == d \in Hid /\ BtConnect(d)

(* bluetooth_disconnect, of a radio that is off too.                       *)
BtDisconnect(d) ==
  /\ d \in bt.known
  /\ LET left == Without(bt.active, d)
     IN  bt' = [bt EXCEPT !.connected = @ \ {d}, !.active = left,
                  !.state = IF left = <<>> THEN "IDLE" ELSE @]
  /\ UNCHANGED overflowed

(* bluetooth_set_airplane_mode: the end of it does not switch on.          *)
BtAirplane(on) ==
  /\ bt' = LET b == [bt EXCEPT !.airplane = on] IN IF on THEN SwitchedOff(b) ELSE b
  /\ UNCHANGED overflowed

BtSetVisible(v) == bt' = [bt EXCEPT !.visible = v] /\ UNCHANGED overflowed

BtNext ==
  \/ BtSetUp \/ BtEnable \/ BtDisable \/ BtDiscover \/ BtStopDiscovery
  \/ \E d \in Devices : BtPair(d) \/ BtUnpair(d) \/ BtDisconnect(d)
  \/ \E d \in Devices : BtConnect(d) \/ BtConnectAudio(d) \/ BtConnectHid(d)
  \/ \E on \in BOOLEAN : BtAirplane(on) \/ BtSetVisible(on)

BtSpec == BtInit /\ [][BtNext]_bt_vars

-----------------------------------------------------------------------------
BtTypeOK ==
  /\ bt.state \in BtStates /\ bt.known \in {{}, Devices}
  /\ {bt.enabled, bt.visible, bt.airplane, overflowed} \subseteq BOOLEAN
  /\ bt.paired \subseteq bt.known /\ bt.connected \subseteq bt.known
  /\ Len(bt.pairings) <= MAX_PAIRED /\ ToSet(bt.pairings) \subseteq Devices
  /\ Len(bt.active) <= MAX_ACTIVE /\ ToSet(bt.active) \subseteq Devices

(* Up to the connection that finds no room, a device that shows as         *)
(* connected is on the list that bluetooth_disable goes through,           *)
(* whatever was connected twice, unpaired or discovered again.  The driver *)
(* calls itself connected only while it is on and the list has an entry.   *)
ListedWhileConnected ==
  /\ ~overflowed => bt.connected \subseteq ToSet(bt.active)
  /\ bt.state = "CONNECTED" => bt.enabled /\ bt.active # <<>>

(* bluetooth.c:146 says of bluetooth_disable "Tüm bağlantıları kes", "cut  *)
(* all connections": a radio that is off has no connected device.          *)
DisableCutsAll == ~bt.enabled => bt.connected = {}
=============================================================================
