-------------------------------- MODULE Wifi --------------------------------
(***************************************************************************)
(* The wireless driver, drivers/net/wifi.c.  The radio is simulated: every *)
(* scan finds the same networks in the same order, so an entry of the      *)
(* table is its place in it and connected_network, a pointer into the      *)
(* table, is a place too.  Addresses, signals and the IP configuration are *)
(* left out; so is the initialiser's dhcp_enabled, which names no member.  *)
(***************************************************************************)
EXTENDS Naturals

CONSTANTS
  FOUND,     \* networks a scan finds                                  (8)
  UNKNOWN    \* a name that none of them has

ASSUME WifiAssumption == FOUND \in Nat \ {0} /\ UNKNOWN \notin 1 .. FOUND

NOWHERE == 0   \* connected_network = NULL

VARIABLES
  wifi,      \* the driver's structure; flagged: the entries whose
             \* is_connected is set
  doubled    \* has a connect left another network's flag behind since the
             \* last scan?  For the property

wifi_vars == <<wifi, doubled>>

WifiStates == {"OFF", "DISCONNECTED", "SCANNING", "CONNECTING", "CONNECTED"}

WifiInit ==
  /\ wifi = [state |-> "OFF", enabled |-> FALSE, count |-> 0, flagged |-> {},
             connected |-> NOWHERE]
  /\ doubled = FALSE

-----------------------------------------------------------------------------
(* Operators named Bug_* are mutants of the definition that follows them.  *)

(* wifi_init leaves enabled as it is.                                      *)
WifiSetUp ==
  /\ wifi' = [wifi EXCEPT !.state = "DISCONNECTED"]
  /\ UNCHANGED doubled

(* wifi_scan_networks: the table is built anew, the pointer into it stays. *)
Scanned(w) ==
  [w EXCEPT !.state = "DISCONNECTED", !.count = FOUND, !.flagged = {}]

(* The pointer is cleared before the flag it leads to.                     *)
Bug_LetGo(w) == [w EXCEPT !.connected = NOWHERE]

(* The network that connected_network points to, if any, is given up.      *)
LetGo(w) == [w EXCEPT !.flagged = @ \ {w.connected}, !.connected = NOWHERE]

WifiEnable ==
  /\ wifi' = Scanned([wifi EXCEPT !.enabled = TRUE])
  /\ doubled' = FALSE

WifiDisable ==
  /\ wifi' = LetGo([wifi EXCEPT !.enabled = FALSE, !.state = "OFF"])
  /\ UNCHANGED doubled

WifiScan ==
  /\ wifi.enabled
  /\ wifi' = Scanned(wifi)
  /\ doubled' = FALSE

(* wifi_connect to a name the table has: nothing is let go first.          *)
WifiConnect(n) ==
  /\ wifi.enabled /\ n <= wifi.count
  /\ wifi' = [wifi EXCEPT !.state = "CONNECTED", !.connected = n,
                          !.flagged = @ \cup {n}]
  /\ doubled' = (doubled \/ wifi.flagged \ {n} # {})

(* To a name it does not have: the state stays CONNECTING.                 *)
WifiConnectUnknown(n) ==
  /\ wifi.enabled /\ n \notin 1 .. wifi.count
  /\ wifi' = [wifi EXCEPT !.state = "CONNECTING"]
  /\ UNCHANGED doubled

(* wifi_disconnect, of a radio that is off too.                            *)
WifiDisconnect ==
  /\ wifi' = [LetGo(wifi) EXCEPT !.state = "DISCONNECTED"]
  /\ UNCHANGED doubled

WifiNext ==
  \/ WifiSetUp \/ WifiEnable \/ WifiDisable \/ WifiScan
  \/ \E n \in 1 .. FOUND : WifiConnect(n)
  \/ \E n \in 1 .. FOUND \cup {UNKNOWN} : WifiConnectUnknown(n)
  \/ WifiDisconnect

WifiSpec == WifiInit /\ [][WifiNext]_wifi_vars

-----------------------------------------------------------------------------
WifiTypeOK ==
  /\ wifi \in [state : WifiStates, enabled : BOOLEAN, count : {0, FOUND},
               flagged : SUBSET (1 .. FOUND), connected : 0 .. FOUND]
  /\ doubled \in BOOLEAN

(* wifi_is_connected tells the truth: the radio is on and there is a       *)
(* network behind the pointer.  And callers who do not connect twice       *)
(* between two scans never see a second network flagged, nor any once they *)
(* have disconnected or switched the radio off.                            *)
OneNetwork ==
  /\ wifi.state = "CONNECTED" => wifi.enabled /\ wifi.connected # NOWHERE
  /\ ~doubled => wifi.flagged \subseteq {wifi.connected}
=============================================================================
