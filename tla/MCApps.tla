------------------------------- MODULE MCApps -------------------------------
(* The parts that run on top of the kernel and between themselves call     *)
(* nothing that changes state: the file system's nodes, the second process *)
(* table, the radios, strings and printing, what is drawn, and the         *)
(* applications.  They share no variable, so a behaviour is one of a       *)
(* single part and the others rest.                                        *)
(*                                                                         *)
(* Small stand-ins: an int has 6 bits, a coordinate 4, a pixel 3 levels;   *)
(* the terminal has 3 rows of 4, the display 2 of 4, the screen 3 by 2     *)
(* pixels and a blur of radius 1.                                          *)
EXTENDS Vfs, ProcessTable, Wifi, Bluetooth, Wine, Terminal, Console, Store,
        Snipping, Framebuffer, Applets

VARIABLE part

const_Paths    == {<<"", "d">>, <<"", "d", "f">>, <<"f">>, <<"d">>}
const_Defaults == <<<<"", "d">>>>
const_Sources  == UNION {[1 .. n -> {"a", "b", "SP"}] : n \in 0 .. 4}
const_PROMPT   == [bash \in BOOLEAN |-> IF bash THEN 5 ELSE 1]
const_Lefts    == {-1, 1}
const_Tops     == {-1, 0}
const_Spots    == {<<2, 1>>}

Parts == {"vfs", "table", "wifi", "bluetooth", "wine", "tokens", "printing",
          "terminal", "console", "store", "snipping", "framebuffer", "quick",
          "explorer", "notes", "wizard"}

apps_vars == <<part, vfs_vars, table_vars, wifi_vars, bt_vars, wine_vars,
               strings_vars, term_vars, console_vars, store_vars, snip_vars,
               fb_vars, applets_vars>>

(* Where the initial states of a part are several, it rests in one of them.*)
AppsInit ==
  /\ part \in Parts
  /\ VfsInit /\ TableInit /\ WifiInit /\ BtInit /\ WineInit /\ StringsInit
  /\ ConsoleInit /\ StoreInit /\ SnipInit /\ AppletsInit
  /\ TermInit /\ (part = "terminal" \/ term.bash)
  /\ FbInit /\ (part = "framebuffer" \/ \A p \in Pixels : buffer[p] = 0)

(* The part p is the one that may move.                                    *)
Turn(p) ==
  /\ part = p /\ UNCHANGED part
  /\ IF p = "vfs" THEN TRUE ELSE UNCHANGED vfs_vars
  /\ IF p = "table" THEN TRUE ELSE UNCHANGED table_vars
  /\ IF p = "wifi" THEN TRUE ELSE UNCHANGED wifi_vars
  /\ IF p = "bluetooth" THEN TRUE ELSE UNCHANGED bt_vars
  /\ IF p = "wine" THEN TRUE ELSE UNCHANGED wine_vars
  /\ IF p \in {"tokens", "printing"} THEN TRUE ELSE UNCHANGED strings_vars
  /\ IF p = "terminal" THEN TRUE ELSE UNCHANGED term_vars
  /\ IF p = "console" THEN TRUE ELSE UNCHANGED console_vars
  /\ IF p = "store" THEN TRUE ELSE UNCHANGED store_vars
  /\ IF p = "snipping" THEN TRUE ELSE UNCHANGED snip_vars
  /\ IF p = "framebuffer" THEN TRUE ELSE UNCHANGED fb_vars
  /\ IF p \in {"quick", "explorer", "notes", "wizard"} THEN TRUE ELSE UNCHANGED applets_vars

AppsNext ==
  \/ Turn("vfs") /\ VfsNext
  \/ Turn("table") /\ TableNext
  \/ Turn("wifi") /\ WifiNext
  \/ Turn("bluetooth") /\ BtNext
  \/ Turn("wine") /\ WineNext
  \/ Turn("tokens") /\ TokensNext
  \/ Turn("printing") /\ PrintNext
  \/ Turn("terminal") /\ TermNext
  \/ Turn("console") /\ ConsoleNext
  \/ Turn("store") /\ StoreNext
  \/ Turn("snipping") /\ SnipNext
  \/ Turn("framebuffer") /\ FbNext
  \/ Turn("quick") /\ QsNext
  \/ Turn("explorer") /\ ExplorerNext
  \/ Turn("notes") /\ NotesNext
  \/ Turn("wizard") /\ WizardNext

AppsSpec == AppsInit /\ [][AppsNext]_apps_vars

(* The same with one part only.                                            *)
StoreOnly     == part = "store" /\ AppsSpec
BluetoothOnly == part = "bluetooth" /\ AppsSpec

-----------------------------------------------------------------------------
(* Every variable of every part stays in its range, above all the counts   *)
(* of the tables below their sizes, which the code checks by hand.         *)
AppTypes ==
  /\ VfsTypeOK /\ TableTypeOK /\ WifiTypeOK /\ BtTypeOK /\ WineTypeOK
  /\ TermTypeOK /\ ConsoleTypeOK /\ StoreTypeOK /\ SnipTypeOK /\ FbTypeOK
  /\ AppletsTypeOK
=============================================================================
