----------------------------- MODULE AppsProofs -----------------------------
(* Theorems about what the applications stand on, for every size of the    *)
(* tables: the second process table, the network, the snipping tool, the   *)
(* drawing functions and the application store; and, at the end, about all *)
(* parts together, those of ListProofs and TextProofs among them.          *)
EXTENDS MCApps, TextProofs

-----------------------------------------------------------------------------
(* The process table.  New pids lie above all that were given.             *)
TableInv ==
  /\ TableTypeOK /\ FoundWhileAlive
  /\ \A k \in InUse : processes[k].pid < next_pid

LEMMA TableStart == TableInit => TableInv
<1> SUFFICES ASSUME TableInit PROVE TableInv
  OBVIOUS
<1>1. InUse = {0} /\ 0 \in Slots
  BY TableAssumption DEF TableInit, InUse, Slots
<1>2. processes[0] = [pid |-> 0, state |-> "RUNNING", esp |-> NO_ENTRY]
  BY <1>1 DEF TableInit, Unused
<1>3. TableTypeOK
  BY <1>1, TableAssumption DEF TableInit, TableTypeOK, Unused
<1>. QED BY <1>1, <1>2, <1>3 DEF TableInit, TableInv, FoundWhileAlive

LEMMA CreateKeeps ==
  ASSUME TableInv, NEW entry \in BOOLEAN, CreateProcess(entry)
  PROVE  TableInv'
<1> DEFINE new == processes'[process_count]
<1>1. process_count \in Slots /\ process_count \notin InUse
      /\ InUse' = InUse \cup {process_count} /\ InUse \subseteq Slots
  BY TableAssumption DEF TableInv, TableTypeOK, CreateProcess, InUse, Slots
<1>2. new.pid = next_pid /\ new.state = "READY" /\ new.esp \in Slots \cup {NO_ENTRY}
  BY <1>1 DEF CreateProcess, TableInv, TableTypeOK
<1>3. \A k \in InUse : processes'[k] = processes[k]
  BY <1>1 DEF CreateProcess, TableInv, TableTypeOK
<1>4. TableTypeOK'
  <2>1. [pid |-> next_pid, state |-> "READY",
         esp |-> IF entry THEN process_count ELSE processes[process_count].esp]
          \in [pid : Nat, esp : Slots \cup {NO_ENTRY},
               state : {"UNUSED", "READY", "RUNNING", "ZOMBIE"}]
    BY <1>1 DEF TableInv, TableTypeOK
  <2>2. process_count' \in 0 .. MAX_PROCESSES /\ next_pid' \in Nat /\ alive' \subseteq Nat
    BY TableAssumption DEF TableInv, TableTypeOK, CreateProcess
  <2>. QED BY <1>1, <2>1, <2>2 DEF TableInv, TableTypeOK, CreateProcess
<1>5. FoundWhileAlive'
  <2>1. alive' = {processes'[k].pid : k \in InUse'}
    BY <1>1, <1>2, <1>3 DEF CreateProcess, TableInv, FoundWhileAlive
  <2>2. \A k, m \in InUse' : k < m => processes'[k].pid < processes'[m].pid
    <3> SUFFICES ASSUME NEW k \in InUse', NEW m \in InUse', k < m
                 PROVE  processes'[k].pid < processes'[m].pid
      OBVIOUS
    <3>1. k \in InUse
      BY <1>1 DEF InUse, TableInv, TableTypeOK
    <3>. QED BY <1>1, <1>2, <1>3, <3>1 DEF TableInv, FoundWhileAlive
  <2>. QED BY <1>1, <1>2, <1>3, <2>1, <2>2 DEF TableInv, FoundWhileAlive
<1>6. \A k \in InUse' : processes'[k].pid < next_pid'
  <2>1. next_pid' = next_pid + 1 /\ next_pid \in Nat
    BY DEF CreateProcess, TableInv, TableTypeOK
  <2>2. \A k \in InUse : processes[k].pid \in Nat
    BY <1>1 DEF TableInv, TableTypeOK
  <2>. QED BY <1>1, <1>2, <1>3, <2>1, <2>2 DEF TableInv
<1>. QED BY <1>4, <1>5, <1>6 DEF TableInv

(* The entry that process_exit_new finds is the only one of its pid.       *)
LEMMA FirstIsOnly ==
  ASSUME TableInv, NEW p, Matches(p) # {}
  PROVE  /\ First(p) \in InUse /\ processes[First(p)].pid = p
         /\ \A k \in InUse : processes[k].pid = p => k = First(p)
<1>1. \A k, m \in Matches(p) : k = m
  <2>1. \A k, m \in InUse : k # m => k < m \/ m < k
    BY DEF InUse, TableInv, TableTypeOK
  <2>2. InUse \subseteq Slots
    BY TableAssumption DEF InUse, Slots, TableInv, TableTypeOK
  <2>3. \A k \in InUse : processes[k].pid \in Nat
    BY <2>2 DEF TableInv, TableTypeOK
  <2>. QED BY <2>1, <2>3 DEF Matches, InUse, TableInv, FoundWhileAlive
<1>2. PICK m \in Matches(p) : TRUE
  OBVIOUS
<1>3. \A k \in Matches(p) : m <= k
  BY <1>1, <1>2 DEF Matches, TableInv, TableTypeOK
<1>4. First(p) \in Matches(p)
  BY <1>2, <1>3 DEF First
<1>. QED BY <1>1, <1>4 DEF Matches, InUse

(* What the move leaves in use: the entries before the one that goes, and  *)
(* those behind it, one place lower.                                       *)
LEMMA ExitMoves ==
  ASSUME TableInv, NEW p, Exit(p)
  PROVE  /\ First(p) \in InUse
         /\ InUse' = InUse \ {process_count - 1}
         /\ \A k \in InUse' : processes'[k] = processes[IF k < First(p) THEN k ELSE k + 1]
<1>1. First(p) \in InUse
  BY FirstIsOnly DEF Exit
<1>2. process_count \in Nat /\ process_count <= MAX_PROCESSES /\ First(p) \in Int
  BY <1>1, TableAssumption DEF TableInv, TableTypeOK, InUse
<1>3. InUse' = InUse \ {process_count - 1}
  BY <1>2 DEF Exit, InUse
<1>4. InUse' \subseteq Slots
  BY <1>2, TableAssumption DEF InUse, Slots, Exit
<1>. QED BY <1>1, <1>2, <1>3, <1>4 DEF Exit, Shifted, InUse

LEMMA ExitKeeps ==
  ASSUME TableInv, NEW p \in 0 .. PIDS, Exit(p)
  PROVE  TableInv'
<1> DEFINE f == First(p)
           from(k) == IF k < f THEN k ELSE k + 1
<1>1. /\ process_count \in Nat /\ process_count <= MAX_PROCESSES
      /\ f \in InUse /\ f \in Nat /\ f < process_count
      /\ process_count' = process_count - 1
  BY ExitMoves, TableAssumption DEF TableInv, TableTypeOK, InUse, Exit
<1>2. \A k \in InUse' : from(k) \in InUse /\ from(k) # f /\ processes'[k] = processes[from(k)]
  BY <1>1, ExitMoves DEF InUse
<1>3. \A m \in InUse : m # f => \E k \in InUse' : from(k) = m
  <2> SUFFICES ASSUME NEW m \in InUse, m # f PROVE \E k \in InUse' : from(k) = m
    OBVIOUS
  <2>1. CASE m < f
    BY <1>1, <2>1 DEF InUse
  <2>2. CASE m > f
    <3>1. m - 1 \in InUse' /\ from(m - 1) = m
      BY <1>1, <2>2 DEF InUse
    <3>. QED BY <3>1
  <2>. QED BY <1>1, <2>1, <2>2 DEF InUse
<1>4. /\ processes[f].pid = p
      /\ \A k \in InUse : processes[k].pid = p => k = f
  BY FirstIsOnly DEF Exit
<1>5. InUse \subseteq Slots /\ InUse' \subseteq InUse
  BY <1>1, TableAssumption DEF InUse, Slots
<1> HIDE DEF f, from
<1>6. TableTypeOK'
  <2>1. \A k \in Slots : processes'[k] \in [pid : Nat, esp : Slots \cup {NO_ENTRY},
               state : {"UNUSED", "READY", "RUNNING", "ZOMBIE"}]
    <3> SUFFICES ASSUME NEW k \in Slots
                 PROVE  processes'[k] \in [pid : Nat, esp : Slots \cup {NO_ENTRY},
                          state : {"UNUSED", "READY", "RUNNING", "ZOMBIE"}]
      OBVIOUS
    <3>1. k < process_count - 1 => k + 1 \in Slots
      BY <1>1, TableAssumption DEF Slots
    <3>. QED BY <3>1 DEF Exit, Shifted, TableInv, TableTypeOK
  <2>2. processes' = [k \in Slots |-> processes'[k]]
    BY DEF Exit, Shifted
  <2>3. process_count' \in 0 .. MAX_PROCESSES
    BY <1>1, TableAssumption
  <2>. QED BY <2>1, <2>2, <2>3 DEF Exit, TableInv, TableTypeOK
<1>7. FoundWhileAlive'
  <2>1. alive' = {processes'[k].pid : k \in InUse'}
    <3>1. \A q \in alive' : \E k \in InUse' : processes'[k].pid = q
      <4> SUFFICES ASSUME NEW q \in alive' PROVE \E k \in InUse' : processes'[k].pid = q
        OBVIOUS
      <4>1. PICK m \in InUse : processes[m].pid = q
        BY DEF Exit, TableInv, FoundWhileAlive
      <4>2. m # f
        BY <1>4, <4>1 DEF Exit
      <4>. QED BY <1>2, <1>3, <4>1, <4>2
    <3>2. \A k \in InUse' : processes'[k].pid \in alive'
      BY <1>2, <1>4 DEF Exit, TableInv, FoundWhileAlive
    <3>. QED BY <3>1, <3>2
  <2>2. \A k, m \in InUse' : k < m => from(k) < from(m)
    BY <1>1 DEF from, InUse
  <2>3. \A k, m \in InUse' : k < m => processes'[k].pid < processes'[m].pid
    BY <1>2, <2>2 DEF TableInv, FoundWhileAlive
  <2>4. \A k \in InUse' : processes'[k].state \in {"READY", "RUNNING"}
    BY <1>2 DEF TableInv, FoundWhileAlive
  <2>. QED BY <2>1, <2>3, <2>4 DEF FoundWhileAlive
<1>8. \A k \in InUse' : processes'[k].pid < next_pid'
  BY <1>2 DEF TableInv, Exit
<1>. QED BY <1>6, <1>7, <1>8 DEF TableInv

LEMMA GetKeeps ==
  ASSUME TableInv, NEW p \in 0 .. PIDS, Get(p)
  PROVE  TableInv'
<1>1. UNCHANGED <<processes, process_count, next_pid, alive>>
  BY DEF Get
<1>2. ref' \in [pid : Nat, slot : Slots \cup {NO_ENTRY}]
  <2>1. Matches(p) # {} => First(p) \in Slots
    BY FirstIsOnly, TableAssumption DEF InUse, Slots, TableInv, TableTypeOK
  <2>2. p \in Nat
    BY TableAssumption
  <2>. QED BY <2>1, <2>2 DEF Get
<1>. QED BY <1>1, <1>2 DEF TableInv, TableTypeOK, FoundWhileAlive, InUse

LEMMA TableStep == TableInv /\ [TableNext]_table_vars => TableInv'
<1> SUFFICES ASSUME TableInv, [TableNext]_table_vars PROVE TableInv'
  OBVIOUS
<1>1. CASE UNCHANGED table_vars
  BY <1>1 DEF table_vars, TableInv, TableTypeOK, FoundWhileAlive, InUse
<1>. QED BY <1>1, CreateKeeps, ExitKeeps, GetKeeps DEF TableNext

(* Whatever is created and exits, for any size of the table: a pid is      *)
(* found from its creation to its exit, entries keep the order of creation *)
(* and no zombie is left among them.                                       *)
THEOREM PidsStayFound == TableSpec => []FoundWhileAlive
<1>1. TableInv => FoundWhileAlive
  BY DEF TableInv
<1>. QED BY TableStart, TableStep, <1>1, PTL DEF TableSpec

(* A pointer that process_get_by_pid returned stays good while its process *)
(* lives, until an older one exits.                                        *)
THEOREM PointersStay == TableSpec => RefStaysUntilOlderExits
<1> DEFINE Stays == UNCHANGED ref /\ RefGood /\ ref.pid \in alive' =>
                      RefGood' \/ \E p \in alive \ alive' : p < ref.pid
<1>1. TableInv /\ [TableNext]_table_vars => [Stays]_table_vars
  <2> SUFFICES ASSUME TableInv, [TableNext]_table_vars, UNCHANGED ref, RefGood,
                      ref.pid \in alive'
               PROVE  RefGood' \/ \E p \in alive \ alive' : p < ref.pid
    OBVIOUS
  <2>0. process_count \in Nat /\ process_count <= MAX_PROCESSES /\ InUse \subseteq Slots
        /\ ref.slot \in InUse /\ ref.slot \in Nat
    BY TableAssumption DEF TableInv, TableTypeOK, InUse, Slots, RefGood
  <2>1. ASSUME NEW entry \in BOOLEAN, CreateProcess(entry) PROVE RefGood'
    <3>1. ref.slot # process_count /\ ref.slot \in InUse'
      BY <2>0, <2>1 DEF CreateProcess, InUse
    <3>. QED BY <2>0, <2>1, <3>1 DEF CreateProcess, RefGood, TableInv, TableTypeOK
  <2>2. ASSUME NEW p \in 0 .. PIDS, Exit(p)
        PROVE  RefGood' \/ \E q \in alive \ alive' : q < ref.pid
    <3>1. /\ First(p) \in InUse /\ processes[First(p)].pid = p
          /\ \A k \in InUse : processes[k].pid = p => k = First(p)
      BY <2>2, FirstIsOnly DEF Exit
    <3>2. ref.slot # First(p)
      BY <2>2, <3>1 DEF Exit, RefGood
    <3>3. CASE ref.slot < First(p)
      <4>1. ref.slot \in InUse' /\ processes'[ref.slot] = processes[ref.slot]
        BY <2>0, <2>2, <3>1, <3>3, ExitMoves DEF InUse
      <4>. QED BY <4>1 DEF RefGood
    <3>4. CASE First(p) < ref.slot
      <4>1. p < ref.pid
        BY <2>0, <3>1, <3>4 DEF RefGood, TableInv, FoundWhileAlive
      <4>2. p \in alive \ alive'
        BY <2>2, <3>1 DEF Exit, TableInv, FoundWhileAlive
      <4>. QED BY <4>1, <4>2
    <3>. QED BY <2>0, <3>1, <3>2, <3>3, <3>4 DEF InUse
  <2>3. ASSUME NEW p \in 0 .. PIDS, Get(p) PROVE RefGood'
    BY <2>3 DEF Get, RefGood, InUse
  <2>4. CASE UNCHANGED table_vars
    BY <2>4 DEF table_vars, RefGood, InUse
  <2>. QED BY <2>1, <2>2, <2>3, <2>4 DEF TableNext
<1>. QED BY TableStart, TableStep, <1>1, PTL DEF TableSpec, RefStaysUntilOlderExits

-----------------------------------------------------------------------------
(* The wireless radio.                                                     *)
Radio == [state : WifiStates, enabled : BOOLEAN, count : {0, FOUND},
          flagged : SUBSET (1 .. FOUND), connected : 0 .. FOUND]

(* What a scan leaves, and what letting go does, field by field.           *)
LEMMA ScannedRadio ==
  ASSUME NEW w \in Radio
  PROVE  /\ Scanned(w) \in Radio
         /\ Scanned(w).state = "DISCONNECTED" /\ Scanned(w).flagged = {}
<1>1. "DISCONNECTED" \in WifiStates /\ FOUND \in {0, FOUND} /\ {} \in SUBSET (1 .. FOUND)
  BY DEF WifiStates
<1>. QED BY <1>1 DEF Scanned, Radio

LEMMA LetGoRadio ==
  ASSUME NEW w \in Radio
  PROVE  /\ LetGo(w) \in Radio
         /\ LetGo(w).state = w.state
         /\ w.flagged \subseteq {w.connected} => LetGo(w).flagged = {}
<1>1. w.flagged \ {w.connected} \in SUBSET (1 .. FOUND) /\ NOWHERE \in 0 .. FOUND
  BY WifiAssumption DEF Radio, NOWHERE
<1>. QED BY <1>1 DEF LetGo, Radio

LEMMA WifiStart == WifiInit => WifiTypeOK /\ OneNetwork
<1>1. "OFF" \in WifiStates /\ 0 \in {0, FOUND} /\ {} \in SUBSET (1 .. FOUND)
      /\ NOWHERE \in 0 .. FOUND /\ FALSE \in BOOLEAN
  BY WifiAssumption DEF WifiStates, NOWHERE
<1>2. ASSUME WifiInit
      PROVE  /\ wifi \in Radio /\ doubled = FALSE
             /\ wifi.state = "OFF" /\ wifi.flagged = {}
  BY <1>1, <1>2 DEF WifiInit, Radio
<1>. QED BY <1>2 DEF WifiTypeOK, OneNetwork, Radio

LEMMA WifiStep ==
  WifiTypeOK /\ OneNetwork /\ [WifiNext]_wifi_vars => (WifiTypeOK /\ OneNetwork)'
<1> SUFFICES ASSUME WifiTypeOK, OneNetwork, [WifiNext]_wifi_vars
             PROVE  (WifiTypeOK /\ OneNetwork)'
  OBVIOUS
<1>0. wifi \in Radio /\ {"OFF", "DISCONNECTED", "CONNECTING", "CONNECTED"} \subseteq WifiStates
  BY DEF WifiTypeOK, Radio, WifiStates
<1> USE DEF WifiTypeOK, OneNetwork
<1>1. CASE WifiSetUp
  BY <1>0, <1>1 DEF WifiSetUp
<1>2. CASE WifiEnable
  <2> DEFINE w == [wifi EXCEPT !.enabled = TRUE]
  <2>1. w \in Radio
    BY <1>0 DEF Radio
  <2>2. wifi' = Scanned(w)
    BY <1>2 DEF WifiEnable
  <2> HIDE DEF w
  <2>3. wifi' \in Radio /\ wifi'.state = "DISCONNECTED" /\ wifi'.flagged = {}
    BY <2>1, <2>2, ScannedRadio
  <2>. QED BY <1>2, <2>3 DEF WifiEnable, Radio
<1>3. CASE WifiDisable
  <2> DEFINE w == [wifi EXCEPT !.enabled = FALSE, !.state = "OFF"]
  <2>1. w \in Radio /\ w.state = "OFF" /\ w.flagged = wifi.flagged
        /\ w.connected = wifi.connected
    BY <1>0 DEF Radio
  <2>2. wifi' = LetGo(w)
    BY <1>3 DEF WifiDisable
  <2> HIDE DEF w
  <2>3. wifi' \in Radio /\ wifi'.state = "OFF" /\ (~doubled => wifi'.flagged = {})
    BY <2>1, <2>2, LetGoRadio
  <2>. QED BY <1>3, <2>3 DEF WifiDisable, Radio
<1>4. CASE WifiScan
  <2>1. wifi' \in Radio /\ wifi'.state = "DISCONNECTED" /\ wifi'.flagged = {}
    BY <1>0, <1>4, ScannedRadio DEF WifiScan
  <2>. QED BY <1>4, <2>1 DEF WifiScan, Radio
<1>5. ASSUME NEW n \in 1 .. FOUND, WifiConnect(n) PROVE (WifiTypeOK /\ OneNetwork)'
  <2>1. wifi.flagged \cup {n} \in SUBSET (1 .. FOUND) /\ n \in 0 .. FOUND /\ n # NOWHERE
    BY <1>0, <1>5, WifiAssumption DEF Radio, NOWHERE
  <2>2. /\ wifi' \in Radio /\ wifi'.enabled = wifi.enabled /\ wifi'.connected = n
        /\ wifi'.flagged = wifi.flagged \cup {n}
    BY <1>0, <1>5, <2>1 DEF WifiConnect, Radio
  <2>. QED BY <1>5, <2>1, <2>2 DEF WifiConnect, Radio
<1>6. ASSUME NEW n, WifiConnectUnknown(n) PROVE (WifiTypeOK /\ OneNetwork)'
  BY <1>0, <1>6 DEF WifiConnectUnknown
<1>7. CASE WifiDisconnect
  <2> DEFINE w == LetGo(wifi)
  <2>1. w \in Radio /\ (~doubled => w.flagged = {})
    BY <1>0, LetGoRadio
  <2>2. wifi' = [w EXCEPT !.state = "DISCONNECTED"]
    BY <1>7 DEF WifiDisconnect
  <2> HIDE DEF w
  <2>3. wifi' \in Radio /\ wifi'.state = "DISCONNECTED" /\ wifi'.flagged = w.flagged
    BY <1>0, <2>1, <2>2 DEF Radio
  <2>. QED BY <1>7, <2>1, <2>3 DEF WifiDisconnect, Radio
<1>8. CASE UNCHANGED wifi_vars
  BY <1>8 DEF wifi_vars
<1>. QED BY <1>1, <1>2, <1>3, <1>4, <1>5, <1>6, <1>7, <1>8 DEF WifiNext

(* However many networks a scan finds: "connected" has a network behind    *)
(* it, and only a second connect between two scans leaves a flag behind.   *)
THEOREM FlagsFollowPointer == WifiSpec => []OneNetwork
BY WifiStart, WifiStep, PTL DEF WifiSpec

-----------------------------------------------------------------------------
(* The snipping tool.                                                      *)
LEMMA SnipBegins == SnipInit => SnipTypeOK /\ ScreenshotsFreed
<1>1. <<0, 0>> \in Points /\ NULL \in Blocks \cup {NULL} /\ FALSE \in BOOLEAN
  BY SnippingAssumption DEF Points
<1>2. ASSUME SnipInit
      PROVE  /\ snip \in [active : BOOLEAN, selecting : BOOLEAN,
                          screenshot : Blocks \cup {NULL},
                          start : Points, end : Points, saved : BOOLEAN]
             /\ snip.screenshot = NULL /\ blocks = {} /\ lost = {}
  BY <1>1, <1>2 DEF SnipInit
<1>. QED BY <1>2 DEF SnipTypeOK, ScreenshotsFreed

LEMMA SnipStep ==
  ASSUME SnipTypeOK, ScreenshotsFreed, [SnipNext]_snip_vars
  PROVE  (SnipTypeOK /\ ScreenshotsFreed)'
<1> USE SnippingAssumption DEF SnipTypeOK, ScreenshotsFreed
<1>1. CASE SnipStart
  BY <1>1 DEF SnipStart, Allocated
<1>2. CASE SnipStop
  BY <1>2 DEF SnipStop, Idle
<1>3. CASE SnipEnd
  <2>1. PICK b \in Allocated :
          LET copied == b # NULL /\ snip.screenshot # NULL
          IN  /\ snip' = Idle([snip EXCEPT !.saved = @ \/ copied])
              /\ blocks' = (blocks \cup (IF copied THEN {} ELSE {b} \ {NULL}))
                              \ {snip.screenshot}
              /\ lost' = IF snip.screenshot = NULL THEN lost \cup ({b} \ {NULL}) ELSE lost
    BY <1>3 DEF SnipEnd, Allocated
  <2> DEFINE copied == b # NULL /\ snip.screenshot # NULL
             s == [snip EXCEPT !.saved = @ \/ copied]
  <2>2. s \in [active : BOOLEAN, selecting : BOOLEAN, screenshot : Blocks \cup {NULL},
               start : Points, end : Points, saved : BOOLEAN]
    OBVIOUS
  <2>3. snip' = Idle(s)
    BY <2>1
  <2> HIDE DEF s
  <2>4. snip' \in [active : BOOLEAN, selecting : BOOLEAN, screenshot : Blocks \cup {NULL},
                   start : Points, end : Points, saved : BOOLEAN]
        /\ snip'.screenshot = NULL
    BY <2>2, <2>3 DEF Idle
  <2>5. blocks' = lost' /\ lost' \subseteq Blocks
    <3>1. CASE snip.screenshot = NULL
      BY <2>1, <3>1 DEF Allocated
    <3>2. CASE snip.screenshot # NULL
      BY <2>1, <3>2 DEF Allocated
    <3>. QED BY <3>1, <3>2
  <2>. QED BY <2>4, <2>5
<1>4. CASE SnipSave
  BY <1>4 DEF SnipSave
<1>5. ASSUME NEW p \in Points, SnipBegin(p) \/ SnipDrag(p)
      PROVE  (SnipTypeOK /\ ScreenshotsFreed)'
  BY <1>5 DEF SnipBegin, SnipDrag
<1>6. CASE UNCHANGED snip_vars
  BY <1>6 DEF snip_vars
<1>. QED BY <1>1, <1>2, <1>3, <1>4, <1>5, <1>6 DEF SnipNext

(* For any heap, and whenever kmalloc fails: the heap holds the screenshot *)
(* of the capture under way, and what a capture over another or a          *)
(* selection without a screenshot lost.                                    *)
THEOREM BlocksGoBack == SnipSpec => []ScreenshotsFreed
<1>1. SnipTypeOK /\ ScreenshotsFreed /\ [SnipNext]_snip_vars
        => (SnipTypeOK /\ ScreenshotsFreed)'
  BY SnipStep
<1>. QED BY SnipBegins, <1>1, PTL DEF SnipSpec

-----------------------------------------------------------------------------
(* The framebuffer.  A coordinate that an int holds, or the sum of two, is *)
(* itself when it is not negative, and lies beyond any screen when it is.  *)
LEMMA Unsigned ==
  ASSUME NEW n \in Int, -MAX_INT <= n, n <= 2 * MAX_INT
  PROVE  /\ MAX_INT \in Nat
         /\ n >= 0 => U(n) = n
         /\ n < 0 => U(n) \in Nat /\ U(n) > MAX_INT
<1>1. UNSIGNED \in Nat /\ UNSIGNED > 0
  BY FramebufferAssumption
<1>2. MAX_INT \in Nat /\ 2 * MAX_INT < UNSIGNED
  BY <1>1 DEF MAX_INT
<1>3. ASSUME n >= 0 PROVE n % UNSIGNED = n
  <2>1. n \in 0 .. UNSIGNED - 1
    BY <1>1, <1>2, <1>3
  <2>. QED BY <1>1, <2>1
<1>4. ASSUME n < 0 PROVE n % UNSIGNED = n + UNSIGNED
  <2> DEFINE q == n \div UNSIGNED
             r == n % UNSIGNED
  <2>1. q \in Int /\ r \in Nat /\ r < UNSIGNED /\ n = UNSIGNED * q + r
    BY <1>1
  <2> HIDE DEF q, r
  <2>2. q < 0
    <3>1. q >= 0 => UNSIGNED * q >= 0
      BY <1>1, <2>1
    <3>. QED BY <1>1, <1>4, <2>1, <3>1
  <2>3. q > -2
    <3>1. q <= -2 => UNSIGNED * q <= UNSIGNED * (-2)
      BY <1>1, <2>1
    <3>. QED BY <1>1, <1>2, <2>1, <3>1
  <2>4. q = -1
    BY <2>1, <2>2, <2>3
  <2>5. r = n + UNSIGNED
    BY <1>1, <2>1, <2>4
  <2>. QED BY <2>5 DEF r
<1>. QED BY <1>1, <1>2, <1>3, <1>4 DEF U

(* What a loop takes lies between its ends, and nothing when it begins     *)
(* below zero and ends above.                                              *)
LEMMA AlongIs ==
  ASSUME NEW size \in 0 .. MAX_INT,
         NEW a \in Int, -MAX_INT <= a, a <= 2 * MAX_INT,
         NEW b \in Int, -MAX_INT <= b, b <= 2 * MAX_INT
  PROVE  /\ a >= 0 /\ b >= 0 =>
              Along(a, b, size) = {p \in 0 .. size - 1 : a <= p /\ p < b}
         /\ a < 0 => Along(a, b, size) = {}
<1>1. /\ a >= 0 => U(a) = a
      /\ a < 0 => U(a) \in Nat /\ U(a) > MAX_INT
      /\ b >= 0 => U(b) = b
      /\ MAX_INT \in Nat
  BY Unsigned
<1>2. CASE a < 0
  <2>1. \A p \in 0 .. size - 1 : ~(U(a) <= p)
    BY <1>1, <1>2
  <2>. QED BY <1>2, <2>1 DEF Along
<1>3. CASE ~(a < 0)
  BY <1>1, <1>3 DEF Along
<1>. QED BY <1>2, <1>3

(* The rectangle that a caller means, and what the loops take of it: all   *)
(* of it that is on the screen, or nothing when it begins off the screen   *)
(* and ends on it.                                                         *)
Box(x, y, w, h) ==
  {p \in Pixels : x <= p[1] /\ p[1] < x + w /\ y <= p[2] /\ p[2] < y + h}

LEMMA Arguments ==
  ASSUME NEW x \in Lefts, NEW y \in Tops, NEW w \in Extents, NEW h \in Extents
  PROVE  /\ MAX_INT \in Nat /\ FB_WIDTH \in 0 .. MAX_INT /\ FB_HEIGHT \in 0 .. MAX_INT
         /\ x \in Int /\ -MAX_INT <= x /\ x <= MAX_INT
         /\ y \in Int /\ -MAX_INT <= y /\ y <= MAX_INT
         /\ w \in Nat /\ w <= MAX_INT /\ h \in Nat /\ h <= MAX_INT
         /\ RADIUS \in Nat /\ RADIUS <= MAX_INT
<1>1. MAX_INT \in Nat
  BY FramebufferAssumption DEF MAX_INT
<1> HIDE DEF MAX_INT
<1>2. x \in -MAX_INT .. MAX_INT /\ y \in -MAX_INT .. MAX_INT
      /\ w \in 0 .. MAX_INT /\ h \in 0 .. MAX_INT
  BY FramebufferAssumption
<1>3. RADIUS \in 0 .. MAX_INT /\ FB_WIDTH \in 1 .. MAX_INT /\ FB_HEIGHT \in 1 .. MAX_INT
  BY FramebufferAssumption
<1>. QED BY <1>1, <1>2, <1>3

LEMMA LoopedIs ==
  ASSUME NEW x \in Lefts, NEW y \in Tops, NEW w \in Extents, NEW h \in Extents
  PROVE  Looped(x, y, w, h) =
           IF (x < 0 /\ 0 <= x + w) \/ (y < 0 /\ 0 <= y + h) THEN {} ELSE Box(x, y, w, h)
<1>1. /\ MAX_INT \in Nat /\ FB_WIDTH \in 0 .. MAX_INT /\ FB_HEIGHT \in 0 .. MAX_INT
      /\ x \in Int /\ -MAX_INT <= x /\ x <= MAX_INT
      /\ y \in Int /\ -MAX_INT <= y /\ y <= MAX_INT
      /\ w \in Nat /\ w <= MAX_INT /\ h \in Nat /\ h <= MAX_INT
  BY Arguments
<1>2. /\ x + w \in Int /\ -MAX_INT <= x + w /\ x + w <= 2 * MAX_INT
      /\ y + h \in Int /\ -MAX_INT <= y + h /\ y + h <= 2 * MAX_INT
      /\ x <= 2 * MAX_INT /\ y <= 2 * MAX_INT
  BY <1>1
<1> DEFINE across == Along(x, x + w, FB_WIDTH)
           down   == Along(y, y + h, FB_HEIGHT)
<1>3. /\ x >= 0 /\ x + w >= 0 => across = {p \in 0 .. FB_WIDTH - 1 : x <= p /\ p < x + w}
      /\ x < 0 => across = {}
  BY <1>1, <1>2, AlongIs
<1>4. /\ y >= 0 /\ y + h >= 0 => down = {p \in 0 .. FB_HEIGHT - 1 : y <= p /\ p < y + h}
      /\ y < 0 => down = {}
  BY <1>1, <1>2, AlongIs
<1>5. Looped(x, y, w, h) = across \X down
  BY DEF Looped
<1> HIDE DEF across, down
<1>6. \A p \in Pixels : p[1] \in 0 .. FB_WIDTH - 1 /\ p[2] \in 0 .. FB_HEIGHT - 1
                        /\ p[1] \in Nat /\ p[2] \in Nat /\ p = <<p[1], p[2]>>
  BY DEF Pixels
<1>7. CASE x < 0
  <2>1. Looped(x, y, w, h) = {}
    BY <1>3, <1>5, <1>7
  <2>2. CASE 0 <= x + w
    BY <1>7, <2>1, <2>2
  <2>3. CASE ~(0 <= x + w)
    <3>1. Box(x, y, w, h) = {}
      BY <1>1, <1>2, <1>6, <2>3 DEF Box
    <3>. QED BY <2>1, <3>1
  <2>. QED BY <2>2, <2>3
<1>8. CASE y < 0
  <2>1. Looped(x, y, w, h) = {}
    BY <1>4, <1>5, <1>8
  <2>2. CASE 0 <= y + h
    BY <1>8, <2>1, <2>2
  <2>3. CASE ~(0 <= y + h)
    <3>1. Box(x, y, w, h) = {}
      BY <1>1, <1>2, <1>6, <2>3 DEF Box
    <3>. QED BY <2>1, <3>1
  <2>. QED BY <2>2, <2>3
<1>9. CASE ~(x < 0) /\ ~(y < 0)
  <2>1. x >= 0 /\ x + w >= 0 /\ y >= 0 /\ y + h >= 0
    BY <1>1, <1>9
  <2>2. across = {p \in 0 .. FB_WIDTH - 1 : x <= p /\ p < x + w}
        /\ down = {p \in 0 .. FB_HEIGHT - 1 : y <= p /\ p < y + h}
    BY <1>3, <1>4, <2>1
  <2>3. across \X down = Box(x, y, w, h)
    BY <1>6, <2>2 DEF Box, Pixels
  <2>. QED BY <1>5, <1>9, <2>3
<1>. QED BY <1>7, <1>8, <1>9

(* f is b but for some pixels of ps.                                       *)
SameBut(f, b, ps) == DOMAIN f = Pixels /\ \A p \in Pixels \ ps : f[p] = b[p]

(* The blur's loops stay inside as well, unless they end off the screen.   *)
LEMMA BlurInside ==
  ASSUME NEW x \in Lefts, NEW y \in Tops, NEW w \in Extents, NEW h \in Extents,
         x + w >= RADIUS, y + h >= RADIUS
  PROVE  Looped(x + RADIUS, y + RADIUS, w - 2 * RADIUS, h - 2 * RADIUS) \subseteq Box(x, y, w, h)
<1>1. /\ MAX_INT \in Nat /\ FB_WIDTH \in 0 .. MAX_INT /\ FB_HEIGHT \in 0 .. MAX_INT
      /\ x \in Int /\ -MAX_INT <= x /\ x <= MAX_INT
      /\ y \in Int /\ -MAX_INT <= y /\ y <= MAX_INT
      /\ w \in Nat /\ w <= MAX_INT /\ h \in Nat /\ h <= MAX_INT
      /\ RADIUS \in Nat /\ RADIUS <= MAX_INT
  BY Arguments
<1> DEFINE l == x + RADIUS
           t == y + RADIUS
           e == l + (w - 2 * RADIUS)
           f == t + (h - 2 * RADIUS)
<1>2. /\ l \in Int /\ -MAX_INT <= l /\ l <= 2 * MAX_INT
      /\ t \in Int /\ -MAX_INT <= t /\ t <= 2 * MAX_INT
      /\ e \in Int /\ 0 <= e /\ -MAX_INT <= e /\ e <= 2 * MAX_INT
      /\ f \in Int /\ 0 <= f /\ -MAX_INT <= f /\ f <= 2 * MAX_INT
      /\ x <= l /\ y <= t /\ e <= x + w /\ f <= y + h
  BY <1>1
<1>3. Looped(l, t, w - 2 * RADIUS, h - 2 * RADIUS) = Along(l, e, FB_WIDTH) \X Along(t, f, FB_HEIGHT)
  BY DEF Looped
<1> HIDE DEF l, t, e, f
<1>4. Along(l, e, FB_WIDTH) \subseteq {p \in 0 .. FB_WIDTH - 1 : l <= p /\ p < e}
  BY <1>1, <1>2, AlongIs
<1>5. Along(t, f, FB_HEIGHT) \subseteq {p \in 0 .. FB_HEIGHT - 1 : t <= p /\ p < f}
  BY <1>1, <1>2, AlongIs
<1>6. ASSUME NEW p \in Along(l, e, FB_WIDTH) \X Along(t, f, FB_HEIGHT)
      PROVE  p \in Box(x, y, w, h)
  <2>1. /\ p \in Pixels /\ l <= p[1] /\ p[1] < e /\ t <= p[2] /\ p[2] < f
        /\ p[1] \in Int /\ p[2] \in Int
    BY <1>4, <1>5 DEF Pixels
  <2>2. x <= p[1] /\ p[1] < x + w /\ y <= p[2] /\ p[2] < y + h
    BY <1>1, <1>2, <2>1
  <2>. QED BY <2>1, <2>2 DEF Box
<1>. QED BY <1>3, <1>6 DEF l, t

(* The blur, pixel after pixel, changes those that its loops take and no   *)
(* other.                                                                  *)
LEMMA BlurOutside ==
  ASSUME NEW b, DOMAIN b = Pixels, NEW x, NEW y, NEW w, NEW h
  PROVE  SameBut(Blurred(b, x, y, w, h), b,
                 Looped(x + RADIUS, y + RADIUS, w - 2 * RADIUS, h - 2 * RADIUS))
<1> DEFINE inside == Looped(x + RADIUS, y + RADIUS, w - 2 * RADIUS, h - 2 * RADIUS)
           n == FB_WIDTH * FB_HEIGHT
           Step(f, k) == LET p == Nth(k - 1)
                         IN  IF p \in inside THEN [f EXCEPT ![p] = Average(f, p)] ELSE f
           Rec(g, m) == g = [k \in 0 .. m |-> IF k = 0 THEN b ELSE Step(g[k - 1], k)]
           after == CHOOSE g : Rec(g, n)
<1>1. n \in Nat
  <2>1. FB_WIDTH \in Nat /\ FB_HEIGHT \in Nat
    BY FramebufferAssumption
  <2>. QED BY <2>1
<1>2. Blurred(b, x, y, w, h) = after[n]
  BY DEF Blurred
<1>3. ASSUME NEW f, NEW k \in Nat, SameBut(f, b, inside)
      PROVE  SameBut(Step(f, k), b, inside)
  <2> DEFINE p == Nth(k - 1)
  <2> HIDE DEF p, inside
  <2>1. SameBut([f EXCEPT ![p] = Average(f, p)], b, inside) \/ p \notin inside
    BY <1>3 DEF SameBut
  <2>. QED BY <1>3, <2>1 DEF p
<1>4. SameBut(b, b, inside)
  BY DEF SameBut
<1> HIDE DEF n, Step, inside
<1>5. ASSUME NEW m \in Nat, NEW g, Rec(g, m)
      PROVE  \E f : Rec(f, m + 1)
  <2> DEFINE f == [k \in 0 .. m + 1 |-> IF k <= m THEN g[k] ELSE Step(g[m], m + 1)]
  <2>1. ASSUME NEW k \in 0 .. m + 1
        PROVE  f[k] = IF k = 0 THEN b ELSE Step(f[k - 1], k)
    <3>1. CASE k = 0
      <4>1. k <= m /\ k \in 0 .. m
        BY <3>1
      <4>2. g[k] = b
        BY <1>5, <3>1, <4>1
      <4>. QED BY <3>1, <4>1, <4>2
    <3>2. CASE k # 0 /\ k <= m
      <4>1. k \in 0 .. m /\ k - 1 \in 0 .. m + 1 /\ k - 1 <= m
        BY <3>2
      <4>2. g[k] = Step(g[k - 1], k)
        BY <1>5, <3>2, <4>1
      <4>3. f[k] = g[k] /\ f[k - 1] = g[k - 1]
        BY <3>2, <4>1
      <4>. QED BY ONLY <3>2, <4>2, <4>3
    <3>3. CASE ~(k <= m)
      <4>1. k = m + 1 /\ k - 1 = m /\ m \in 0 .. m + 1 /\ m <= m /\ k # 0
        BY <3>3
      <4>2. f[k] = Step(g[m], m + 1)
        BY <3>3
      <4>3. f[m] = g[m]
        BY <4>1
      <4>. QED BY ONLY <4>1, <4>2, <4>3
    <3>. QED BY <3>1, <3>2, <3>3
  <2>2. f = [k \in 0 .. m + 1 |-> f[k]]
    OBVIOUS
  <2> HIDE DEF f
  <2>3. Rec(f, m + 1)
    BY <2>1, <2>2
  <2>. QED BY <2>3
<1>6. \E g : Rec(g, 0)
  <2>1. Rec([k \in 0 .. 0 |-> b], 0)
    OBVIOUS
  <2>. QED BY <2>1
<1>7. \E g : Rec(g, n)
  <2> DEFINE I == {m \in Nat : ~\E g : Rec(g, m)}
             least == Min(I)
  <2> HIDE DEF Rec
  <2> SUFFICES ASSUME I # {} PROVE FALSE
    BY <1>1
  <2>1. least \in I /\ \A m \in I : least <= m
    BY Smallest
  <2> HIDE DEF least
  <2>2. least \in Nat /\ least # 0
    BY <1>6, <2>1
  <2>3. least - 1 \in Nat /\ ~(least <= least - 1) /\ least - 1 + 1 = least
    BY <2>2
  <2>4. PICK g : Rec(g, least - 1)
    BY <2>1, <2>3
  <2>5. \E f : Rec(f, least - 1 + 1)
    BY <1>5, <2>3, <2>4
  <2>. QED BY <2>1, <2>3, <2>5
<1>8. Rec(after, n)
  BY <1>7
<1> HIDE DEF after
<1>9. \A k \in 0 .. n : after[k] = IF k = 0 THEN b ELSE Step(after[k - 1], k)
  BY <1>8
<1>10. \A k \in 0 .. n : SameBut(after[k], b, inside)
  <2> DEFINE I == {k \in 0 .. n : ~SameBut(after[k], b, inside)}
             least == Min(I)
  <2> SUFFICES ASSUME I # {} PROVE FALSE
    OBVIOUS
  <2>0. I \subseteq Nat
    BY <1>1
  <2>1. least \in I /\ \A m \in I : least <= m
    BY <2>0, Smallest
  <2> HIDE DEF least
  <2>2. least \in Nat /\ least \in 0 .. n /\ least # 0
    BY <1>1, <1>4, <1>9, <2>1
  <2>3. least - 1 \in 0 .. n /\ ~(least <= least - 1)
    BY <1>1, <2>2
  <2>4. SameBut(after[least - 1], b, inside)
    BY <2>1, <2>3
  <2>5. SameBut(Step(after[least - 1], least), b, inside)
    BY <1>3, <2>2, <2>4
  <2>. QED BY <1>9, <2>1, <2>2, <2>5
<1>11. SameBut(after[n], b, inside)
  BY <1>1, <1>10
<1>. QED BY <1>2, <1>11 DEF inside

LEMMA OverlaidIs ==
  ASSUME NEW f, NEW b, NEW ps, NEW others, NEW c, NEW alpha,
         SameBut(f, b, others), ps \subseteq others
  PROVE  SameBut(Overlaid(f, ps, c, alpha), b, others)
BY DEF SameBut, Overlaid

(* Every row and column of a panel's border is one of the rectangle's.     *)
LEMMA BordersInside ==
  ASSUME NEW x \in Lefts, NEW y \in Tops, NEW w \in Extents, NEW h \in Extents,
         w # 0, h # 0
  PROVE  /\ \A r \in {y, y + h - 1} :
              Along(x, x + w, FB_WIDTH) \X Line(r, FB_HEIGHT) \subseteq Box(x, y, w, h)
         /\ \A c \in {x, x + w - 1} :
              Line(c, FB_WIDTH) \X Along(y, y + h, FB_HEIGHT) \subseteq Box(x, y, w, h)
<1>1. /\ MAX_INT \in Nat /\ FB_WIDTH \in 0 .. MAX_INT /\ FB_HEIGHT \in 0 .. MAX_INT
      /\ x \in Int /\ -MAX_INT <= x /\ x <= MAX_INT
      /\ y \in Int /\ -MAX_INT <= y /\ y <= MAX_INT
      /\ w \in Nat /\ w <= MAX_INT /\ h \in Nat /\ h <= MAX_INT
  BY Arguments
<1>2. /\ x + w \in Int /\ -MAX_INT <= x + w /\ x + w <= 2 * MAX_INT
      /\ y + h \in Int /\ -MAX_INT <= y + h /\ y + h <= 2 * MAX_INT
      /\ x <= 2 * MAX_INT /\ y <= 2 * MAX_INT
  BY <1>1
<1>3. ASSUME NEW a \in Int, NEW e \in Int, -MAX_INT <= a, a <= 2 * MAX_INT,
             -MAX_INT <= e, e <= 2 * MAX_INT, a <= e, NEW size \in 0 .. MAX_INT
      PROVE  Along(a, e, size) \subseteq {p \in 0 .. size - 1 : a <= p /\ p < e}
  <2>1. a < 0 \/ (a >= 0 /\ e >= 0)
    BY <1>3
  <2>. QED BY <1>3, <2>1, AlongIs
<1>4. ASSUME NEW n \in Int, -MAX_INT <= n, n <= 2 * MAX_INT, NEW size \in 0 .. MAX_INT
      PROVE  Line(n, size) \subseteq {n} \cap (0 .. size - 1)
  <2>1. /\ n >= 0 => U(n) = n
        /\ n < 0 => U(n) \in Nat /\ U(n) > MAX_INT
    BY <1>4, Unsigned
  <2>2. CASE n < 0
    <3>1. U(n) \notin 0 .. size - 1
      BY <1>1, <2>1, <2>2
    <3>. QED BY <3>1 DEF Line
  <2>3. CASE n >= 0
    BY <2>1, <2>3 DEF Line
  <2>. QED BY <2>2, <2>3
<1>5. Along(x, x + w, FB_WIDTH) \subseteq {p \in 0 .. FB_WIDTH - 1 : x <= p /\ p < x + w}
  <2>1. x <= x + w
    BY <1>1
  <2>. QED BY <1>1, <1>2, <1>3, <2>1
<1>6. Along(y, y + h, FB_HEIGHT) \subseteq {p \in 0 .. FB_HEIGHT - 1 : y <= p /\ p < y + h}
  <2>1. y <= y + h
    BY <1>1
  <2>. QED BY <1>1, <1>2, <1>3, <2>1
<1>7. \A r \in {y, y + h - 1} :
        Line(r, FB_HEIGHT) \subseteq {p \in 0 .. FB_HEIGHT - 1 : y <= p /\ p < y + h}
  <2> SUFFICES ASSUME NEW r \in {y, y + h - 1}
               PROVE  Line(r, FB_HEIGHT) \subseteq {p \in 0 .. FB_HEIGHT - 1 : y <= p /\ p < y + h}
    OBVIOUS
  <2>1. r \in Int /\ -MAX_INT <= r /\ r <= 2 * MAX_INT /\ y <= r /\ r < y + h
    BY <1>1
  <2>2. Line(r, FB_HEIGHT) \subseteq {r} \cap (0 .. FB_HEIGHT - 1)
    BY <1>1, <1>4, <2>1
  <2>. QED BY <2>1, <2>2
<1>8. \A c \in {x, x + w - 1} :
        Line(c, FB_WIDTH) \subseteq {p \in 0 .. FB_WIDTH - 1 : x <= p /\ p < x + w}
  <2> SUFFICES ASSUME NEW c \in {x, x + w - 1}
               PROVE  Line(c, FB_WIDTH) \subseteq {p \in 0 .. FB_WIDTH - 1 : x <= p /\ p < x + w}
    OBVIOUS
  <2>1. c \in Int /\ -MAX_INT <= c /\ c <= 2 * MAX_INT /\ x <= c /\ c < x + w
    BY <1>1
  <2>2. Line(c, FB_WIDTH) \subseteq {c} \cap (0 .. FB_WIDTH - 1)
    BY <1>1, <1>4, <2>1
  <2>. QED BY <2>1, <2>2
<1>9. {p \in 0 .. FB_WIDTH - 1 : x <= p /\ p < x + w}
        \X {p \in 0 .. FB_HEIGHT - 1 : y <= p /\ p < y + h} \subseteq Box(x, y, w, h)
  BY DEF Box, Pixels
<1>. QED BY <1>5, <1>6, <1>7, <1>8, <1>9

LEMMA PanelInside ==
  ASSUME NEW b, DOMAIN b = Pixels, NEW o,
         NEW x \in Lefts, NEW y \in Tops, NEW w \in Extents, NEW h \in Extents,
         x + w >= RADIUS, y + h >= RADIUS, w # 0, h # 0
  PROVE  SameBut(Panel(b, x, y, w, h, o), b, Box(x, y, w, h))
<1> DEFINE B == Box(x, y, w, h)
           Row(r)        == Along(x, x + w, FB_WIDTH) \X Line(r, FB_HEIGHT)
           Column(c)     == Line(c, FB_WIDTH) \X Along(y, y + h, FB_HEIGHT)
           Border(f, ps) == Overlaid(f, ps, BORDER, BORDER_ALPHA)
           blurred == Blurred(b, x, y, w, h)
           glass   == Overlaid(blurred, Looped(x, y, w, h), GLASS, o)
           top     == Border(glass, Row(y))
           bottom  == Border(top, Row(y + h - 1))
           left    == Border(bottom, Column(x))
           right   == Border(left, Column(x + w - 1))
<1>1. SameBut(blurred, b, B)
  BY BlurOutside, BlurInside DEF SameBut
<1>2. /\ Looped(x, y, w, h) \subseteq B /\ Row(y) \subseteq B /\ Row(y + h - 1) \subseteq B
      /\ Column(x) \subseteq B /\ Column(x + w - 1) \subseteq B
  BY LoopedIs, BordersInside
<1>3. Panel(b, x, y, w, h, o) = right
  BY DEF Panel
<1> HIDE DEF B, Row, Column, blurred
<1>4. SameBut(glass, b, B)
  BY <1>1, <1>2, OverlaidIs
<1> HIDE DEF glass
<1>5. SameBut(top, b, B)
  BY <1>2, <1>4, OverlaidIs
<1> HIDE DEF top
<1>6. SameBut(bottom, b, B)
  BY <1>2, <1>5, OverlaidIs
<1> HIDE DEF bottom
<1>7. SameBut(left, b, B)
  BY <1>2, <1>6, OverlaidIs
<1> HIDE DEF left
<1>8. SameBut(right, b, B)
  BY <1>2, <1>7, OverlaidIs
<1>. QED BY <1>3, <1>8 DEF B

LEMMA PixelInside ==
  ASSUME NEW b, DOMAIN b = Pixels, NEW c, NEW x \in Lefts, NEW y \in Tops
  PROVE  SameBut(SetPixel(b, x, y, c), b, Box(x, y, 1, 1))
<1>1. MAX_INT \in Nat /\ FB_WIDTH \in 1 .. MAX_INT /\ FB_HEIGHT \in 1 .. MAX_INT
  BY FramebufferAssumption DEF MAX_INT
<1> HIDE DEF MAX_INT
<1>2. x \in -MAX_INT .. MAX_INT /\ y \in -MAX_INT .. MAX_INT
  BY FramebufferAssumption
<1>3. /\ x \in Int /\ -MAX_INT <= x /\ x <= 2 * MAX_INT
      /\ y \in Int /\ -MAX_INT <= y /\ y <= 2 * MAX_INT
  BY <1>1, <1>2
<1>4. /\ x >= 0 => U(x) = x
      /\ x < 0 => U(x) \in Nat /\ U(x) > MAX_INT
      /\ y >= 0 => U(y) = y
      /\ y < 0 => U(y) \in Nat /\ U(y) > MAX_INT
  BY <1>3, Unsigned
<1>5. CASE <<U(x), U(y)>> \in Pixels
  <2>1. U(x) \in 0 .. FB_WIDTH - 1 /\ U(y) \in 0 .. FB_HEIGHT - 1
    BY <1>5 DEF Pixels
  <2>2. ~(x < 0) /\ ~(y < 0)
    BY <1>1, <1>4, <2>1
  <2>3. U(x) = x /\ U(y) = y
    BY <1>3, <1>4, <2>2
  <2>4. <<U(x), U(y)>> \in Box(x, y, 1, 1)
    BY <1>3, <1>5, <2>3 DEF Box
  <2>5. SetPixel(b, x, y, c) = [b EXCEPT ![<<U(x), U(y)>>] = c]
    BY <1>5 DEF SetPixel
  <2>. QED BY <2>4, <2>5 DEF SameBut
<1>6. CASE <<U(x), U(y)>> \notin Pixels
  BY <1>6 DEF SetPixel, SameBut
<1>. QED BY <1>5, <1>6

FbInv == DOMAIN buffer = Pixels /\ StaysInside

LEMMA FbStart == FbInit => FbInv
<1> SUFFICES ASSUME FbInit PROVE FbInv
  OBVIOUS
<1>1. drawn.what = "nothing"
  BY DEF FbInit
<1>. QED BY <1>1 DEF FbInit, FbInv, StaysInside

(* A call that changes pixels of its rectangle only, or is one of the      *)
(* panels left out; and does what a fill has to.                           *)
LEMMA CallStays ==
  ASSUME FbInv, NEW what, what # "nothing", NEW x, NEW y, NEW w, NEW h, NEW c, NEW after,
         Drawing(what, x, y, w, h, c, after), DOMAIN after = Pixels,
         \/ SameBut(after, buffer, Box(x, y, w, h))
         \/ what = "panel" /\ (x + w < RADIUS \/ y + h < RADIUS \/ w = 0 \/ h = 0),
         what = "fill" =>
           IF (x < 0 /\ 0 <= x + w) \/ (y < 0 /\ 0 <= y + h)
           THEN \A p \in Pixels : after[p] = buffer[p]
           ELSE \A p \in Box(x, y, w, h) : after[p] = c
  PROVE  FbInv'
<1> DEFINE d == [what |-> what, before |-> buffer, x |-> x, y |-> y, w |-> w, h |-> h, c |-> c]
           changed == {p \in Pixels : after[p] # buffer[p]}
           short == \/ x + w < RADIUS \/ y + h < RADIUS \/ w = 0 \/ h = 0
           ran == (x < 0 /\ 0 <= x + w) \/ (y < 0 /\ 0 <= y + h)
<1>1. drawn' = d /\ buffer' = after
  BY DEF Drawing
<1>2. /\ d.what = what /\ d.before = buffer /\ d.x = x /\ d.y = y
      /\ d.w = w /\ d.h = h /\ d.c = c
  OBVIOUS
<1>3. Meant(d) = Box(x, y, w, h) /\ (Ran(d) <=> ran)
  BY DEF Meant, Ran, Box
<1> HIDE DEF d
<1>4. ~(what = "panel" /\ short) => changed \subseteq Box(x, y, w, h)
  BY DEF SameBut
<1>5. what = "fill" => IF ran THEN changed = {} ELSE \A p \in Box(x, y, w, h) : after[p] = c
  OBVIOUS
<1>6. {p \in Pixels : buffer'[p] # drawn'.before[p]} = changed
  BY <1>1, <1>2
<1>7. (\/ drawn'.x + drawn'.w < RADIUS \/ drawn'.y + drawn'.h < RADIUS
       \/ drawn'.w = 0 \/ drawn'.h = 0) <=> short
  BY <1>1, <1>2
<1> HIDE DEF changed, short, ran
<1>8. StaysInside'
  BY <1>1, <1>2, <1>3, <1>4, <1>5, <1>6, <1>7 DEF StaysInside
<1>. QED BY <1>1, <1>8 DEF FbInv

LEMMA FbStep == FbInv /\ [FbNext]_fb_vars => FbInv'
<1> SUFFICES ASSUME FbInv, [FbNext]_fb_vars PROVE FbInv'
  OBVIOUS
<1>1. DOMAIN buffer = Pixels
  BY DEF FbInv
<1>2. ASSUME NEW x \in Lefts, NEW y \in Tops, NEW c \in Levels, PutPixel(x, y, c)
      PROVE  FbInv'
  <2>1. SameBut(SetPixel(buffer, x, y, c), buffer, Box(x, y, 1, 1))
    BY <1>1, PixelInside
  <2> DEFINE after == SetPixel(buffer, x, y, c)
  <2>2. Drawing("pixel", x, y, 1, 1, c, after)
    BY <1>2 DEF PutPixel
  <2>3. DOMAIN after = Pixels
    BY <2>1 DEF SameBut
  <2> HIDE DEF after
  <2>. QED BY <2>1, <2>2, <2>3, CallStays DEF after
<1>3. ASSUME NEW x \in Lefts, NEW y \in Tops, NEW c \in Levels,
             NEW w \in Extents, NEW h \in Extents, FillRect(x, y, w, h, c)
      PROVE  FbInv'
  <2> DEFINE after == Filled(buffer, x, y, w, h, c)
             ran == (x < 0 /\ 0 <= x + w) \/ (y < 0 /\ 0 <= y + h)
  <2>1. DOMAIN after = Pixels /\ \A p \in Pixels :
          after[p] = IF p \in Looped(x, y, w, h) THEN c ELSE buffer[p]
    BY DEF Filled
  <2>2. Drawing("fill", x, y, w, h, c, after)
    BY <1>3 DEF FillRect
  <2>3. Looped(x, y, w, h) = IF ran THEN {} ELSE Box(x, y, w, h)
    BY LoopedIs
  <2> HIDE DEF after
  <2>4. SameBut(after, buffer, Box(x, y, w, h))
    BY <2>1, <2>3 DEF SameBut
  <2>5. Box(x, y, w, h) \subseteq Pixels
    BY DEF Box
  <2>6. IF ran THEN \A p \in Pixels : after[p] = buffer[p]
               ELSE \A p \in Box(x, y, w, h) : after[p] = c
    BY <2>1, <2>3, <2>5
  <2>. QED BY <2>1, <2>2, <2>4, <2>6, CallStays
<1>4. ASSUME NEW x \in Lefts, NEW y \in Tops, NEW c \in Levels,
             NEW w \in Extents, NEW h \in Extents, GlassPanel(x, y, w, h, c)
      PROVE  FbInv'
  <2> DEFINE after == Panel(buffer, x, y, w, h, c)
  <2>1. DOMAIN after = Pixels
    BY DEF Panel, Overlaid
  <2>2. Drawing("panel", x, y, w, h, c, after)
    BY <1>4 DEF GlassPanel
  <2>3. CASE x + w < RADIUS \/ y + h < RADIUS \/ w = 0 \/ h = 0
    <3> HIDE DEF after
    <3>. QED BY <2>1, <2>2, <2>3, CallStays
  <2>4. CASE ~(x + w < RADIUS \/ y + h < RADIUS \/ w = 0 \/ h = 0)
    <3>1. x + w >= RADIUS /\ y + h >= RADIUS /\ w # 0 /\ h # 0
      BY <2>4, Arguments
    <3>2. SameBut(after, buffer, Box(x, y, w, h))
      BY <1>1, <3>1, PanelInside
    <3> HIDE DEF after
    <3>. QED BY <2>1, <2>2, <3>2, CallStays
  <2>. QED BY <2>3, <2>4
<1>5. ASSUME NEW x \in Lefts, NEW y \in Tops, NEW c \in Levels,
             NEW w \in Extents, NEW h \in Extents, NEW r \in Radii,
             RoundedRect(x, y, w, h, r, c)
      PROVE  FbInv'
  <2> DEFINE after == Rounded(buffer, x, y, w, h, r, c)
  <2>1. DOMAIN after = Pixels
        /\ \A p \in Pixels \ Looped(x, y, w, h) : after[p] = buffer[p]
    BY DEF Rounded
  <2>2. Drawing("rounded", x, y, w, h, c, after)
    BY <1>5 DEF RoundedRect
  <2> HIDE DEF after
  <2>3. SameBut(after, buffer, Box(x, y, w, h))
    BY <2>1, LoopedIs DEF SameBut
  <2>. QED BY <2>1, <2>2, <2>3, CallStays
<1>6. CASE FbReturn
  <2>1. drawn'.what = "nothing" /\ buffer' = buffer
    BY <1>6 DEF FbReturn
  <2>. QED BY <2>1 DEF FbInv, StaysInside
<1>7. CASE UNCHANGED fb_vars
  BY <1>7 DEF fb_vars, FbInv, StaysInside, Meant, Ran
<1>. QED BY <1>2, <1>3, <1>4, <1>5, <1>6, <1>7 DEF FbNext

(* No primitive of framebuffer.c draws outside the rectangle it is given,  *)
(* and a filled rectangle is filled, for every screen that an int counts   *)
(* and every place and size of the rectangle; the exceptions are those of  *)
(* the property.                                                           *)
THEOREM DrawingStaysInside == FbSpec => []StaysInside
<1>1. FbInv => StaysInside
  BY DEF FbInv
<1>. QED BY <1>1, FbStart, FbStep, PTL DEF FbSpec

-----------------------------------------------------------------------------
(* The store.  A sum exists and grows by what is added to one of its       *)
(* terms.                                                                  *)
IsSum(f, s, n) ==
  /\ f \in [0 .. n -> Nat] /\ f[0] = 0
  /\ \A k \in 1 .. n : f[k] = f[k - 1] + s[k]

LEMMA SumExists ==
  ASSUME NEW n \in Nat, NEW s \in [1 .. n -> Nat]
  PROVE  /\ \A m \in 0 .. n : \E f : IsSum(f, s, m)
         /\ \E f : IsSum(f, s, n) /\ SumOf(s) = f[n]
<1> DEFINE I == {m \in 0 .. n : ~\E f : IsSum(f, s, m)}
           least == Min(I)
<1>1. ASSUME I # {} PROVE FALSE
  <2>0. I \subseteq Nat
    OBVIOUS
  <2>1. least \in I /\ \A m \in I : least <= m
    BY <1>1, <2>0, Smallest
  <2> HIDE DEF least
  <2>2. IsSum([k \in 0 .. 0 |-> 0], s, 0)
    BY DEF IsSum
  <2>3. least \in Nat /\ least <= n /\ least # 0
    BY <2>1, <2>2
  <2>4. least - 1 \in 0 .. n /\ ~(least <= least - 1)
    BY <2>3
  <2>5. PICK g : IsSum(g, s, least - 1)
    BY <2>1, <2>4
  <2> DEFINE f == [k \in 0 .. least |-> IF k < least THEN g[k] ELSE g[least - 1] + s[least]]
  <2>6. g \in [0 .. least - 1 -> Nat] /\ g[0] = 0
        /\ \A k \in 1 .. least - 1 : g[k] = g[k - 1] + s[k]
    BY <2>5 DEF IsSum
  <2>7. least - 1 \in 0 .. least - 1 /\ least \in 1 .. n
    BY <2>3
  <2>8. g[least - 1] \in Nat /\ s[least] \in Nat
    BY <2>6, <2>7
  <2>9. f \in [0 .. least -> Nat]
    <3> SUFFICES ASSUME NEW k \in 0 .. least
                 PROVE  (IF k < least THEN g[k] ELSE g[least - 1] + s[least]) \in Nat
      OBVIOUS
    <3>1. k < least => k \in 0 .. least - 1
      BY <2>3
    <3>. QED BY <2>6, <2>8, <3>1
  <2>10. f[0] = 0
    BY <2>3, <2>6
  <2>11. ASSUME NEW k \in 1 .. least PROVE f[k] = f[k - 1] + s[k]
    <3>1. k \in 0 .. least /\ k - 1 \in 0 .. least /\ k - 1 < least
      BY <2>3
    <3>2. f[k - 1] = g[k - 1]
      BY <3>1
    <3>3. CASE k < least
      <4>1. k \in 1 .. least - 1 /\ f[k] = g[k]
        BY <2>3, <3>1, <3>3
      <4>. QED BY <2>6, <3>2, <4>1
    <3>4. CASE k = least
      BY <3>1, <3>2, <3>4
    <3>. QED BY <2>3, <3>3, <3>4
  <2> HIDE DEF f
  <2>12. IsSum(f, s, least)
    BY <2>9, <2>10, <2>11 DEF IsSum
  <2>. QED BY <2>1, <2>12
<1>2. \A m \in 0 .. n : \E f : IsSum(f, s, m)
  BY <1>1
<1>3. s \in Seq(Nat) /\ Len(s) = n
  BY ListOfLen
<1> DEFINE Rec(f) == f = [k \in 0 .. Len(s) |-> IF k = 0 THEN 0 ELSE f[k - 1] + s[k]]
           sum == CHOOSE f : Rec(f)
<1>4. SumOf(s) = sum[n]
  BY <1>3 DEF SumOf
<1>5. PICK f : IsSum(f, s, n)
  BY <1>2
<1>6. ASSUME NEW k \in 0 .. n
      PROVE  f[k] = IF k = 0 THEN 0 ELSE f[k - 1] + s[k]
  <2>1. k = 0 \/ k \in 1 .. n
    OBVIOUS
  <2>. QED BY <1>5, <2>1 DEF IsSum
<1>7. f = [k \in 0 .. n |-> f[k]]
  BY <1>5 DEF IsSum
<1>8. Rec(f)
  BY <1>3, <1>6, <1>7
<1>9. Rec(sum)
  BY <1>8
<1> HIDE DEF sum
<1>10. DOMAIN sum = 0 .. n /\ \A k \in 0 .. n : sum[k] = IF k = 0 THEN 0 ELSE sum[k - 1] + s[k]
  BY <1>3, <1>9
<1>11. \A k \in 0 .. n : sum[k] = f[k]
  <2> DEFINE J == {k \in 0 .. n : sum[k] # f[k]}
             first == Min(J)
  <2> SUFFICES ASSUME J # {} PROVE FALSE
    OBVIOUS
  <2>0. J \subseteq Nat
    OBVIOUS
  <2>1. first \in J /\ \A k \in J : first <= k
    BY <2>0, Smallest
  <2> HIDE DEF first
  <2>2. first \in 0 .. n /\ first # 0
    BY <1>6, <1>10, <2>1
  <2>3. first - 1 \in 0 .. n /\ ~(first <= first - 1)
    BY <2>2
  <2>4. sum[first - 1] = f[first - 1]
    BY <2>1, <2>3
  <2>. QED BY <1>6, <1>10, <2>1, <2>2, <2>4
<1>. QED BY <1>2, <1>4, <1>5, <1>11

(* t is s with its i-th term raised by a.                                  *)
Raised(t, s, n, i, a) ==
  /\ s \in [1 .. n -> Nat] /\ t \in [1 .. n -> Nat] /\ i \in 1 .. n /\ a \in Int
  /\ t[i] = s[i] + a /\ \A k \in 1 .. n : k # i => t[k] = s[k]

LEMMA SumChanges ==
  ASSUME NEW n \in Nat, NEW t, NEW s, NEW i, NEW a, Raised(t, s, n, i, a)
  PROVE  SumOf(s) \in Nat /\ SumOf(t) \in Nat /\ SumOf(t) = SumOf(s) + a
<1>0. /\ s \in [1 .. n -> Nat] /\ t \in [1 .. n -> Nat] /\ i \in 1 .. n /\ a \in Int
      /\ t[i] = s[i] + a /\ \A k \in 1 .. n : k # i => t[k] = s[k]
  BY DEF Raised
<1>1. PICK f : IsSum(f, s, n) /\ SumOf(s) = f[n]
  BY <1>0, SumExists
<1>2. PICK g : IsSum(g, t, n) /\ SumOf(t) = g[n]
  BY <1>0, SumExists
<1>3. /\ \A k \in 0 .. n : f[k] \in Nat /\ g[k] \in Nat
      /\ f[0] = 0 /\ g[0] = 0
      /\ \A k \in 1 .. n : f[k] = f[k - 1] + s[k] /\ g[k] = g[k - 1] + t[k]
  BY <1>1, <1>2 DEF IsSum
<1>4. \A k \in 0 .. n : g[k] = IF k < i THEN f[k] ELSE f[k] + a
  <2> DEFINE J == {k \in 0 .. n : g[k] # IF k < i THEN f[k] ELSE f[k] + a}
             first == Min(J)
  <2> SUFFICES ASSUME J # {} PROVE FALSE
    OBVIOUS
  <2>0. J \subseteq Nat
    OBVIOUS
  <2>1. first \in J /\ \A k \in J : first <= k
    BY <2>0, Smallest
  <2> HIDE DEF first
  <2>2. first \in 0 .. n /\ first # 0
    BY <1>0, <1>3, <2>1
  <2>3. first - 1 \in 0 .. n /\ ~(first <= first - 1) /\ first \in 1 .. n /\ i \in Nat
    BY <1>0, <2>2
  <2>4. g[first - 1] = IF first - 1 < i THEN f[first - 1] ELSE f[first - 1] + a
    BY <2>1, <2>3
  <2>5. f[first] = f[first - 1] + s[first] /\ g[first] = g[first - 1] + t[first]
        /\ f[first - 1] \in Nat /\ s[first] \in Nat
    BY <1>0, <1>3, <2>3
  <2>6. g[first] # IF first < i THEN f[first] ELSE f[first] + a
    BY <2>1
  <2>7. CASE first < i
    <3>1. t[first] = s[first] /\ first - 1 < i
      BY <1>0, <2>3, <2>7
    <3>. QED BY <2>4, <2>5, <2>6, <2>7, <3>1
  <2>8. CASE first = i
    <3>1. first - 1 < i /\ t[first] = s[first] + a
      BY <1>0, <2>3, <2>8
    <3>. QED BY <1>0, <2>3, <2>4, <2>5, <2>6, <2>8, <3>1
  <2>9. CASE first > i
    <3>1. t[first] = s[first] /\ ~(first - 1 < i) /\ ~(first < i)
      BY <1>0, <2>3, <2>9
    <3>. QED BY <1>0, <2>4, <2>5, <2>6, <3>1
  <2>. QED BY <2>3, <2>7, <2>8, <2>9
<1>5. n \in 0 .. n /\ ~(n < i)
  BY <1>0
<1>. QED BY <1>0, <1>1, <1>2, <1>3, <1>4, <1>5

LEMMA SumAppends ==
  ASSUME NEW n \in Nat, NEW s \in [1 .. n -> Nat], NEW t \in [1 .. n + 1 -> Nat],
         \A k \in 1 .. n : t[k] = s[k]
  PROVE  SumOf(s) \in Nat /\ SumOf(t) = SumOf(s) + t[n + 1]
<1>1. PICK f : IsSum(f, s, n) /\ SumOf(s) = f[n]
  BY SumExists
<1>2. PICK g : IsSum(g, t, n + 1) /\ SumOf(t) = g[n + 1]
  BY SumExists
<1>3. /\ \A k \in 0 .. n : f[k] \in Nat
      /\ f[0] = 0 /\ g[0] = 0
      /\ \A k \in 1 .. n : f[k] = f[k - 1] + s[k]
      /\ \A k \in 1 .. n + 1 : g[k] = g[k - 1] + t[k]
  BY <1>1, <1>2 DEF IsSum
<1>4. \A k \in 0 .. n : g[k] = f[k]
  <2> DEFINE J == {k \in 0 .. n : g[k] # f[k]}
             first == Min(J)
  <2> SUFFICES ASSUME J # {} PROVE FALSE
    OBVIOUS
  <2>0. J \subseteq Nat
    OBVIOUS
  <2>1. first \in J /\ \A k \in J : first <= k
    BY <2>0, Smallest
  <2> HIDE DEF first
  <2>2. first \in 0 .. n /\ first # 0
    BY <1>3, <2>1
  <2>3. first - 1 \in 0 .. n /\ ~(first <= first - 1) /\ first \in 1 .. n /\ first \in 1 .. n + 1
    BY <2>2
  <2>4. g[first - 1] = f[first - 1] /\ t[first] = s[first]
    BY <2>1, <2>3
  <2>. QED BY <1>3, <2>1, <2>3, <2>4
<1>5. n \in 0 .. n /\ n + 1 \in 1 .. n + 1 /\ n + 1 - 1 = n
  OBVIOUS
<1>6. g[n + 1] = g[n + 1 - 1] + t[n + 1]
  BY <1>3, <1>5
<1>. QED BY <1>1, <1>2, <1>3, <1>4, <1>5, <1>6

LEMMA SumOfZeros ==
  ASSUME NEW n \in Nat, NEW s \in [1 .. n -> Nat], \A k \in 1 .. n : s[k] = 0
  PROVE  SumOf(s) = 0
<1>1. PICK f : IsSum(f, s, n) /\ SumOf(s) = f[n]
  BY SumExists
<1>2. f[0] = 0 /\ \A k \in 1 .. n : f[k] = f[k - 1] + 0
  BY <1>1 DEF IsSum
<1> DEFINE J == {k \in 0 .. n : f[k] # 0}
           first == Min(J)
<1>3. ASSUME J # {} PROVE FALSE
  <2>0. J \subseteq Nat
    OBVIOUS
  <2>1. first \in J /\ \A k \in J : first <= k
    BY <1>3, <2>0, Smallest
  <2> HIDE DEF first
  <2>2. first \in 0 .. n /\ first # 0
    BY <1>2, <2>1
  <2>3. first - 1 \in 0 .. n /\ ~(first <= first - 1) /\ first \in 1 .. n
    BY <2>2
  <2>4. f[first - 1] = 0
    BY <2>1, <2>3
  <2>. QED BY <1>2, <2>1, <2>3, <2>4
<1>. QED BY <1>1, <1>3

(* The books of a store st whose next application gets the id next.        *)
Categories == {"web", "code", "social", "media", "games", "office", "safety", "tools", "photo"}
Applications ==
  [id : Nat, category : Categories, size : 0 .. 450, developer : Nat, total : Nat,
   votes : Nat, average : Nat \X Nat, installed : BOOLEAN, given : Seq(Nat)]
Accounts == [email : Emails, apps : Nat]
Stores ==
  [apps : Seq(Applications), installed : Seq(Nat), developers : Seq(Accounts),
   current : Nat, broken : BOOLEAN, capacity : {2048}, used : Nat]

Shown(apps)   == {k \in DOMAIN apps : apps[k].installed}
Weights(apps) == [k \in DOMAIN apps |-> IF k \in Shown(apps) THEN apps[k].size ELSE 0]
ByDeveloper(apps, d) == {k \in DOMAIN apps : apps[k].developer = d}
OneEach(s) == \A i, j \in DOMAIN s : s[i] = s[j] => i = j

IdsOK(apps, next) ==
  /\ next \in Nat /\ \A k \in DOMAIN apps : apps[k].id < next
  /\ \A i, j \in DOMAIN apps : apps[i].id = apps[j].id => i = j

ListOK(apps, installed) ==
  /\ OneEach(installed) /\ Len(installed) = Cardinality(Shown(apps))
  /\ ToSet(installed) = {apps[k].id : k \in Shown(apps)}

StorageOK(apps, used) == used = 1024 + SumOf(Weights(apps)) /\ used <= 2048

DevelopersOK(apps, developers) ==
  /\ \A k \in DOMAIN apps : apps[k].developer <= Len(developers)
  /\ \A d \in DOMAIN developers : developers[d].apps = Cardinality(ByDeveloper(apps, d))

BooksOK(st, next) ==
  /\ st \in Stores /\ st.current <= Len(st.developers)
  /\ IdsOK(st.apps, next) /\ ListOK(st.apps, st.installed)
  /\ StorageOK(st.apps, st.used) /\ DevelopersOK(st.apps, st.developers)

LEMMA SizeBounded == \A a \in Applications : a.size \in Nat /\ a.size <= 450
<1>1. \A a \in Applications : a.size \in 0 .. 450
  BY DEF Applications
<1>. QED BY <1>1

LEMMA FlagChanged ==
  \A a \in Applications, flag \in BOOLEAN :
    LET b == [a EXCEPT !.installed = flag]
    IN  /\ b \in Applications /\ b.installed = flag
        /\ b.id = a.id /\ b.size = a.size /\ b.developer = a.developer
<1> SUFFICES ASSUME NEW a \in Applications, NEW flag \in BOOLEAN
             PROVE  LET b == [a EXCEPT !.installed = flag]
                    IN  /\ b \in Applications /\ b.installed = flag
                        /\ b.id = a.id /\ b.size = a.size /\ b.developer = a.developer
  OBVIOUS
<1> DEFINE b == [a EXCEPT !.installed = flag]
<1>1. b \in Applications
  <2> DEFINE Averages == Nat \X Nat
             Reviews == Seq(Nat)
             Weight == 0 .. 450
             Flags == BOOLEAN
  <2>1. Applications = [id : Nat, category : Categories, size : Weight, developer : Nat,
                        total : Nat, votes : Nat, average : Averages, installed : Flags,
                        given : Reviews]
    BY DEF Applications
  <2> HIDE DEF Averages, Reviews, Weight, Flags
  <2>2. flag \in Flags
    BY DEF Flags
  <2>. QED BY <2>1, <2>2
<1>2. DOMAIN a = {"id", "category", "size", "developer", "total", "votes", "average",
                  "installed", "given"}
  BY DEF Applications
<1>3. b.installed = flag
  BY <1>2
<1>4. b.id = a.id /\ b.size = a.size /\ b.developer = a.developer
  OBVIOUS
<1>. QED BY <1>1, <1>3, <1>4

LEMMA WeightsAre ==
  ASSUME NEW apps \in Seq(Applications)
  PROVE  /\ Len(apps) \in Nat /\ DOMAIN apps = 1 .. Len(apps)
         /\ Weights(apps) \in [1 .. Len(apps) -> Nat]
         /\ IsFiniteSet(Shown(apps)) /\ \A d : IsFiniteSet(ByDeveloper(apps, d))
<1>1. /\ Len(apps) \in Nat /\ DOMAIN apps = 1 .. Len(apps)
      /\ \A k \in 1 .. Len(apps) : apps[k] \in Applications
  OBVIOUS
<1>2. \A k \in 1 .. Len(apps) : apps[k].size \in Nat
  BY <1>1, SizeBounded
<1>3. Weights(apps) \in [1 .. Len(apps) -> Nat]
  BY <1>1, <1>2 DEF Weights
<1>4. IsFiniteSet(1 .. Len(apps))
  BY <1>1, FS_Interval
<1>5. Shown(apps) \in SUBSET (1 .. Len(apps))
      /\ \A d : ByDeveloper(apps, d) \in SUBSET (1 .. Len(apps))
  BY <1>1 DEF Shown, ByDeveloper
<1>. QED BY <1>1, <1>3, <1>4, <1>5, FS_Subset

(* One application changes, but for what identifies it.                    *)
AlikeBut(apps2, apps, i) ==
  /\ apps2 \in Seq(Applications) /\ Len(apps2) = Len(apps) /\ i \in DOMAIN apps
  /\ \A k \in DOMAIN apps :
       /\ k # i => apps2[k] = apps[k]
       /\ apps2[k].id = apps[k].id /\ apps2[k].size = apps[k].size
       /\ apps2[k].developer = apps[k].developer

LEMMA AlikeButKeeps ==
  ASSUME NEW apps \in Seq(Applications), NEW apps2, NEW i, AlikeBut(apps2, apps, i), NEW next,
         NEW developers
  PROVE  /\ DOMAIN apps2 = DOMAIN apps
         /\ IdsOK(apps, next) => IdsOK(apps2, next)
         /\ DevelopersOK(apps, developers) => DevelopersOK(apps2, developers)
         /\ {apps2[k].id : k \in Shown(apps2)} = {apps[k].id : k \in Shown(apps2)}
<1>1. DOMAIN apps2 = DOMAIN apps
  BY WeightsAre DEF AlikeBut
<1>2. \A d : ByDeveloper(apps2, d) = ByDeveloper(apps, d)
  BY <1>1 DEF AlikeBut, ByDeveloper
<1>3. \A k \in Shown(apps2) : apps2[k].id = apps[k].id
  BY <1>1 DEF AlikeBut, Shown
<1>4. IdsOK(apps, next) => IdsOK(apps2, next)
  BY <1>1 DEF IdsOK, AlikeBut
<1>5. DevelopersOK(apps, developers) => DevelopersOK(apps2, developers)
  BY <1>1, <1>2 DEF DevelopersOK, AlikeBut
<1>. QED BY <1>1, <1>3, <1>4, <1>5

LEMMA FlagSet ==
  ASSUME NEW apps \in Seq(Applications), NEW apps2, NEW i, AlikeBut(apps2, apps, i),
         ~apps[i].installed, apps2[i].installed
  PROVE  /\ Shown(apps2) = Shown(apps) \cup {i} /\ i \notin Shown(apps)
         /\ SumOf(Weights(apps)) \in Nat
         /\ SumOf(Weights(apps2)) = SumOf(Weights(apps)) + apps[i].size
<1>1. DOMAIN apps2 = DOMAIN apps /\ apps2 \in Seq(Applications) /\ Len(apps2) = Len(apps)
      /\ i \in 1 .. Len(apps) /\ DOMAIN apps = 1 .. Len(apps) /\ Len(apps) \in Nat
  BY WeightsAre DEF AlikeBut
<1>2. Shown(apps2) = Shown(apps) \cup {i} /\ i \notin Shown(apps)
  BY <1>1 DEF Shown, AlikeBut
<1> DEFINE s == Weights(apps)
           t == Weights(apps2)
<1>3. /\ \A k \in 1 .. Len(apps) : k # i => t[k] = s[k]
      /\ s[i] = 0 /\ t[i] = apps[i].size
  BY <1>1, <1>2 DEF Weights, AlikeBut
<1>4. s \in [1 .. Len(apps) -> Nat] /\ t \in [1 .. Len(apps) -> Nat]
  BY <1>1, WeightsAre
<1>5. apps[i].size \in Nat
  <2>1. apps[i] \in Applications
    BY <1>1
  <2>. QED BY <2>1, SizeBounded
<1> HIDE DEF s, t
<1>6. t[i] = s[i] + apps[i].size
  BY <1>3, <1>5
<1>7. SumOf(s) \in Nat /\ SumOf(t) = SumOf(s) + apps[i].size
  <2> DEFINE n == Len(apps)
             a == apps[i].size
  <2>1. n \in Nat /\ i \in 1 .. n /\ a \in Int
    BY <1>1, <1>5
  <2>2. s \in [1 .. n -> Nat] /\ t \in [1 .. n -> Nat]
    BY <1>4
  <2>3. \A k \in 1 .. n : k # i => t[k] = s[k]
    BY <1>3
  <2>4. t[i] = s[i] + a /\ t[i] \in Nat
    BY <1>6, <2>1, <2>2
  <2> HIDE DEF n, a
  <2>5. Raised(t, s, n, i, a)
    BY ONLY <2>1, <2>2, <2>3, <2>4 DEF Raised
  <2>6. SumOf(s) \in Nat /\ SumOf(t) = SumOf(s) + a
    BY ONLY <2>1, <2>5, SumChanges
  <2>. QED BY <2>6 DEF a
<1>. QED BY <1>2, <1>7 DEF s, t

LEMMA FlagCleared ==
  ASSUME NEW apps \in Seq(Applications), NEW apps2, NEW i, AlikeBut(apps2, apps, i),
         apps[i].installed, ~apps2[i].installed
  PROVE  /\ Shown(apps2) = Shown(apps) \ {i} /\ i \in Shown(apps)
         /\ SumOf(Weights(apps)) \in Nat /\ SumOf(Weights(apps2)) \in Nat
         /\ SumOf(Weights(apps2)) = SumOf(Weights(apps)) - apps[i].size
<1>1. DOMAIN apps2 = DOMAIN apps /\ apps2 \in Seq(Applications) /\ Len(apps2) = Len(apps)
      /\ i \in 1 .. Len(apps) /\ DOMAIN apps = 1 .. Len(apps) /\ Len(apps) \in Nat
  BY WeightsAre DEF AlikeBut
<1>2. AlikeBut(apps, apps2, i)
  BY <1>1 DEF AlikeBut
<1>3. Shown(apps) = Shown(apps2) \cup {i} /\ i \notin Shown(apps2)
      /\ SumOf(Weights(apps2)) \in Nat
      /\ SumOf(Weights(apps)) = SumOf(Weights(apps2)) + apps2[i].size
  BY <1>1, <1>2, FlagSet
<1>4. apps2[i].size = apps[i].size /\ apps[i].size \in Nat
  <2>1. apps[i] \in Applications
    BY <1>1
  <2>. QED BY <1>1, <2>1, SizeBounded DEF AlikeBut
<1>. QED BY <1>3, <1>4

LEMMA FlagKept ==
  ASSUME NEW apps \in Seq(Applications), NEW apps2, NEW i, AlikeBut(apps2, apps, i),
         apps2[i].installed = apps[i].installed
  PROVE  Shown(apps2) = Shown(apps) /\ Weights(apps2) = Weights(apps)
<1>1. DOMAIN apps2 = DOMAIN apps
  BY WeightsAre DEF AlikeBut
<1>2. Shown(apps2) = Shown(apps)
  BY <1>1 DEF Shown, AlikeBut
<1>. QED BY <1>1, <1>2 DEF Weights, AlikeBut

(* The list of ids without one of them: the last takes its place.          *)
LEMMA SwappedOutIs ==
  ASSUME NEW s \in Seq(Nat), OneEach(s), NEW id \in ToSet(s)
  PROVE  /\ SwappedOut(s, id) \in Seq(Nat) /\ OneEach(SwappedOut(s, id))
         /\ Len(s) > 0 /\ Len(SwappedOut(s, id)) = Len(s) - 1
         /\ ToSet(SwappedOut(s, id)) = ToSet(s) \ {id}
<1> DEFINE n == Len(s)
           I == {i \in 1 .. Len(s) : s[i] = id}
           k == Min(I)
           q == [s EXCEPT ![k] = s[n]]
           t == SubSeq(q, 1, n - 1)
<1>1. n \in Nat /\ DOMAIN s = 1 .. n /\ s \in [1 .. n -> Nat] /\ Len(s) = n
  OBVIOUS
<1>2. PICK j \in 1 .. n : s[j] = id
  BY <1>1 DEF ToSet
<1>3. I # {} /\ I \subseteq Nat
  BY <1>1, <1>2
<1>4. k \in 1 .. n /\ s[k] = id
  <2>1. k \in I
    BY <1>3, Smallest
  <2>. QED BY <2>1
<1>5. SelectInSeq(s, LAMBDA entry : entry = id) = k
  BY <1>3 DEF SelectInSeq
<1>6. n > 0 /\ n \in 1 .. n /\ k # 0
  BY <1>1, <1>4
<1>7. Last(s) = s[n]
  BY DEF Last
<1>8. q \in [1 .. n -> Nat] /\ \A i \in 1 .. n : q[i] = IF i = k THEN s[n] ELSE s[i]
  BY <1>1, <1>4, <1>6
<1>9. q \in Seq(Nat) /\ Len(q) = n
  <2> HIDE DEF q
  <2>. QED BY <1>1, <1>8, ListOfLen
<1>10. SwappedOut(s, id) = t
  BY <1>5, <1>6, <1>7, <1>9 DEF SwappedOut, Front
<1> HIDE DEF n, I, k, q
<1>11. t \in Seq(Nat) /\ Len(t) = n - 1 /\ \A i \in 1 .. n - 1 : t[i] = q[i]
  <2>1. n - 1 \in Nat /\ n - 1 <= Len(q) /\ n - 1 >= 0
    BY <1>1, <1>6, <1>9
  <2>2. /\ t \in Seq(Nat) /\ Len(t) = IF 1 <= n - 1 THEN n - 1 - 1 + 1 ELSE 0
        /\ \A i \in 1 .. n - 1 - 1 + 1 : t[i] = q[1 + i - 1]
    BY ONLY <1>9, <2>1, SubSeqProperties
  <2>. QED BY <2>1, <2>2
<1> HIDE DEF t
<1>12. DOMAIN t = 1 .. n - 1 /\ \A i \in 1 .. n - 1 : t[i] = IF i = k THEN s[n] ELSE s[i]
  <2>1. DOMAIN t = 1 .. n - 1
    BY <1>11
  <2>2. \A i \in 1 .. n - 1 : i \in 1 .. n
    BY <1>1
  <2>. QED BY <1>8, <1>11, <2>1, <2>2
<1>13. \A i, e \in 1 .. n : s[i] = s[e] => i = e
  BY <1>1 DEF OneEach
<1>14. OneEach(t)
  <2> SUFFICES ASSUME NEW i \in 1 .. n - 1, NEW e \in 1 .. n - 1, t[i] = t[e] PROVE i = e
    BY <1>12 DEF OneEach
  <2>1. i \in 1 .. n /\ e \in 1 .. n /\ i # n /\ e # n
    BY <1>1
  <2>. QED BY <1>6, <1>12, <1>13, <2>1
<1>15. ASSUME NEW v \in ToSet(t) PROVE v \in ToSet(s) \ {id}
  <2>1. PICK i \in 1 .. n - 1 : v = t[i]
    BY <1>12 DEF ToSet
  <2>2. i \in 1 .. n /\ i # n
    BY <1>1
  <2>3. CASE i = k
    <3>1. v = s[n] /\ s[n] # id
      BY <1>4, <1>6, <1>12, <1>13, <2>1, <2>2, <2>3
    <3>. QED BY <1>1, <1>6, <3>1 DEF ToSet
  <2>4. CASE i # k
    <3>1. v = s[i] /\ s[i] # id
      BY <1>4, <1>12, <1>13, <2>1, <2>2, <2>4
    <3>. QED BY <1>1, <2>2, <3>1 DEF ToSet
  <2>. QED BY <2>3, <2>4
<1>16. ASSUME NEW v \in ToSet(s) \ {id} PROVE v \in ToSet(t)
  <2>1. PICK i \in 1 .. n : v = s[i]
    BY <1>1 DEF ToSet
  <2>2. i # k
    BY <1>4, <2>1
  <2>3. CASE i = n
    <3>1. k \in 1 .. n - 1
      BY <1>1, <1>4, <2>2, <2>3
    <3>2. t[k] = v
      BY <1>12, <2>1, <2>3, <3>1
    <3>. QED BY <1>12, <3>1, <3>2 DEF ToSet
  <2>4. CASE i # n
    <3>1. i \in 1 .. n - 1
      BY <1>1, <2>4
    <3>2. t[i] = v
      BY <1>12, <2>1, <2>2, <3>1
    <3>. QED BY <1>12, <3>1, <3>2 DEF ToSet
  <2>. QED BY <2>3, <2>4
<1>17. ToSet(t) = ToSet(s) \ {id}
  BY <1>15, <1>16
<1>. QED BY <1>6, <1>10, <1>11, <1>14, <1>17 DEF n

PlaceOf(apps, id) == SelectInSeq(apps, LAMBDA app : app.id = id)

LEMMA PlaceFound ==
  ASSUME NEW apps \in Seq(Applications), NEW id,
         NEW k, k = PlaceOf(apps, id), k # 0
  PROVE  k \in DOMAIN apps /\ apps[k] \in Applications /\ apps[k].id = id
<1> DEFINE I == {i \in 1 .. Len(apps) : apps[i].id = id}
<1>1. k = IF I # {} THEN Min(I) ELSE 0
  BY DEF SelectInSeq, PlaceOf
<1>2. I # {} /\ I \subseteq Nat
  BY <1>1
<1>3. k \in I
  BY <1>1, <1>2, Smallest
<1>4. k \in 1 .. Len(apps) /\ apps[k].id = id
  BY <1>3
<1>5. DOMAIN apps = 1 .. Len(apps) /\ apps[k] \in Applications
  BY <1>4
<1> HIDE DEF I
<1>. QED BY <1>4, <1>5

LEMMA CatalogueIs ==
  /\ Catalogue \in Seq(Categories \X (0 .. 450) \X Nat) /\ Len(Catalogue) = 25
  /\ DOMAIN Catalogue = 1 .. 25
  /\ \A k \in 1 .. 25 : Catalogue[k] \in Categories \X (0 .. 450) \X Nat
<1>1. Catalogue \in Seq(Categories \X (0 .. 450) \X Nat) /\ Len(Catalogue) = 25
      /\ DOMAIN Catalogue = 1 .. 25
  BY DEF Catalogue, Categories
<1> DEFINE X == Categories \X (0 .. 450) \X Nat
<1>2. Catalogue \in Seq(X) /\ Len(Catalogue) = 25
  BY <1>1
<1> HIDE DEF X
<1>3. \A k \in 1 .. 25 : Catalogue[k] \in X
  <2>1. Catalogue \in [1 .. Len(Catalogue) -> X]
    BY ONLY <1>2, SeqDef, LenProperties
  <2>. QED BY ONLY <1>2, <2>1
<1>. QED BY <1>1, <1>3 DEF X

LEMMA ListedIs ==
  ASSUME NEW id \in Nat, NEW category \in Categories, NEW size \in 0 .. 450,
         NEW developer \in Nat, NEW votes \in Nat, NEW average \in Nat \X Nat
  PROVE  /\ Listed(id, category, size, developer, votes, average) \in Applications
         /\ Listed(id, category, size, developer, votes, average).id = id
         /\ Listed(id, category, size, developer, votes, average).developer = developer
         /\ ~Listed(id, category, size, developer, votes, average).installed
BY DEF Listed, Applications

(* A store just opened has everything to sell and nothing sold.            *)
LEMMA OpenedOK ==
  ASSUME NEW next \in Nat
  PROVE  BooksOK(Opened(next), next + Len(Catalogue))
<1> DEFINE st == Opened(next)
           a  == st.apps
<1>1. /\ Len(Catalogue) = 25 /\ DOMAIN Catalogue = 1 .. 25
      /\ \A k \in 1 .. 25 : Catalogue[k] \in Categories \X (0 .. 450) \X Nat
  BY CatalogueIs
<1>2. a = [k \in 1 .. 25 |-> Added(Catalogue[k], next + k - 1)]
  BY <1>1 DEF Opened
<1>3. st.installed = <<>> /\ st.developers = <<>> /\ st.current = 0 /\ st.broken = FALSE
      /\ st.capacity = 2048 /\ st.used = 1024
      /\ st = [apps |-> a, installed |-> <<>>, developers |-> <<>>, current |-> 0,
               broken |-> FALSE, capacity |-> 2048, used |-> 1024]
  BY DEF Opened, NOBODY, WORD_MB
<1> HIDE DEF st, a
<1>4. ASSUME NEW k \in 1 .. 25
      PROVE  /\ a[k] \in Applications /\ a[k].id = next + k - 1
             /\ a[k].developer = 0 /\ ~a[k].installed
  <2> DEFINE e == Catalogue[k]
  <2>1. e[1] \in Categories /\ e[2] \in 0 .. 450 /\ e[3] \in Nat /\ <<e[3], 10>> \in Nat \X Nat
    BY <1>1
  <2>2. next + k - 1 \in Nat
    OBVIOUS
  <2> HIDE DEF e
  <2>3. a[k] = Listed(next + k - 1, e[1], e[2], 0, e[3], <<e[3], 10>>)
    BY <1>2 DEF e, Added, NOBODY
  <2>4. Listed(next + k - 1, e[1], e[2], 0, e[3], <<e[3], 10>>) \in Applications
    BY <2>1, <2>2, ListedIs
  <2>5. /\ a[k].id = next + k - 1 /\ a[k].developer = 0 /\ a[k].installed = FALSE
    BY <2>3 DEF Listed
  <2>. QED BY <2>3, <2>4, <2>5
<1>5. a \in [1 .. 25 -> Applications]
  <2>1. a = [k \in 1 .. 25 |-> a[k]]
    BY <1>2
  <2>. QED BY <1>4, <2>1
<1>6. a \in Seq(Applications) /\ Len(a) = 25 /\ DOMAIN a = 1 .. 25
  BY <1>5, ListOfLen
<1>7. IdsOK(a, next + 25)
  <2>1. next + 25 \in Nat
    OBVIOUS
  <2>2. \A k \in 1 .. 25 : next + k - 1 < next + 25
    OBVIOUS
  <2>3. \A i, j \in 1 .. 25 : next + i - 1 = next + j - 1 => i = j
    OBVIOUS
  <2>4. \A k \in 1 .. 25 : a[k].id = next + k - 1
    BY <1>4
  <2>5. \A k \in 1 .. 25 : a[k].id < next + 25
    BY <2>2, <2>4
  <2>6. \A i, j \in 1 .. 25 : a[i].id = a[j].id => i = j
    <3> SUFFICES ASSUME NEW i \in 1 .. 25, NEW j \in 1 .. 25, a[i].id = a[j].id PROVE i = j
      OBVIOUS
    <3>1. a[i].id = next + i - 1 /\ a[j].id = next + j - 1
      BY <2>4
    <3>. QED BY <3>1, <2>3
  <2>. QED BY <1>6, <2>1, <2>5, <2>6 DEF IdsOK
<1>8. Shown(a) = {}
  BY <1>4, <1>6 DEF Shown
<1>9. ListOK(a, <<>>)
  <2>1. Len(<<>>) = 0 /\ DOMAIN <<>> = {} /\ Cardinality({}) = 0
    BY FS_EmptySet
  <2>2. ToSet(<<>>) = {}
    BY <2>1 DEF ToSet
  <2>. QED BY <1>8, <2>1, <2>2 DEF ListOK, OneEach
<1>10. StorageOK(a, 1024)
  <2>1. Weights(a) \in [1 .. 25 -> Nat] /\ \A k \in 1 .. 25 : Weights(a)[k] = 0
    <3>1. Weights(a) = [k \in 1 .. 25 |-> 0]
      BY <1>6, <1>8 DEF Weights
    <3>. QED BY <3>1
  <2>2. SumOf(Weights(a)) = 0
    BY <2>1, SumOfZeros
  <2>. QED BY <2>2 DEF StorageOK
<1>11. DevelopersOK(a, <<>>)
  <2>1. Len(<<>>) = 0 /\ DOMAIN <<>> = {}
    OBVIOUS
  <2>2. \A k \in DOMAIN a : a[k].developer <= Len(<<>>)
    <3> SUFFICES ASSUME NEW k \in 1 .. 25 PROVE a[k].developer <= Len(<<>>)
      BY <1>6
    <3>1. a[k].developer = 0
      BY <1>4
    <3>. QED BY <2>1, <3>1
  <2>. QED BY <2>1, <2>2 DEF DevelopersOK
<1>12. st \in Stores /\ st.current <= Len(st.developers)
  <2>1. <<>> \in Seq(Nat) /\ <<>> \in Seq(Accounts) /\ Len(<<>>) = 0
    OBVIOUS
  <2>. QED BY <1>3, <1>6, <2>1 DEF Stores
<1>13. BooksOK(st, next + 25)
  BY <1>3, <1>7, <1>9, <1>10, <1>11, <1>12 DEF BooksOK, a
<1>. QED BY <1>1, <1>13 DEF st

StoreInv == BooksOK(store, store_next)

LEMMA StoreIs ==
  ASSUME StoreInv
  PROVE  /\ store \in Stores /\ store.apps \in Seq(Applications)
         /\ store.installed \in Seq(Nat) /\ store.developers \in Seq(Accounts)
         /\ store.current \in Nat /\ store.current <= Len(store.developers)
         /\ store.capacity = 2048 /\ store.used \in Nat
         /\ IdsOK(store.apps, store_next) /\ ListOK(store.apps, store.installed)
         /\ StorageOK(store.apps, store.used) /\ DevelopersOK(store.apps, store.developers)
BY DEF StoreInv, BooksOK, Stores

LEMMA DeveloperIs ==
  ASSUME NEW apps \in Seq(Applications), NEW k \in DOMAIN apps
  PROVE  apps[k].developer \in Nat
<1>1. \A a \in Applications : a.developer \in Nat
  BY DEF Applications
<1>2. apps[k] \in Applications
  OBVIOUS
<1>. QED BY <1>1, <1>2

LEMMA IdIs ==
  ASSUME NEW apps \in Seq(Applications), NEW k \in DOMAIN apps
  PROVE  apps[k].id \in Nat
<1>1. \A a \in Applications : a.id \in Nat
  BY DEF Applications
<1>2. apps[k] \in Applications
  OBVIOUS
<1>. QED BY <1>1, <1>2

(* A developer's count goes up by one.                                     *)
LEMMA CountedUp ==
  ASSUME NEW dev \in Seq(Accounts), NEW c \in DOMAIN dev
  PROVE  LET dev2 == [dev EXCEPT ![c].apps = @ + 1]
         IN  /\ dev2 \in Seq(Accounts) /\ Len(dev2) = Len(dev) /\ DOMAIN dev2 = 1 .. Len(dev)
             /\ dev[c].apps \in Nat /\ dev2[c].apps = dev[c].apps + 1
             /\ \A d \in 1 .. Len(dev) : d # c => dev2[d].apps = dev[d].apps
<1> DEFINE b == [dev[c] EXCEPT !.apps = @ + 1]
           dev2 == [dev EXCEPT ![c].apps = @ + 1]
<1>1. /\ Len(dev) \in Nat /\ DOMAIN dev = 1 .. Len(dev)
      /\ \A d \in 1 .. Len(dev) : dev[d] \in Accounts
  OBVIOUS
<1>2. dev[c] \in Accounts
  BY <1>1
<1>3. dev[c].apps \in Nat /\ b \in Accounts /\ b.apps = dev[c].apps + 1
  BY <1>2 DEF Accounts
<1>4. /\ DOMAIN dev2 = 1 .. Len(dev) /\ dev2[c] = b
      /\ \A d \in 1 .. Len(dev) : d # c => dev2[d] = dev[d]
      /\ dev2 = [d \in 1 .. Len(dev) |-> dev2[d]]
  BY <1>1
<1> HIDE DEF b, dev2
<1>5. dev2 \in [1 .. Len(dev) -> Accounts]
  BY <1>1, <1>3, <1>4
<1>6. dev2 \in Seq(Accounts) /\ Len(dev2) = Len(dev)
  BY <1>1, <1>5, ListOfLen
<1>7. /\ dev2 \in Seq(Accounts) /\ Len(dev2) = Len(dev) /\ DOMAIN dev2 = 1 .. Len(dev)
      /\ dev[c].apps \in Nat /\ dev2[c].apps = dev[c].apps + 1
      /\ \A d \in 1 .. Len(dev) : d # c => dev2[d].apps = dev[d].apps
  BY <1>3, <1>4, <1>6
<1>. QED BY <1>7 DEF dev2

(* A flag is set or cleared in the catalogue.                              *)
LEMMA FlagPut ==
  ASSUME NEW apps \in Seq(Applications), NEW k \in DOMAIN apps, NEW flag \in BOOLEAN
  PROVE  LET apps2 == [apps EXCEPT ![k].installed = flag]
         IN  AlikeBut(apps2, apps, k) /\ apps2[k].installed = flag
<1> DEFINE apps2 == [apps EXCEPT ![k].installed = flag]
           b     == [apps[k] EXCEPT !.installed = flag]
<1>1. /\ Len(apps) \in Nat /\ DOMAIN apps = 1 .. Len(apps)
      /\ \A j \in 1 .. Len(apps) : apps[j] \in Applications
  OBVIOUS
<1>2. apps[k] \in Applications
  BY <1>1
<1>3. /\ b \in Applications /\ b.installed = flag
      /\ b.id = apps[k].id /\ b.size = apps[k].size /\ b.developer = apps[k].developer
  BY <1>2, FlagChanged
<1>4. /\ DOMAIN apps2 = 1 .. Len(apps) /\ apps2[k] = b
      /\ \A j \in DOMAIN apps : j # k => apps2[j] = apps[j]
      /\ apps2 = [j \in 1 .. Len(apps) |-> apps2[j]]
  BY <1>1
<1> HIDE DEF apps2, b
<1>5. apps2 \in [1 .. Len(apps) -> Applications]
  BY <1>1, <1>3, <1>4
<1>6. apps2 \in Seq(Applications) /\ Len(apps2) = Len(apps)
  BY <1>1, <1>5, ListOfLen
<1>7. AlikeBut(apps2, apps, k) /\ apps2[k].installed = flag
  BY <1>3, <1>4, <1>6 DEF AlikeBut
<1>. QED BY <1>7 DEF apps2

(* What an operation makes of the record.                                 *)
IsStore(st, apps, installed, developers, current, used) ==
  /\ st \in Stores /\ st.apps = apps /\ st.installed = installed
  /\ st.developers = developers /\ st.current = current /\ st.used = used

LEMMA StoreChanges ==
  \A s \in Stores, a \in Seq(Applications), l \in Seq(Nat), d \in Seq(Accounts),
     c, u \in Nat : \A t :
    /\ t = [s EXCEPT !.apps = a, !.installed = l, !.used = u]
         => IsStore(t, a, l, s.developers, s.current, u)
    /\ t = [s EXCEPT !.apps = a]
         => IsStore(t, a, s.installed, s.developers, s.current, s.used)
    /\ t = [s EXCEPT !.apps = a, !.developers = d]
         => IsStore(t, a, s.installed, d, s.current, s.used)
    /\ t = [s EXCEPT !.developers = d]
         => IsStore(t, s.apps, s.installed, d, s.current, s.used)
    /\ t = [s EXCEPT !.current = c]
         => IsStore(t, s.apps, s.installed, s.developers, c, s.used)
    /\ t = [s EXCEPT !.broken = TRUE]
         => IsStore(t, s.apps, s.installed, s.developers, s.current, s.used)
<1> DEFINE A == Seq(Applications)
           L == Seq(Nat)
           D == Seq(Accounts)
           C == {2048}
           F == BOOLEAN
<1>1. Stores = [apps : A, installed : L, developers : D, current : Nat, broken : F,
                capacity : C, used : Nat]
  BY DEF Stores
<1>2. TRUE \in F
  OBVIOUS
<1> HIDE DEF A, L, D, C, F
<1>3. ASSUME NEW s \in Stores, NEW a \in A, NEW l \in L, NEW d \in D, NEW c \in Nat,
             NEW u \in Nat, NEW t
      PROVE
        /\ t = [s EXCEPT !.apps = a, !.installed = l, !.used = u]
             => IsStore(t, a, l, s.developers, s.current, u)
        /\ t = [s EXCEPT !.apps = a]
             => IsStore(t, a, s.installed, s.developers, s.current, s.used)
        /\ t = [s EXCEPT !.apps = a, !.developers = d]
             => IsStore(t, a, s.installed, d, s.current, s.used)
        /\ t = [s EXCEPT !.developers = d]
             => IsStore(t, s.apps, s.installed, d, s.current, s.used)
        /\ t = [s EXCEPT !.current = c]
             => IsStore(t, s.apps, s.installed, s.developers, c, s.used)
        /\ t = [s EXCEPT !.broken = TRUE]
             => IsStore(t, s.apps, s.installed, s.developers, s.current, s.used)
  <2>1. ASSUME t = [s EXCEPT !.apps = a, !.installed = l, !.used = u]
        PROVE  IsStore(t, a, l, s.developers, s.current, u)
    BY ONLY <1>1, <1>2, <1>3, <2>1 DEF IsStore
  <2>2. ASSUME t = [s EXCEPT !.apps = a]
        PROVE  IsStore(t, a, s.installed, s.developers, s.current, s.used)
    BY ONLY <1>1, <1>2, <1>3, <2>2 DEF IsStore
  <2>3. ASSUME t = [s EXCEPT !.apps = a, !.developers = d]
        PROVE  IsStore(t, a, s.installed, d, s.current, s.used)
    BY ONLY <1>1, <1>2, <1>3, <2>3 DEF IsStore
  <2>4. ASSUME t = [s EXCEPT !.developers = d]
        PROVE  IsStore(t, s.apps, s.installed, d, s.current, s.used)
    BY ONLY <1>1, <1>2, <1>3, <2>4 DEF IsStore
  <2>5. ASSUME t = [s EXCEPT !.current = c]
        PROVE  IsStore(t, s.apps, s.installed, s.developers, c, s.used)
    BY ONLY <1>1, <1>2, <1>3, <2>5 DEF IsStore
  <2>6. ASSUME t = [s EXCEPT !.broken = TRUE]
        PROVE  IsStore(t, s.apps, s.installed, s.developers, s.current, s.used)
    BY ONLY <1>1, <1>2, <1>3, <2>6 DEF IsStore
  <2>. QED BY <2>1, <2>2, <2>3, <2>4, <2>5, <2>6
<1>. QED BY <1>3 DEF A, L, D

LEMMA InstallKeeps ==
  ASSUME StoreInv, NEW id, Install(id)
  PROVE  StoreInv'
<1> DEFINE apps == store.apps
           k    == Place(id)
           apps2 == [apps EXCEPT ![k].installed = TRUE]
           list  == Append(store.installed, id)
           used2 == (store.used + apps[k].size) % WORD_MB
<1>1. /\ store \in Stores /\ apps \in Seq(Applications)
      /\ store.installed \in Seq(Nat) /\ store.capacity = 2048 /\ store.used \in Nat
      /\ IdsOK(apps, store_next) /\ ListOK(apps, store.installed)
      /\ StorageOK(apps, store.used) /\ DevelopersOK(apps, store.developers)
  BY StoreIs
<1>2. /\ k # 0 /\ ~apps[k].installed
      /\ (store.used + apps[k].size) % WORD_MB <= store.capacity
      /\ store' = [store EXCEPT !.apps = apps2, !.installed = list, !.used = used2]
      /\ store_next' = store_next
  BY DEF Install
<1>3. k = PlaceOf(apps, id)
  BY DEF Place, PlaceOf
<1> HIDE DEF k
<1>4. k \in DOMAIN apps /\ apps[k] \in Applications /\ apps[k].id = id
  BY <1>1, <1>2, <1>3, PlaceFound
<1>5. /\ Len(apps) \in Nat /\ DOMAIN apps = 1 .. Len(apps)
      /\ \A j \in 1 .. Len(apps) : apps[j] \in Applications
  BY <1>1
<1>6. id \in Nat /\ apps[k].size \in Nat /\ apps[k].size <= 450
  BY <1>4, SizeBounded DEF Applications
<1>7. AlikeBut(apps2, apps, k) /\ apps2[k].installed
  <2> DEFINE flag == TRUE
             q    == [apps EXCEPT ![k].installed = flag]
  <2>1. flag \in BOOLEAN
    OBVIOUS
  <2>2. q = apps2
    OBVIOUS
  <2> HIDE DEF flag, apps
  <2>3. AlikeBut(q, apps, k) /\ q[k].installed = flag
    <3>1. apps \in Seq(Applications) /\ k \in DOMAIN apps
      BY <1>1, <1>4
    <3>. QED BY ONLY <2>1, <3>1, FlagPut
  <2> HIDE DEF q, apps2
  <2>. QED BY <2>2, <2>3 DEF flag
<1> HIDE DEF apps, apps2
<1>8. /\ Shown(apps2) = Shown(apps) \cup {k} /\ k \notin Shown(apps)
      /\ SumOf(Weights(apps)) \in Nat
      /\ SumOf(Weights(apps2)) = SumOf(Weights(apps)) + apps[k].size
  BY <1>1, <1>2, <1>7, FlagSet
<1>9. /\ IdsOK(apps2, store_next) /\ DevelopersOK(apps2, store.developers)
      /\ {apps2[j].id : j \in Shown(apps2)} = {apps[j].id : j \in Shown(apps2)}
  <2> DEFINE dev == store.developers
             next == store_next
  <2> HIDE DEF dev, next
  <2>0. apps \in Seq(Applications) /\ AlikeBut(apps2, apps, k)
    BY <1>1, <1>7
  <2>1. /\ IdsOK(apps, next) => IdsOK(apps2, next)
        /\ DevelopersOK(apps, dev) => DevelopersOK(apps2, dev)
        /\ {apps2[j].id : j \in Shown(apps2)} = {apps[j].id : j \in Shown(apps2)}
    BY ONLY <2>0, AlikeButKeeps
  <2>2. IdsOK(apps, next) /\ DevelopersOK(apps, dev)
    BY <1>1 DEF next, dev
  <2>3. /\ IdsOK(apps2, next) /\ DevelopersOK(apps2, dev)
        /\ {apps2[j].id : j \in Shown(apps2)} = {apps[j].id : j \in Shown(apps2)}
    BY ONLY <2>1, <2>2
  <2>. QED BY ONLY <2>3 DEF dev, next
<1>10. ListOK(apps2, list)
  <2> DEFINE s == store.installed
             n == Len(s)
  <2>1. /\ s \in Seq(Nat) /\ n \in Nat /\ DOMAIN s = 1 .. n /\ OneEach(s)
        /\ n = Cardinality(Shown(apps)) /\ ToSet(s) = {apps[j].id : j \in Shown(apps)}
    BY <1>1 DEF ListOK
  <2>2. /\ list \in Seq(Nat) /\ Len(list) = n + 1 /\ DOMAIN list = 1 .. n + 1
        /\ \A j \in 1 .. n : list[j] = s[j]
        /\ list[n + 1] = id
    BY <1>6, <2>1, Appended
  <2> HIDE DEF s, n, list
  <2>3. id \notin ToSet(s)
    <3> SUFFICES ASSUME NEW j \in Shown(apps), apps[j].id = id PROVE FALSE
      BY <2>1
    <3>1. j \in DOMAIN apps
      BY DEF Shown
    <3>2. j = k
      BY <1>1, <1>4, <3>1 DEF IdsOK
    <3>. QED BY <1>8, <3>2
  <2>4. \A j \in 1 .. n : s[j] # id
    BY <2>1, <2>3 DEF ToSet
  <2>5. OneEach(list)
    <3> SUFFICES ASSUME NEW i \in 1 .. n + 1, NEW j \in 1 .. n + 1, list[i] = list[j] PROVE i = j
      BY <2>2 DEF OneEach
    <3>1. (i \in 1 .. n \/ i = n + 1) /\ (j \in 1 .. n \/ j = n + 1)
      BY <2>1
    <3>. QED BY <2>1, <2>2, <2>4, <3>1 DEF OneEach
  <2>6. ToSet(list) = ToSet(s) \cup {id}
    <3>1. \A j \in 1 .. n + 1 : j \in 1 .. n \/ j = n + 1
      BY <2>1
    <3>2. (1 .. n) \subseteq 1 .. n + 1 /\ n + 1 \in 1 .. n + 1
      BY <2>1
    <3>. QED BY <2>1, <2>2, <3>1, <3>2 DEF ToSet
  <2>7. ToSet(list) = {apps2[j].id : j \in Shown(apps2)}
    BY <1>4, <1>8, <1>9, <2>1, <2>6
  <2>8. Cardinality(Shown(apps2)) = n + 1
    <3>1. IsFiniteSet(Shown(apps))
      BY ONLY <1>1, WeightsAre
    <3>2. Cardinality(Shown(apps) \cup {k}) = Cardinality(Shown(apps)) + 1
      BY ONLY <1>8, <3>1, FS_AddElement
    <3>. QED BY ONLY <1>8, <2>1, <3>2
  <2>. QED BY <2>2, <2>5, <2>7, <2>8 DEF ListOK
<1>11. StorageOK(apps2, used2) /\ used2 \in Nat
  <2>1. store.used = 1024 + SumOf(Weights(apps)) /\ store.used <= 2048
    BY <1>1 DEF StorageOK
  <2>2. used2 = store.used + apps[k].size /\ used2 <= 2048
    <3> DEFINE u == store.used
               z == apps[k].size
    <3>1. u \in Nat /\ z \in Nat /\ u + z < 4096 /\ used2 = (u + z) % 4096 /\ used2 <= 2048
      BY <1>1, <1>2, <1>6, <2>1 DEF WORD_MB
    <3> HIDE DEF u, z, used2
    <3>2. (u + z) % 4096 = u + z
      BY ONLY <3>1
    <3>. QED BY <3>1, <3>2 DEF u, z
  <2> HIDE DEF used2
  <2>. QED BY <1>1, <1>6, <1>8, <2>1, <2>2 DEF StorageOK
<1>12. apps2 \in Seq(Applications) /\ list \in Seq(Nat)
  BY <1>1, <1>6, <1>7 DEF AlikeBut
<1> HIDE DEF list, used2
<1>13. IsStore(store', apps2, list, store.developers, store.current, used2)
  <2>1. store \in Stores /\ used2 \in Nat /\ store.developers \in Seq(Accounts)
        /\ store.current \in Nat
    BY <1>11, StoreIs
  <2>2. store' = [store EXCEPT !.apps = apps2, !.installed = list, !.used = used2]
    BY <1>2
  <2>. QED BY ONLY <1>12, <2>1, <2>2, StoreChanges
<1>14. store.current <= Len(store.developers)
  BY StoreIs
<1>. QED BY <1>2, <1>9, <1>10, <1>11, <1>13, <1>14 DEF StoreInv, BooksOK, IsStore

LEMMA UninstallKeeps ==
  ASSUME StoreInv, NEW id, Uninstall(id)
  PROVE  StoreInv'
<1> DEFINE apps == store.apps
           k    == Place(id)
           apps2 == [apps EXCEPT ![k].installed = FALSE]
           list  == SwappedOut(store.installed, id)
           used2 == (store.used - apps[k].size) % WORD_MB
<1>1. /\ store \in Stores /\ apps \in Seq(Applications)
      /\ store.installed \in Seq(Nat) /\ store.used \in Nat
      /\ IdsOK(apps, store_next) /\ ListOK(apps, store.installed)
      /\ StorageOK(apps, store.used) /\ DevelopersOK(apps, store.developers)
      /\ store.developers \in Seq(Accounts) /\ store.current \in Nat
      /\ store.current <= Len(store.developers)
  BY StoreIs
<1>2. /\ k # 0 /\ apps[k].installed
      /\ store' = [store EXCEPT !.apps = apps2, !.installed = list, !.used = used2]
      /\ store_next' = store_next
  BY DEF Uninstall
<1>3. k = PlaceOf(apps, id)
  BY DEF Place, PlaceOf
<1> HIDE DEF k
<1>4. k \in DOMAIN apps /\ apps[k] \in Applications /\ apps[k].id = id
  BY <1>1, <1>2, <1>3, PlaceFound
<1>5. apps[k].size \in Nat
  BY <1>4, SizeBounded
<1>6. AlikeBut(apps2, apps, k) /\ apps2[k].installed = FALSE
  BY <1>1, <1>4, FlagPut
<1> HIDE DEF apps, apps2
<1>7. /\ Shown(apps2) = Shown(apps) \ {k} /\ k \in Shown(apps)
      /\ SumOf(Weights(apps)) \in Nat /\ SumOf(Weights(apps2)) \in Nat
      /\ SumOf(Weights(apps2)) = SumOf(Weights(apps)) - apps[k].size
  BY <1>1, <1>2, <1>6, FlagCleared
<1>8. /\ IdsOK(apps2, store_next) /\ DevelopersOK(apps2, store.developers)
      /\ {apps2[j].id : j \in Shown(apps2)} = {apps[j].id : j \in Shown(apps2)}
  <2> DEFINE dev == store.developers
             next == store_next
  <2> HIDE DEF dev, next
  <2>0. apps \in Seq(Applications) /\ AlikeBut(apps2, apps, k)
    BY <1>1, <1>6
  <2>1. /\ IdsOK(apps, next) => IdsOK(apps2, next)
        /\ DevelopersOK(apps, dev) => DevelopersOK(apps2, dev)
        /\ {apps2[j].id : j \in Shown(apps2)} = {apps[j].id : j \in Shown(apps2)}
    BY ONLY <2>0, AlikeButKeeps
  <2>2. IdsOK(apps, next) /\ DevelopersOK(apps, dev)
    BY <1>1 DEF next, dev
  <2>3. /\ IdsOK(apps2, next) /\ DevelopersOK(apps2, dev)
        /\ {apps2[j].id : j \in Shown(apps2)} = {apps[j].id : j \in Shown(apps2)}
    BY ONLY <2>1, <2>2
  <2>. QED BY ONLY <2>3 DEF dev, next
<1>9. ListOK(apps2, list) /\ list \in Seq(Nat)
  <2> DEFINE s == store.installed
  <2>1. /\ s \in Seq(Nat) /\ OneEach(s)
        /\ Len(s) = Cardinality(Shown(apps)) /\ ToSet(s) = {apps[j].id : j \in Shown(apps)}
    BY <1>1 DEF ListOK
  <2>2. id \in ToSet(s)
    BY <1>4, <1>7, <2>1
  <2> HIDE DEF s
  <2>3. /\ SwappedOut(s, id) \in Seq(Nat) /\ OneEach(SwappedOut(s, id))
        /\ Len(s) > 0 /\ Len(SwappedOut(s, id)) = Len(s) - 1
        /\ ToSet(SwappedOut(s, id)) = ToSet(s) \ {id}
    BY <2>1, <2>2, SwappedOutIs
  <2>4. list = SwappedOut(s, id)
    BY DEF s
  <2> HIDE DEF list
  <2>5. ToSet(s) \ {id} = {apps[j].id : j \in Shown(apps2)}
    <3>1. \A i, j \in DOMAIN apps : apps[i].id = apps[j].id => i = j
      BY <1>1 DEF IdsOK
    <3>2. Shown(apps) \subseteq DOMAIN apps
      BY DEF Shown
    <3>. QED BY <1>4, <1>7, <2>1, <3>1, <3>2
  <2>6. Cardinality(Shown(apps2)) = Len(s) - 1
    <3>1. IsFiniteSet(Shown(apps))
      BY ONLY <1>1, WeightsAre
    <3>2. Cardinality(Shown(apps) \ {k}) = Cardinality(Shown(apps)) - 1
      BY ONLY <1>7, <3>1, FS_RemoveElement
    <3>. QED BY ONLY <1>7, <2>1, <3>2
  <2>. QED BY ONLY <1>8, <2>3, <2>4, <2>5, <2>6 DEF ListOK
<1>10. StorageOK(apps2, used2) /\ used2 \in Nat
  <2>1. store.used = 1024 + SumOf(Weights(apps)) /\ store.used <= 2048
    BY <1>1 DEF StorageOK
  <2> DEFINE S == SumOf(Weights(apps))
             S2 == SumOf(Weights(apps2))
             z == apps[k].size
  <2>2. S \in Nat /\ S2 \in Nat /\ S2 = S - z /\ z \in Nat /\ 1024 + S <= 2048
        /\ used2 = (1024 + S - z) % 4096
    BY <1>5, <1>7, <2>1 DEF WORD_MB
  <2> HIDE DEF S, S2, z, used2
  <2>3. 1024 + S - z = 1024 + S2 /\ 1024 + S2 < 4096 /\ 1024 + S2 <= 2048
    BY ONLY <2>2
  <2>4. used2 = 1024 + S2
    BY ONLY <2>2, <2>3
  <2>. QED BY <2>2, <2>3, <2>4 DEF StorageOK, S2
<1> HIDE DEF list, used2
<1>11. IsStore(store', apps2, list, store.developers, store.current, used2)
  <2>1. apps2 \in Seq(Applications)
    BY <1>6 DEF AlikeBut
  <2>2. store' = [store EXCEPT !.apps = apps2, !.installed = list, !.used = used2]
    BY <1>2
  <2>. QED BY ONLY <1>1, <1>9, <1>10, <2>1, <2>2, StoreChanges
<1>. QED BY <1>1, <1>2, <1>8, <1>9, <1>10, <1>11 DEF StoreInv, BooksOK, IsStore

LEMMA ReviewPut ==
  ASSUME NEW a \in Applications, NEW rating \in Nat, NEW b,
         b = [a EXCEPT !.given = Append(@, rating), !.total = @ + rating, !.votes = @ + 1,
                !.average = <<a.total + rating, a.votes + 1>>]
  PROVE  /\ b \in Applications /\ b.installed = a.installed
         /\ b.id = a.id /\ b.size = a.size /\ b.developer = a.developer
<1> DEFINE Averages == Nat \X Nat
           Reviews == Seq(Nat)
           Weight == 0 .. 450
           Flags == BOOLEAN
           given == Append(a.given, rating)
           avg == <<a.total + rating, a.votes + 1>>
<1>1. Applications = [id : Nat, category : Categories, size : Weight, developer : Nat,
                      total : Nat, votes : Nat, average : Averages, installed : Flags,
                      given : Reviews]
  BY DEF Applications
<1> HIDE DEF Averages, Reviews, Weight, Flags
<1>2. a.total \in Nat /\ a.votes \in Nat /\ a.given \in Reviews
  BY <1>1
<1>3. given \in Reviews /\ avg \in Averages /\ a.total + rating \in Nat /\ a.votes + 1 \in Nat
  BY <1>2 DEF Averages, Reviews
<1>4. b = [a EXCEPT !.given = given, !.total = a.total + rating, !.votes = a.votes + 1,
             !.average = avg]
  OBVIOUS
<1> HIDE DEF given, avg
<1>5. b \in Applications
  BY <1>1, <1>3, <1>4
<1>6. /\ b.installed = a.installed /\ b.id = a.id /\ b.size = a.size
      /\ b.developer = a.developer
  BY ONLY <1>4
<1>. QED BY <1>5, <1>6

LEMMA ReviewKeeps ==
  ASSUME StoreInv, NEW id, NEW rating, Review(id, rating)
  PROVE  StoreInv'
<1> DEFINE apps == store.apps
           k    == Place(id)
           b    == [apps[k] EXCEPT !.given = Append(@, rating), !.total = @ + rating,
                      !.votes = @ + 1,
                      !.average = <<apps[k].total + rating, apps[k].votes + 1>>]
           apps2 == [apps EXCEPT ![k] = b]
<1>1. /\ store \in Stores /\ apps \in Seq(Applications)
      /\ store.installed \in Seq(Nat) /\ store.used \in Nat
      /\ IdsOK(apps, store_next) /\ ListOK(apps, store.installed)
      /\ StorageOK(apps, store.used) /\ DevelopersOK(apps, store.developers)
      /\ store.developers \in Seq(Accounts) /\ store.current \in Nat
      /\ store.current <= Len(store.developers)
  BY StoreIs
<1>2. /\ k # 0 /\ rating \in 1 .. 5
      /\ store' = [store EXCEPT !.apps = apps2] /\ store_next' = store_next
  BY DEF Review
<1>3. k = PlaceOf(apps, id)
  BY DEF Place, PlaceOf
<1> HIDE DEF k
<1>4. k \in DOMAIN apps /\ apps[k] \in Applications
  BY <1>1, <1>2, <1>3, PlaceFound
<1>5. /\ b \in Applications /\ b.installed = apps[k].installed
      /\ b.id = apps[k].id /\ b.size = apps[k].size /\ b.developer = apps[k].developer
  <2>1. rating \in Nat
    BY <1>2
  <2> DEFINE a == apps[k]
  <2>2. a \in Applications
    BY <1>4
  <2>3. b = [a EXCEPT !.given = Append(@, rating), !.total = @ + rating, !.votes = @ + 1,
               !.average = <<a.total + rating, a.votes + 1>>]
    OBVIOUS
  <2> HIDE DEF a, b
  <2>4. /\ b \in Applications /\ b.installed = a.installed
        /\ b.id = a.id /\ b.size = a.size /\ b.developer = a.developer
    BY ONLY <2>1, <2>2, <2>3, ReviewPut
  <2>. QED BY <2>4 DEF a
<1> HIDE DEF b
<1>6. /\ Len(apps) \in Nat /\ DOMAIN apps = 1 .. Len(apps)
      /\ \A j \in 1 .. Len(apps) : apps[j] \in Applications
  BY <1>1
<1>7. AlikeBut(apps2, apps, k) /\ apps2[k].installed = apps[k].installed
  <2> HIDE DEF apps
  <2>1. /\ apps2[k] = b /\ \A j \in DOMAIN apps : j # k => apps2[j] = apps[j]
        /\ apps2 \in [1 .. Len(apps) -> Applications]
    BY <1>4, <1>5, <1>6
  <2> HIDE DEF apps2
  <2>2. apps2 \in Seq(Applications) /\ Len(apps2) = Len(apps)
    BY <1>6, <2>1, ListOfLen
  <2>. QED BY <1>4, <1>5, <2>1, <2>2 DEF AlikeBut
<1> HIDE DEF apps, apps2
<1>8. Shown(apps2) = Shown(apps) /\ Weights(apps2) = Weights(apps)
  BY <1>1, <1>7, FlagKept
<1>9. /\ IdsOK(apps2, store_next) /\ DevelopersOK(apps2, store.developers)
      /\ {apps2[j].id : j \in Shown(apps2)} = {apps[j].id : j \in Shown(apps2)}
  <2> DEFINE dev == store.developers
             next == store_next
  <2> HIDE DEF dev, next
  <2>0. apps \in Seq(Applications) /\ AlikeBut(apps2, apps, k)
    BY <1>1, <1>7
  <2>1. /\ IdsOK(apps, next) => IdsOK(apps2, next)
        /\ DevelopersOK(apps, dev) => DevelopersOK(apps2, dev)
        /\ {apps2[j].id : j \in Shown(apps2)} = {apps[j].id : j \in Shown(apps2)}
    BY ONLY <2>0, AlikeButKeeps
  <2>2. IdsOK(apps, next) /\ DevelopersOK(apps, dev)
    BY <1>1 DEF next, dev
  <2>3. /\ IdsOK(apps2, next) /\ DevelopersOK(apps2, dev)
        /\ {apps2[j].id : j \in Shown(apps2)} = {apps[j].id : j \in Shown(apps2)}
    BY ONLY <2>1, <2>2
  <2>. QED BY ONLY <2>3 DEF dev, next
<1>10. ListOK(apps2, store.installed) /\ StorageOK(apps2, store.used)
  <2>1. {apps2[j].id : j \in Shown(apps2)} = {apps[j].id : j \in Shown(apps)}
    BY ONLY <1>8, <1>9
  <2>2. ListOK(apps2, store.installed)
    BY ONLY <1>1, <1>8, <2>1 DEF ListOK
  <2>3. StorageOK(apps2, store.used)
    BY ONLY <1>1, <1>8 DEF StorageOK
  <2>. QED BY <2>2, <2>3
<1>11. IsStore(store', apps2, store.installed, store.developers, store.current, store.used)
  <2>1. apps2 \in Seq(Applications)
    BY <1>7 DEF AlikeBut
  <2>2. store' = [store EXCEPT !.apps = apps2]
    BY <1>2
  <2>. QED BY ONLY <1>1, <2>1, <2>2, StoreChanges
<1>. QED BY <1>1, <1>2, <1>9, <1>10, <1>11 DEF StoreInv, BooksOK, IsStore

LEMMA RegisterKeeps ==
  ASSUME StoreInv, NEW email \in Emails, Register(email)
  PROVE  StoreInv'
<1> DEFINE apps == store.apps
           dev  == store.developers
           n    == Len(dev)
           dev2 == Append(dev, [email |-> email, apps |-> 0])
<1>1. /\ store \in Stores /\ apps \in Seq(Applications)
      /\ store.installed \in Seq(Nat) /\ store.used \in Nat
      /\ IdsOK(apps, store_next) /\ ListOK(apps, store.installed)
      /\ StorageOK(apps, store.used) /\ DevelopersOK(apps, store.developers)
      /\ store.developers \in Seq(Accounts) /\ store.current \in Nat
      /\ store.current <= Len(store.developers)
  BY StoreIs
<1>2. store' = [store EXCEPT !.developers = dev2] /\ store_next' = store_next
  BY DEF Register
<1>3. [email |-> email, apps |-> 0] \in Accounts
  BY DEF Accounts
<1>4. /\ dev2 \in Seq(Accounts) /\ n \in Nat /\ Len(dev2) = n + 1 /\ DOMAIN dev = 1 .. n
      /\ DOMAIN dev2 = 1 .. n + 1 /\ \A d \in 1 .. n : dev2[d] = dev[d]
      /\ dev2[n + 1] = [email |-> email, apps |-> 0]
  BY <1>1, <1>3, Appended
<1> HIDE DEF dev2
<1>5. DevelopersOK(apps, dev2)
  <2>1. \A k \in DOMAIN apps : apps[k].developer \in Nat /\ apps[k].developer <= n
    BY <1>1, DeveloperIs DEF DevelopersOK
  <2>2. ByDeveloper(apps, n + 1) = {}
    BY <1>4, <2>1 DEF ByDeveloper
  <2>3. Cardinality(ByDeveloper(apps, n + 1)) = 0
    BY <2>2, FS_EmptySet
  <2>4. \A d \in 1 .. n : dev2[d].apps = Cardinality(ByDeveloper(apps, d))
    BY <1>1, <1>4 DEF DevelopersOK
  <2>5. \A d \in 1 .. n + 1 : d \in 1 .. n \/ d = n + 1
    BY <1>4
  <2>6. \A k \in DOMAIN apps : apps[k].developer <= n + 1
    BY <1>4, <2>1
  <2>7. dev2[n + 1].apps = 0
    BY <1>4
  <2> HIDE DEF n, apps, dev
  <2>. QED BY <1>4, <2>3, <2>4, <2>5, <2>6, <2>7 DEF DevelopersOK
<1>6. IsStore(store', apps, store.installed, dev2, store.current, store.used)
  BY ONLY <1>1, <1>2, <1>4, StoreChanges
<1>7. store.current <= Len(dev2)
  BY <1>1, <1>4
<1>. QED BY <1>1, <1>2, <1>5, <1>6, <1>7 DEF StoreInv, BooksOK, IsStore

LEMMA LoginKeeps ==
  ASSUME StoreInv, NEW email \in Emails, Login(email)
  PROVE  StoreInv'
<1> DEFINE apps == store.apps
           dev  == store.developers
           I    == {i \in 1 .. Len(dev) : dev[i].email = email}
           k    == SelectInSeq(store.developers, LAMBDA d : d.email = email)
<1>1. /\ store \in Stores /\ apps \in Seq(Applications)
      /\ store.installed \in Seq(Nat) /\ store.used \in Nat
      /\ IdsOK(apps, store_next) /\ ListOK(apps, store.installed)
      /\ StorageOK(apps, store.used) /\ DevelopersOK(apps, store.developers)
      /\ store.developers \in Seq(Accounts) /\ store.current \in Nat
      /\ store.current <= Len(store.developers)
  BY StoreIs
<1>2. k # 0 /\ store' = [store EXCEPT !.current = k] /\ store_next' = store_next
  BY DEF Login
<1>3. k = IF I # {} THEN Min(I) ELSE 0
  BY DEF SelectInSeq
<1>4. I # {} /\ I \subseteq Nat
  BY <1>2, <1>3
<1>5. k \in I
  BY <1>3, <1>4, Smallest
<1>6. k \in Nat /\ k <= Len(dev)
  BY <1>1, <1>5
<1> HIDE DEF k, apps, dev
<1>7. IsStore(store', store.apps, store.installed, store.developers, k, store.used)
  BY ONLY <1>1, <1>2, <1>6, StoreChanges DEF apps, dev
<1>. QED BY <1>1, <1>2, <1>6, <1>7 DEF StoreInv, BooksOK, IsStore, apps, dev

LEMMA LogoutKeeps ==
  ASSUME StoreInv, Logout
  PROVE  StoreInv'
<1> DEFINE apps == store.apps
           c    == 0
<1>1. /\ store \in Stores /\ apps \in Seq(Applications)
      /\ store.installed \in Seq(Nat) /\ store.used \in Nat
      /\ IdsOK(apps, store_next) /\ ListOK(apps, store.installed)
      /\ StorageOK(apps, store.used) /\ DevelopersOK(apps, store.developers)
      /\ store.developers \in Seq(Accounts) /\ store.current \in Nat
      /\ store.current <= Len(store.developers)
  BY StoreIs
<1>2. store' = [store EXCEPT !.current = c] /\ store_next' = store_next
  BY DEF Logout, NOBODY
<1>3. c \in Nat /\ c <= Len(store.developers)
  BY <1>1
<1> HIDE DEF c, apps
<1>4. IsStore(store', store.apps, store.installed, store.developers, c, store.used)
  BY ONLY <1>1, <1>2, <1>3, StoreChanges DEF apps
<1>. QED BY <1>1, <1>2, <1>3, <1>4 DEF StoreInv, BooksOK, IsStore, apps

(* An application is published: it is listed last, not installed, of no    *)
(* size.                                                                   *)
LEMMA PublishedApps ==
  ASSUME NEW apps \in Seq(Applications), NEW new \in Applications, new.installed = FALSE
  PROVE  LET apps2 == Append(apps, new)
             n     == Len(apps)
         IN  /\ apps2 \in Seq(Applications) /\ n \in Nat /\ DOMAIN apps = 1 .. n
             /\ DOMAIN apps2 = 1 .. n + 1 /\ apps2[n + 1] = new
             /\ \A k \in 1 .. n : apps2[k] = apps[k]
             /\ Shown(apps2) = Shown(apps)
             /\ {apps2[j].id : j \in Shown(apps2)} = {apps[j].id : j \in Shown(apps)}
             /\ SumOf(Weights(apps2)) = SumOf(Weights(apps))
<1> DEFINE apps2 == Append(apps, new)
           n     == Len(apps)
<1>1. /\ apps2 \in Seq(Applications) /\ n \in Nat /\ Len(apps2) = n + 1
      /\ DOMAIN apps = 1 .. n /\ apps2[n + 1] = new
      /\ \A k \in 1 .. n : apps2[k] = apps[k]
  BY Appended
<1> HIDE DEF apps2, n
<1>2. DOMAIN apps2 = 1 .. n + 1
  BY <1>1
<1>3. \A k \in 1 .. n + 1 : k \in 1 .. n \/ k = n + 1
  BY <1>1
<1>4. Shown(apps2) = Shown(apps) /\ Shown(apps) \subseteq 1 .. n /\ n + 1 \notin Shown(apps)
  <2>1. (1 .. n) \subseteq 1 .. n + 1 /\ n + 1 \notin 1 .. n
    BY <1>1
  <2>. QED BY <1>1, <1>2, <1>3, <2>1 DEF Shown
<1>5. {apps2[j].id : j \in Shown(apps2)} = {apps[j].id : j \in Shown(apps)}
  BY <1>1, <1>4
<1>6. SumOf(Weights(apps2)) = SumOf(Weights(apps))
  <2> DEFINE s == Weights(apps)
             u == Weights(apps2)
  <2>1. s \in [1 .. n -> Nat] /\ u \in [1 .. n + 1 -> Nat]
    <3>1. s \in [1 .. Len(apps) -> Nat]
      BY WeightsAre
    <3>2. u \in [1 .. Len(apps2) -> Nat]
      BY <1>1, WeightsAre
    <3>. QED BY <1>1, <3>1, <3>2 DEF n
  <2>2. \A k \in 1 .. n : k \in 1 .. n + 1
    BY <1>1
  <2>3. \A k \in 1 .. n : u[k] = s[k]
    BY <1>1, <1>2, <1>4, <2>2 DEF Weights
  <2>4. u[n + 1] = 0
    <3>1. n + 1 \in 1 .. n + 1
      BY <1>1
    <3>. QED BY <1>2, <1>4, <3>1 DEF Weights
  <2> HIDE DEF s, u
  <2>5. SumOf(s) \in Nat /\ SumOf(u) = SumOf(s) + u[n + 1]
    BY ONLY <1>1, <2>1, <2>3, SumAppends
  <2>6. SumOf(u) = SumOf(s)
    BY ONLY <2>4, <2>5
  <2>. QED BY <2>6 DEF s, u
<1>7. /\ apps2 \in Seq(Applications) /\ n \in Nat /\ DOMAIN apps = 1 .. n
      /\ DOMAIN apps2 = 1 .. n + 1 /\ apps2[n + 1] = new
      /\ \A k \in 1 .. n : apps2[k] = apps[k]
      /\ Shown(apps2) = Shown(apps)
      /\ {apps2[j].id : j \in Shown(apps2)} = {apps[j].id : j \in Shown(apps)}
      /\ SumOf(Weights(apps2)) = SumOf(Weights(apps))
  BY <1>1, <1>2, <1>4, <1>5, <1>6
<1>. QED BY <1>7 DEF apps2, n

LEMMA PublishKeeps ==
  ASSUME StoreInv, Publish("games")
  PROVE  StoreInv'
<1> DEFINE apps == store.apps
           c    == store.current
           dev  == store.developers
           new  == Listed(store_next, "games", 0, c, 0, <<0, 1>>)
           apps2 == Append(apps, new)
           dev2 == [dev EXCEPT ![c].apps = @ + 1]
           n    == Len(apps)
<1>1. /\ store \in Stores /\ apps \in Seq(Applications)
      /\ store.installed \in Seq(Nat) /\ store.used \in Nat
      /\ IdsOK(apps, store_next) /\ ListOK(apps, store.installed)
      /\ StorageOK(apps, store.used) /\ DevelopersOK(apps, store.developers)
      /\ store.developers \in Seq(Accounts) /\ store.current \in Nat
      /\ store.current <= Len(store.developers)
  BY StoreIs
<1>2. store_next \in Nat /\ store_next + 1 \in Nat
  BY <1>1 DEF IdsOK
<1>3. IdsOK(apps, store_next + 1)
  BY <1>1, <1>2, IdIs DEF IdsOK
<1>4. /\ c # 0 /\ store_next' = store_next + 1
      /\ \/ store' = [store EXCEPT !.broken = TRUE]
         \/ store' = [store EXCEPT !.apps = apps2, !.developers = dev2]
  BY DEF Publish, NOBODY
<1>5. c \in 1 .. Len(dev) /\ DOMAIN dev = 1 .. Len(dev) /\ Len(dev) \in Nat
  BY <1>1, <1>4
<1>6. /\ new \in Applications /\ new.id = store_next /\ new.developer = c
      /\ new.installed = FALSE
  <2>1. <<0, 1>> \in Nat \X Nat /\ "games" \in Categories /\ 0 \in 0 .. 450 /\ 0 \in Nat
    BY DEF Categories
  <2>2. new \in Applications
    BY <1>1, <1>2, <2>1, ListedIs
  <2>. QED BY <2>2 DEF Listed
<1>7. CASE store' = [store EXCEPT !.broken = TRUE]
  <2> HIDE DEF apps, c, dev, new, apps2, dev2
  <2>1. IsStore(store', store.apps, store.installed, store.developers, store.current, store.used)
    BY ONLY <1>1, <1>7, StoreChanges DEF apps
  <2>. QED BY <1>1, <1>3, <1>4, <2>1 DEF StoreInv, BooksOK, IsStore, apps
<1>8. CASE store' = [store EXCEPT !.apps = apps2, !.developers = dev2]
  <2> HIDE DEF new
  <2>1. /\ apps2 \in Seq(Applications) /\ n \in Nat /\ DOMAIN apps = 1 .. n
        /\ DOMAIN apps2 = 1 .. n + 1 /\ apps2[n + 1] = new
        /\ \A k \in 1 .. n : apps2[k] = apps[k]
        /\ Shown(apps2) = Shown(apps)
        /\ {apps2[j].id : j \in Shown(apps2)} = {apps[j].id : j \in Shown(apps)}
        /\ SumOf(Weights(apps2)) = SumOf(Weights(apps))
    BY <1>1, <1>6, PublishedApps
  <2> HIDE DEF apps2, n
  <2>2. \A k \in 1 .. n + 1 : k \in 1 .. n \/ k = n + 1
    BY <2>1
  <2>3. /\ dev2 \in Seq(Accounts) /\ Len(dev2) = Len(dev) /\ DOMAIN dev2 = 1 .. Len(dev)
        /\ dev[c].apps \in Nat /\ dev2[c].apps = dev[c].apps + 1
        /\ \A d \in 1 .. Len(dev) : d # c => dev2[d].apps = dev[d].apps
    BY <1>1, <1>5, CountedUp
  <2> HIDE DEF dev2
  <2>4. IdsOK(apps2, store_next + 1)
    <3>1. \A k \in 1 .. n : apps2[k].id \in Nat /\ apps2[k].id < store_next
      BY <1>1, <2>1, IdIs DEF IdsOK
    <3>2. apps2[n + 1].id = store_next
      BY <1>6, <2>1
    <3>3. \A k \in 1 .. n + 1 : apps2[k].id < store_next + 1
      BY <1>2, <2>2, <3>1, <3>2
    <3>4. \A i, j \in 1 .. n : apps2[i].id = apps2[j].id => i = j
      BY <1>1, <2>1 DEF IdsOK
    <3>5. \A i \in 1 .. n : apps2[i].id # apps2[n + 1].id
      BY <1>2, <3>1, <3>2
    <3>6. \A i, j \in 1 .. n + 1 : apps2[i].id = apps2[j].id => i = j
      BY <2>2, <3>4, <3>5
    <3>. QED BY <1>2, <2>1, <3>3, <3>6 DEF IdsOK
  <2>5. ListOK(apps2, store.installed)
    BY ONLY <1>1, <2>1 DEF ListOK
  <2>6. StorageOK(apps2, store.used)
    BY ONLY <1>1, <2>1 DEF StorageOK
  <2>7. DevelopersOK(apps2, dev2)
    <3>1. \A k \in 1 .. n + 1 : apps2[k].developer <= Len(dev2)
      <4>1. \A k \in 1 .. n : apps2[k].developer <= Len(dev)
        BY <1>1, <2>1 DEF DevelopersOK
      <4>2. apps2[n + 1].developer <= Len(dev)
        BY <1>5, <1>6, <2>1
      <4>. QED BY <2>2, <2>3, <4>1, <4>2
    <3>2. (1 .. n) \subseteq 1 .. n + 1 /\ n + 1 \in 1 .. n + 1 /\ n + 1 \notin 1 .. n
      BY <2>1
    <3>3. \A d \in 1 .. Len(dev) : d # c => ByDeveloper(apps2, d) = ByDeveloper(apps, d)
      BY <1>6, <2>1, <2>2, <3>2 DEF ByDeveloper
    <3>4. ByDeveloper(apps2, c) = ByDeveloper(apps, c) \cup {n + 1}
          /\ n + 1 \notin ByDeveloper(apps, c)
      BY <1>6, <2>1, <2>2, <3>2 DEF ByDeveloper
    <3>5. IsFiniteSet(ByDeveloper(apps, c))
      BY ONLY <1>1, WeightsAre
    <3>6. Cardinality(ByDeveloper(apps2, c)) = Cardinality(ByDeveloper(apps, c)) + 1
      BY ONLY <3>4, <3>5, FS_AddElement
    <3>7. \A d \in 1 .. Len(dev) : dev[d].apps = Cardinality(ByDeveloper(apps, d))
      BY <1>1, <1>5 DEF DevelopersOK
    <3>8. dev2[c].apps = Cardinality(ByDeveloper(apps2, c))
      BY ONLY <1>5, <2>3, <3>6, <3>7
    <3>9. \A d \in 1 .. Len(dev) : dev2[d].apps = Cardinality(ByDeveloper(apps2, d))
      BY ONLY <2>3, <3>3, <3>7, <3>8
    <3>. QED BY ONLY <2>1, <2>3, <3>1, <3>9 DEF DevelopersOK
  <2>8. IsStore(store', apps2, store.installed, dev2, c, store.used)
    BY ONLY <1>1, <1>8, <2>1, <2>3, StoreChanges DEF c
  <2>9. c <= Len(dev2)
    BY <1>1, <2>3
  <2>. QED BY ONLY <1>4, <2>4, <2>5, <2>6, <2>7, <2>8, <2>9 DEF StoreInv, BooksOK, IsStore
<1>. QED BY <1>4, <1>7, <1>8

LEMMA StoreStart == StoreInit => StoreInv
<1> SUFFICES ASSUME StoreInit PROVE StoreInv
  OBVIOUS
<1>1. store = Opened(1) /\ store_next = 1 + Len(Catalogue)
  BY CatalogueIs DEF StoreInit
<1>2. BooksOK(Opened(1), 1 + Len(Catalogue))
  BY OpenedOK
<1>. QED BY <1>1, <1>2 DEF StoreInv

LEMMA StoreStep == StoreInv /\ [StoreNext]_store_vars => StoreInv'
<1> SUFFICES ASSUME StoreInv, [StoreNext]_store_vars PROVE StoreInv'
  OBVIOUS
<1>1. ASSUME StoreReset PROVE StoreInv'
  <2>1. store_next \in Nat
    BY StoreIs DEF IdsOK
  <2>2. BooksOK(Opened(store_next), store_next + Len(Catalogue))
    BY <2>1, OpenedOK
  <2>. QED BY <1>1, <2>2 DEF StoreReset, StoreInv
<1>2. ASSUME NEW email \in Emails, Register(email) \/ Login(email) PROVE StoreInv'
  BY <1>2, RegisterKeeps, LoginKeeps
<1>3. ASSUME NEW id, Install(id) \/ Uninstall(id) PROVE StoreInv'
  BY <1>3, InstallKeeps, UninstallKeeps
<1>4. ASSUME NEW id, NEW rating, Review(id, rating) PROVE StoreInv'
  BY <1>4, ReviewKeeps
<1>5. ASSUME UNCHANGED store_vars PROVE StoreInv'
  BY <1>5 DEF StoreInv, store_vars
<1>. QED BY <1>1, <1>2, <1>3, <1>4, <1>5, LogoutKeeps, PublishKeeps DEF StoreNext

LEMMA StoreInvImplies == StoreInv => BooksBalance
<1> SUFFICES ASSUME StoreInv PROVE BooksBalance
  OBVIOUS
<1> DEFINE apps == store.apps
           S    == SumOf(Weights(apps))
<1>1. /\ apps \in Seq(Applications) /\ store.capacity = 2048
      /\ ListOK(apps, store.installed) /\ StorageOK(apps, store.used)
      /\ DevelopersOK(apps, store.developers)
  BY StoreIs
<1>2. Filtered(apps, "all", TRUE, 0) = Shown(apps)
  BY DEF Filtered, Shown
<1>3. SizeOf(apps, Shown(apps)) = S
  BY DEF SizeOf, Weights
<1>4. S \in Nat
  <2>1. Weights(apps) \in [1 .. Len(apps) -> Nat] /\ Len(apps) \in Nat
    BY <1>1, WeightsAre
  <2> DEFINE w == Weights(apps)
             n == Len(apps)
  <2>2. w \in [1 .. n -> Nat] /\ n \in Nat
    BY <2>1
  <2> HIDE DEF w, n
  <2>3. PICK f : IsSum(f, w, n) /\ SumOf(w) = f[n]
    BY ONLY <2>2, SumExists
  <2>4. f[n] \in Nat
    BY <2>2, <2>3 DEF IsSum
  <2>. QED BY <2>3, <2>4 DEF w
<1>5. store.used = (5 * 1024 + SizeOf(apps, Shown(apps))) % WORD_MB /\ store.used <= store.capacity
  <2>1. store.used = 1024 + S /\ store.used <= 2048
    BY <1>1 DEF StorageOK
  <2> HIDE DEF S
  <2>2. (5 * 1024 + S) % 4096 = 1024 + S
    BY <1>4, <2>1
  <2>. QED BY <1>1, <1>3, <2>1, <2>2 DEF WORD_MB
<1> HIDE DEF S
<1>6. \A d \in DOMAIN store.developers :
        store.developers[d].apps = Cardinality({k \in DOMAIN apps : apps[k].developer = d})
  BY <1>1 DEF DevelopersOK, ByDeveloper
<1>7. /\ {apps[k].id : k \in Shown(apps)} = ToSet(store.installed)
      /\ Len(store.installed) = Cardinality(Shown(apps))
  BY <1>1 DEF ListOK
<1> DEFINE shown == Filtered(apps, "all", TRUE, 0)
<1>8. /\ {apps[k].id : k \in shown} = ToSet(store.installed)
      /\ Len(store.installed) = Cardinality(shown)
      /\ store.used = (5 * 1024 + SizeOf(apps, shown)) % WORD_MB
  <2> HIDE DEF shown, apps
  <2>1. shown = Shown(apps)
    BY <1>2 DEF shown
  <2>. QED BY ONLY <1>5, <1>7, <2>1
<1> HIDE DEF shown
<1>9. store.used <= store.capacity
  BY <1>5
<1>. QED BY ONLY <1>6, <1>8, <1>9 DEF BooksBalance, shown

(* Whatever callers install, remove, review and publish, in whatever order:*)
(* the list of installed applications, the flags, the storage in use and   *)
(* the developers' counts agree.                                           *)
THEOREM BooksAlwaysBalance == StoreSpec => []BooksBalance
BY StoreStart, StoreStep, StoreInvImplies, PTL DEF StoreSpec

-----------------------------------------------------------------------------
(* Levels stay levels.  The sum that Average takes goes through a set of   *)
(* offsets, one element after the other, whichever is chosen.              *)
SumAround(b, p, A) == MapThenSumSet(LAMBDA d : Seen(b, p[1] + d[1], p[2] + d[2]), A)

LEMMA SumOverSet ==
  ASSUME NEW A, IsFiniteSet(A), NEW b, NEW p, NEW M \in Nat,
         \A d \in A : Seen(b, p[1] + d[1], p[2] + d[2]) \in 0 .. M
  PROVE  SumAround(b, p, A) \in Nat /\ SumAround(b, p, A) <= Cardinality(A) * M
<1> DEFINE v(d) == Seen(b, p[1] + d[1], p[2] + d[2])
           some(s) == CHOOSE d \in s : TRUE
           Up(m) == {s \in SUBSET A : Cardinality(s) <= m}
           Of(g, s) == IF s = {} THEN 0 ELSE v(some(s)) + g[s \ {some(s)}]
           Rec(g, S) == g = [s \in S |-> Of(g, s)]
           iter == CHOOSE g : Rec(g, SUBSET A)
           n == Cardinality(A)
<1>1. SumAround(b, p, A) = iter[A]
  BY DEF SumAround, MapThenSumSet, MapThenFoldSet
<1>2. /\ n \in Nat
      /\ \A s \in SUBSET A : IsFiniteSet(s) /\ Cardinality(s) \in Nat /\ Cardinality(s) <= n
  BY FS_Subset, FS_CardinalityType
<1>3. ASSUME NEW s \in SUBSET A, s # {}
      PROVE  /\ some(s) \in s /\ some(s) \in A /\ s \ {some(s)} \in SUBSET A
             /\ Cardinality(s \ {some(s)}) = Cardinality(s) - 1
             /\ Cardinality(s) \in Nat /\ Cardinality(s) > 0
  <2>1. some(s) \in s
    BY <1>3
  <2>2. IsFiniteSet(s) /\ Cardinality(s) \in Nat
    BY <1>2
  <2> HIDE DEF some
  <2>3. Cardinality(s \ {some(s)}) = Cardinality(s) - 1
    BY <2>1, <2>2, FS_RemoveElement
  <2>4. Cardinality(s) # 0
    BY <1>3, <2>2, FS_EmptySet
  <2>. QED BY <2>1, <2>2, <2>3, <2>4
<1>4. \A d \in A : v(d) \in 0 .. M
  OBVIOUS
<1> HIDE DEF n, v, some
<1>5. \E g : Rec(g, Up(0))
  <2>1. ASSUME NEW s \in Up(0) PROVE s = {}
    <3>1. s \in SUBSET A /\ Cardinality(s) \in Nat /\ Cardinality(s) <= 0
      BY <1>2
    <3>2. s # {} => Cardinality(s) > 0
      BY ONLY <1>3, <3>1
    <3>. QED BY <3>1, <3>2
  <2> DEFINE g == [s \in Up(0) |-> 0]
  <2>2. \A s \in Up(0) : Of(g, s) = 0
    BY <2>1
  <2>3. Rec(g, Up(0))
    BY <2>2
  <2>. QED BY <2>3
<1>6. ASSUME NEW m \in Nat, NEW g, Rec(g, Up(m))
      PROVE  \E f : Rec(f, Up(m + 1))
  <2> DEFINE f == [s \in Up(m + 1) |-> Of(g, s)]
  <2>1. Up(m) \subseteq Up(m + 1)
    BY <1>2
  <2>2. ASSUME NEW s \in Up(m) PROVE f[s] = g[s]
    BY <1>6, <2>1, <2>2
  <2>3. ASSUME NEW s \in Up(m + 1) PROVE Of(g, s) = Of(f, s)
    <3>1. CASE s = {}
      BY <3>1
    <3>2. CASE s # {}
      <4> DEFINE rest == s \ {some(s)}
      <4>1. rest \in Up(m)
        BY <1>3, <2>3, <3>2
      <4> HIDE DEF rest, f
      <4>2. f[rest] = g[rest]
        BY <2>2, <4>1
      <4>. QED BY <3>2, <4>2 DEF rest
    <3>. QED BY <3>1, <3>2
  <2>4. Rec(f, Up(m + 1))
    <3>1. f = [s \in Up(m + 1) |-> Of(g, s)]
      OBVIOUS
    <3> HIDE DEF f, Up, Of
    <3>2. [s \in Up(m + 1) |-> Of(g, s)] = [s \in Up(m + 1) |-> Of(f, s)]
      BY <2>3
    <3>. QED BY <3>1, <3>2
  <2>. QED BY <2>4
<1>7. \E g : Rec(g, Up(n))
  <2> DEFINE I == {m \in Nat : ~\E g : Rec(g, Up(m))}
             least == Min(I)
  <2> HIDE DEF Rec, Up
  <2> SUFFICES ASSUME I # {} PROVE FALSE
    BY <1>2
  <2>1. least \in I /\ \A m \in I : least <= m
    BY Smallest
  <2> HIDE DEF least
  <2>2. least \in Nat /\ least # 0
    BY <1>5, <2>1
  <2>3. least - 1 \in Nat /\ ~(least <= least - 1) /\ least - 1 + 1 = least
    BY <2>2
  <2>4. PICK g : Rec(g, Up(least - 1))
    BY <2>1, <2>3
  <2>5. \E f : Rec(f, Up(least - 1 + 1))
    BY <1>6, <2>3, <2>4
  <2>. QED BY <2>1, <2>3, <2>5
<1>8. Rec(iter, SUBSET A)
  <2>1. Up(n) = SUBSET A
    BY <1>2
  <2> HIDE DEF Up, Rec
  <2>. QED BY <1>7, <2>1
<1> HIDE DEF iter
<1>9. \A s \in SUBSET A : iter[s] = Of(iter, s)
  BY <1>8
<1> DEFINE Bounded(s) == iter[s] \in Nat /\ iter[s] <= Cardinality(s) * M
<1>10. ASSUME NEW s \in SUBSET A, s # {}, Bounded(s \ {some(s)})
       PROVE  Bounded(s)
  <2> DEFINE rest == s \ {some(s)}
             k == Cardinality(s)
  <2>1. iter[s] = v(some(s)) + iter[rest]
    BY <1>9, <1>10
  <2>2. v(some(s)) \in 0 .. M /\ Cardinality(rest) = k - 1 /\ k \in Nat
    BY <1>3, <1>4, <1>10
  <2>3. iter[rest] \in Nat /\ iter[rest] <= Cardinality(rest) * M
    BY <1>10
  <2> HIDE DEF rest, k
  <2>4. (k - 1) * M = k * M - M /\ k * M \in Int
    BY <2>2
  <2>. QED BY <2>1, <2>2, <2>3, <2>4 DEF k
<1>11. Bounded({})
  <2>1. Cardinality({}) = 0 /\ iter[{}] = 0
    BY <1>9, FS_EmptySet
  <2>. QED BY <2>1
<1>12. Bounded(A)
  <2> DEFINE I == {m \in Nat : \E s \in SUBSET A : Cardinality(s) = m /\ ~Bounded(s)}
             least == Min(I)
  <2> HIDE DEF Bounded
  <2> SUFFICES ASSUME I # {} PROVE FALSE
    <3>1. Cardinality(A) \in Nat /\ A \in SUBSET A
      BY <1>2
    <3>. QED BY <3>1
  <2>1. least \in I /\ \A m \in I : least <= m
    BY Smallest
  <2> HIDE DEF least
  <2>2. PICK s \in SUBSET A : Cardinality(s) = least /\ ~Bounded(s)
    BY <2>1
  <2> DEFINE rest == s \ {some(s)}
  <2>3. s # {}
    BY <1>11, <2>2
  <2>4. rest \in SUBSET A /\ Cardinality(rest) = least - 1 /\ least \in Nat /\ least > 0
    BY <1>3, <2>2, <2>3
  <2>5. ~Bounded(rest)
    BY <1>10, <2>2, <2>3
  <2> HIDE DEF rest
  <2>6. least - 1 \in I
    BY <2>4, <2>5
  <2>. QED BY <2>1, <2>4, <2>6
<1>. QED BY <1>1, <1>12

(* The mean of levels is one, and so is a mixture of two of them.          *)
LEMMA AverageIsLevel ==
  ASSUME NEW b \in [Pixels -> 0 .. LEVELS - 1], NEW p
  PROVE  Average(b, p) \in 0 .. LEVELS - 1
<1> DEFINE M == LEVELS - 1
           A == (-RADIUS .. RADIUS) \X (-RADIUS .. RADIUS)
           sum == SumAround(b, p, A)
           n == Cardinality(A)
<1>1. M \in Nat /\ M > 0 /\ RADIUS \in Nat
  BY FramebufferAssumption
<1>2. \A d \in A : Seen(b, p[1] + d[1], p[2] + d[2]) \in 0 .. M
  BY <1>1 DEF Seen
<1>3. IsFiniteSet(A) /\ n \in Nat /\ n > 0
  <2> DEFINE I == -RADIUS .. RADIUS
  <2>1. IsFiniteSet(I) /\ 0 \in I
    BY <1>1, FS_Interval
  <2> HIDE DEF I
  <2>2. IsFiniteSet(I \X I) /\ <<0, 0>> \in I \X I
    BY <2>1, FS_Product
  <2>3. I \X I = A
    BY DEF I
  <2> HIDE DEF A
  <2>4. IsFiniteSet(A) /\ A # {}
    BY <2>2, <2>3
  <2>5. Cardinality(A) \in Nat /\ Cardinality(A) # 0
    BY ONLY <2>4, FS_CardinalityType, FS_EmptySet
  <2>. QED BY <2>4, <2>5
<1>4. Average(b, p) = sum \div n
  BY DEF Average, SumAround
<1> HIDE DEF A
<1>5. sum \in Nat /\ sum <= n * M
  BY <1>1, <1>2, <1>3, SumOverSet
<1> HIDE DEF M, n, sum
<1>6. ASSUME NEW q \in Int, NEW r \in 0 .. n - 1, sum = n * q + r PROVE q \in 0 .. M
  <2>1. q < 0 => n * q <= -n
    BY <1>3
  <2>2. q > M => n * q >= n * M + n
    BY <1>1, <1>3
  <2>. QED BY <1>1, <1>3, <1>5, <1>6, <2>1, <2>2
<1>7. /\ sum \div n \in Int /\ sum % n \in 0 .. n - 1
      /\ sum = n * (sum \div n) + (sum % n)
  BY <1>3, <1>5
<1>8. sum \div n \in 0 .. M
  BY ONLY <1>6, <1>7
<1>. QED BY <1>4, <1>8 DEF M

LEMMA BlendIsLevel ==
  ASSUME NEW bg \in 0 .. LEVELS - 1, NEW fg \in 0 .. LEVELS - 1, NEW alpha \in 0 .. LEVELS - 1
  PROVE  Blend(bg, fg, alpha) \in 0 .. LEVELS - 1
<1> DEFINE M == LEVELS - 1
           sum == alpha * fg + (LEVELS - 1 - alpha) * bg
<1>1. M \in Nat /\ M > 0 /\ alpha \in 0 .. M /\ fg \in 0 .. M /\ bg \in 0 .. M
  BY FramebufferAssumption
<1>2. sum = alpha * fg + (M - alpha) * bg
  OBVIOUS
<1>3. Blend(bg, fg, alpha) = sum \div M
  BY DEF Blend
<1> HIDE DEF M, sum
<1>4. /\ alpha * fg \in Nat /\ alpha * fg <= alpha * M
      /\ (M - alpha) * bg \in Nat /\ (M - alpha) * bg <= (M - alpha) * M
  BY <1>1
<1>5. alpha * M + (M - alpha) * M = M * M
  BY <1>1
<1>6. sum \in Nat /\ sum <= M * M
  <2>1. alpha * M \in Nat /\ (M - alpha) * M \in Nat /\ M * M \in Nat
    BY <1>1
  <2>. QED BY <1>2, <1>4, <1>5, <2>1
<1>7. ASSUME NEW q \in Int, NEW r \in 0 .. M - 1, sum = M * q + r PROVE q \in 0 .. M
  <2>1. q < 0 => M * q <= -M
    BY <1>1
  <2>2. q > M => M * q >= M * M + M
    BY <1>1
  <2>. QED BY <1>1, <1>6, <1>7, <2>1, <2>2
<1>8. /\ sum \div M \in Int /\ sum % M \in 0 .. M - 1
      /\ sum = M * (sum \div M) + (sum % M)
  BY <1>1, <1>6
<1>9. sum \div M \in 0 .. M
  BY ONLY <1>7, <1>8
<1>. QED BY <1>3, <1>9 DEF M

(* What every primitive leaves is a screen of levels again.                *)
Frames == [Pixels -> 0 .. LEVELS - 1]

LEMMA BlurLeavesLevels ==
  ASSUME NEW b \in Frames, NEW x, NEW y, NEW w, NEW h
  PROVE  Blurred(b, x, y, w, h) \in Frames
<1> DEFINE inside == Looped(x + RADIUS, y + RADIUS, w - 2 * RADIUS, h - 2 * RADIUS)
           n == FB_WIDTH * FB_HEIGHT
           Step(f, k) == LET p == Nth(k - 1)
                         IN  IF p \in inside THEN [f EXCEPT ![p] = Average(f, p)] ELSE f
           step == [k \in 1 .. n |-> [f \in Frames |-> Step(f, k)]]
           Rec(g) == g = [k \in 0 .. n |-> IF k = 0 THEN b ELSE Step(g[k - 1], k)]
           after == CHOOSE g : Rec(g)
<1>1. n \in Nat
  <2>1. FB_WIDTH \in Nat /\ FB_HEIGHT \in Nat
    BY FramebufferAssumption
  <2>. QED BY <2>1
<1>2. Blurred(b, x, y, w, h) = after[n]
  BY DEF Blurred
<1>3. ASSUME NEW f \in Frames, NEW k PROVE Step(f, k) \in Frames
  <2> DEFINE p == Nth(k - 1)
  <2> HIDE DEF p
  <2>1. Average(f, p) \in 0 .. LEVELS - 1
    BY AverageIsLevel DEF Frames
  <2>2. [f EXCEPT ![p] = Average(f, p)] \in Frames
    BY <2>1 DEF Frames
  <2>. QED BY <2>2 DEF p
<1> HIDE DEF n, Step
<1>4. step \in [1 .. n -> [Frames -> Frames]]
  BY <1>3
<1>5. \A k \in 1 .. n, f \in Frames : step[k][f] = Step(f, k)
  OBVIOUS
<1> HIDE DEF step
<1>6. PICK f \in [0 .. n -> Frames] : IsRun(f, b, step, n)
  BY ONLY <1>1, <1>4, b \in Frames, LoopRuns
<1>7. /\ DOMAIN f = 0 .. n /\ f[0] = b
      /\ \A k \in 1 .. n : k \in 0 .. n /\ k # 0 /\ k - 1 \in 0 .. n /\ f[k] = step[k][f[k - 1]]
  BY <1>1, <1>6 DEF IsRun
<1>8. \A k \in 1 .. n : f[k] = Step(f[k - 1], k)
  BY <1>5, <1>6, <1>7
<1>9. Rec(f)
  <2>1. \A k \in 0 .. n : f[k] = IF k = 0 THEN b ELSE Step(f[k - 1], k)
    BY <1>7, <1>8
  <2>. QED BY <1>7, <2>1
<1>10. Rec(after)
  BY <1>9
<1> HIDE DEF after
<1>11. after[0] = b /\ \A k \in 1 .. n : after[k] = Step(after[k - 1], k)
  BY <1>1, <1>7, <1>10
<1>12. Alongside(after, f, n)
  BY <1>7, <1>8, <1>11 DEF Alongside
<1>13. after[n] = f[n]
  <2>1. \A k \in 0 .. n : after[k] = f[k]
    BY <1>1, <1>12, RunsAgree
  <2>. QED BY <1>1, <2>1
<1>. QED BY <1>1, <1>2, <1>6, <1>13

LEMMA OverlayLeavesLevels ==
  ASSUME NEW f \in Frames, NEW ps, NEW c \in 0 .. LEVELS - 1, NEW alpha \in 0 .. LEVELS - 1
  PROVE  Overlaid(f, ps, c, alpha) \in Frames
<1>1. ASSUME NEW p \in Pixels PROVE Blend(f[p], c, alpha) \in 0 .. LEVELS - 1
  BY BlendIsLevel DEF Frames
<1>. QED BY <1>1 DEF Overlaid, Frames

LEMMA PanelLeavesLevels ==
  ASSUME NEW b \in Frames, NEW x, NEW y, NEW w, NEW h, NEW o \in 0 .. LEVELS - 1
  PROVE  Panel(b, x, y, w, h, o) \in Frames
<1> DEFINE Row(r)        == Along(x, x + w, FB_WIDTH) \X Line(r, FB_HEIGHT)
           Column(c)     == Line(c, FB_WIDTH) \X Along(y, y + h, FB_HEIGHT)
           Border(f, ps) == Overlaid(f, ps, BORDER, BORDER_ALPHA)
           glass   == Overlaid(Blurred(b, x, y, w, h), Looped(x, y, w, h), GLASS, o)
           top     == Border(glass, Row(y))
           bottom  == Border(top, Row(y + h - 1))
           left    == Border(bottom, Column(x))
           right   == Border(left, Column(x + w - 1))
<1>1. GLASS \in 0 .. LEVELS - 1
  BY FramebufferAssumption
<1>2. \A f \in Frames : \A ps : Border(f, ps) \in Frames
  BY OverlayLeavesLevels, FramebufferAssumption
<1>3. Panel(b, x, y, w, h, o) = right
  BY DEF Panel
<1>4. glass \in Frames
  BY <1>1, BlurLeavesLevels, OverlayLeavesLevels
<1> HIDE DEF glass, Border
<1>5. top \in Frames
  BY <1>2, <1>4
<1> HIDE DEF top
<1>6. bottom \in Frames
  BY <1>2, <1>5
<1> HIDE DEF bottom
<1>7. left \in Frames
  BY <1>2, <1>6
<1> HIDE DEF left
<1>8. right \in Frames
  BY <1>2, <1>7
<1>. QED BY <1>3, <1>8

LEMMA FbTypeStep == FbTypeOK /\ [FbNext]_fb_vars => FbTypeOK'
<1> SUFFICES ASSUME FbTypeOK, [FbNext]_fb_vars PROVE FbTypeOK'
  OBVIOUS
<1>1. buffer \in Frames /\ \A c \in Levels : c \in 0 .. LEVELS - 1
  BY FramebufferAssumption DEF FbTypeOK, Frames
<1>2. ASSUME NEW what, NEW x, NEW y, NEW w, NEW h, NEW c, NEW after \in Frames,
             Drawing(what, x, y, w, h, c, after)
      PROVE  FbTypeOK'
  BY <1>2 DEF Drawing, FbTypeOK, Frames
<1>3. ASSUME NEW x, NEW y, NEW c \in Levels, PutPixel(x, y, c) PROVE FbTypeOK'
  <2>1. SetPixel(buffer, x, y, c) \in Frames
    BY <1>1 DEF SetPixel, Frames
  <2>. QED BY <1>2, <1>3, <2>1 DEF PutPixel
<1>4. ASSUME NEW x, NEW y, NEW w, NEW h, NEW c \in Levels, FillRect(x, y, w, h, c)
      PROVE  FbTypeOK'
  <2>1. Filled(buffer, x, y, w, h, c) \in Frames
    BY <1>1 DEF Filled, Frames
  <2>. QED BY <1>2, <1>4, <2>1 DEF FillRect
<1>5. ASSUME NEW x, NEW y, NEW w, NEW h, NEW c \in Levels, GlassPanel(x, y, w, h, c)
      PROVE  FbTypeOK'
  <2>1. Panel(buffer, x, y, w, h, c) \in Frames
    BY <1>1, PanelLeavesLevels
  <2>. QED BY <1>2, <1>5, <2>1 DEF GlassPanel
<1>6. ASSUME NEW x, NEW y, NEW w, NEW h, NEW r, NEW c \in Levels, RoundedRect(x, y, w, h, r, c)
      PROVE  FbTypeOK'
  <2>1. Rounded(buffer, x, y, w, h, r, c) \in Frames
    BY <1>1 DEF Rounded, Frames
  <2>. QED BY <1>2, <1>6, <2>1 DEF RoundedRect
<1>7. CASE FbReturn \/ UNCHANGED fb_vars
  BY <1>7 DEF FbReturn, fb_vars, FbTypeOK
<1>. QED BY <1>3, <1>4, <1>5, <1>6, <1>7 DEF FbNext

(* Blending and blurring never leave the range of a channel, whatever was  *)
(* on the screen, and how often panels are drawn over one another.         *)
THEOREM LevelsStayLevels == FbSpec => []FbTypeOK
<1>1. FbInit => FbTypeOK
  BY FramebufferAssumption DEF FbInit, FbTypeOK
<1>. QED BY <1>1, FbTypeStep, PTL DEF FbSpec

(* The tables are never longer than the code's arrays.                     *)
TablesFit ==
  /\ Len(store.apps) <= MAX_STORE_APPS /\ Len(store.installed) <= MAX_INSTALLED_APPS

LEMMA SameLength ==
  ASSUME NEW s, NEW n \in Nat, Len(s) \in Nat, DOMAIN s = 1 .. Len(s), DOMAIN s = 1 .. n
  PROVE  Len(s) = n
<1>1. \A i \in Nat : i \in 1 .. Len(s) <=> i \in 1 .. n
  OBVIOUS
<1> DEFINE m == Len(s)
<1>2. \A i \in Nat : i >= 1 => (i <= m <=> i <= n)
  BY <1>1
<1>3. m \in Nat
  OBVIOUS
<1> HIDE DEF m
<1>4. m <= n
  BY <1>2, <1>3
<1>5. n <= m
  BY <1>2, <1>3
<1>6. m = n
  BY <1>3, <1>4, <1>5
<1>. QED BY <1>6 DEF m

LEMMA TablesStep ==
  StoreInv /\ StoreInv' /\ TablesFit /\ [StoreNext]_store_vars => TablesFit'
<1> SUFFICES ASSUME StoreInv, StoreInv', TablesFit, [StoreNext]_store_vars PROVE TablesFit'
  OBVIOUS
<1>1. /\ store \in Stores /\ store' \in Stores
      /\ store.apps \in Seq(Applications) /\ store'.apps \in Seq(Applications)
      /\ store.installed \in Seq(Nat) /\ store'.installed \in Seq(Nat)
  BY DEF StoreInv, BooksOK, Stores
<1>2. /\ MAX_STORE_APPS \in Nat /\ MAX_INSTALLED_APPS \in Nat /\ MAX_STORE_APPS >= 25
  BY StoreAssumption, CatalogueAssumption, CatalogueIs
<1>3. /\ Len(store.apps) \in Nat /\ Len(store.apps) <= MAX_STORE_APPS
      /\ Len(store.installed) \in Nat /\ Len(store.installed) <= MAX_INSTALLED_APPS
  BY <1>1 DEF TablesFit
<1>4. ASSUME DOMAIN store'.apps = DOMAIN store.apps
      PROVE  Len(store'.apps) <= MAX_STORE_APPS
  <2>1. /\ Len(store'.apps) \in Nat /\ DOMAIN store'.apps = 1 .. Len(store'.apps)
        /\ DOMAIN store'.apps = 1 .. Len(store.apps)
    BY <1>1, <1>4
  <2>2. Len(store'.apps) = Len(store.apps)
    BY <1>3, <2>1, SameLength
  <2>. QED BY <1>3, <2>2
<1>5. ASSUME NEW id, Install(id) PROVE TablesFit'
  <2>1. /\ DOMAIN store'.apps = DOMAIN store.apps
        /\ store'.installed = Append(store.installed, id)
        /\ Len(store.installed) < MAX_INSTALLED_APPS
    BY <1>1, <1>5 DEF Install, Stores
  <2>2. Len(Append(store.installed, id)) = Len(store.installed) + 1
    BY <1>1
  <2>. QED BY <1>2, <1>3, <1>4, <2>1, <2>2 DEF TablesFit
<1>6. ASSUME NEW id, Uninstall(id) PROVE TablesFit'
  <2>1. /\ DOMAIN store'.apps = DOMAIN store.apps
        /\ store'.installed = SwappedOut(store.installed, id)
        /\ Place(id) # 0 /\ store.apps[Place(id)].installed
    BY <1>1, <1>6 DEF Uninstall, Stores
  <2>2. Place(id) \in DOMAIN store.apps /\ store.apps[Place(id)].id = id
    <3> DEFINE k == Place(id)
    <3>1. k = PlaceOf(store.apps, id)
      BY DEF Place, PlaceOf
    <3>2. k # 0
      BY <2>1
    <3> HIDE DEF k
    <3>3. k \in DOMAIN store.apps /\ store.apps[k].id = id
      BY <1>1, <3>1, <3>2, PlaceFound
    <3>. QED BY <3>3 DEF k
  <2>3. OneEach(store.installed)
        /\ ToSet(store.installed) = {store.apps[k].id : k \in Shown(store.apps)}
    BY StoreIs DEF ListOK
  <2>4. id \in ToSet(store.installed)
    BY <2>1, <2>2, <2>3 DEF Shown
  <2>5. Len(SwappedOut(store.installed, id)) = Len(store.installed) - 1
    BY <1>1, <2>3, <2>4, SwappedOutIs
  <2>. QED BY <1>2, <1>3, <1>4, <2>1, <2>5 DEF TablesFit
<1>7. ASSUME NEW id, NEW rating, Review(id, rating) PROVE TablesFit'
  <2>1. DOMAIN store'.apps = DOMAIN store.apps /\ store'.installed = store.installed
    BY <1>1, <1>7 DEF Review, Stores
  <2>. QED BY <1>3, <1>4, <2>1 DEF TablesFit
<1>8. CASE StoreReset
  <2>1. store'.apps = Opened(store_next).apps /\ store'.installed = <<>>
    BY <1>8 DEF StoreReset, Opened
  <2>2. DOMAIN store'.apps = 1 .. 25
    BY <2>1, CatalogueIs DEF Opened
  <2>3. Len(store'.apps) \in Nat /\ DOMAIN store'.apps = 1 .. Len(store'.apps)
    BY <1>1
  <2>4. Len(store'.apps) = 25 /\ Len(store'.installed) = 0
    BY <2>1, <2>2, <2>3, SameLength
  <2>. QED BY <1>2, <2>4 DEF TablesFit
<1>9. CASE Publish("games")
  <2>1. CASE Len(store.apps) >= MAX_STORE_APPS
    <3>1. store'.apps = store.apps /\ store'.installed = store.installed
      BY <1>1, <1>9, <2>1 DEF Publish, Stores
    <3>. QED BY <1>3, <3>1 DEF TablesFit
  <2>2. CASE ~(Len(store.apps) >= MAX_STORE_APPS)
    <3>1. /\ store'.installed = store.installed
          /\ \E app : store'.apps = Append(store.apps, app)
      BY <1>1, <1>9, <2>2 DEF Publish, Stores
    <3>2. Len(store'.apps) = Len(store.apps) + 1
      BY <1>1, <3>1
    <3>. QED BY <1>2, <1>3, <2>2, <3>1, <3>2 DEF TablesFit
  <2>. QED BY <2>1, <2>2
<1>10. ASSUME \/ Logout \/ UNCHANGED store_vars
              \/ \E email \in Emails : Register(email) \/ Login(email)
       PROVE  TablesFit'
  <2>1. CASE Logout \/ UNCHANGED store_vars
    <3>1. store'.apps = store.apps /\ store'.installed = store.installed
      BY <1>1, <2>1 DEF Logout, store_vars, Stores
    <3>. QED BY <1>3, <3>1 DEF TablesFit
  <2>2. ASSUME NEW email, Register(email) PROVE TablesFit'
    <3>1. store'.apps = store.apps /\ store'.installed = store.installed
      BY <1>1, <2>2 DEF Register, Stores
    <3>. QED BY <1>3, <3>1 DEF TablesFit
  <2>3. ASSUME NEW email, Login(email) PROVE TablesFit'
    <3> DEFINE k == SelectInSeq(store.developers, LAMBDA dev : dev.email = email)
    <3>1. store' = [store EXCEPT !.current = k]
      BY <2>3 DEF Login
    <3> HIDE DEF k
    <3>2. store'.apps = store.apps /\ store'.installed = store.installed
      BY <1>1, <3>1 DEF Stores
    <3>. QED BY <1>3, <3>2 DEF TablesFit
  <2>. QED BY <1>10, <2>1, <2>2, <2>3
<1>. QED BY <1>5, <1>6, <1>7, <1>8, <1>9, <1>10 DEF StoreNext

LEMMA TablesStart == StoreInit => TablesFit
<1> SUFFICES ASSUME StoreInit PROVE TablesFit
  OBVIOUS
<1>1. /\ MAX_STORE_APPS \in Nat /\ MAX_INSTALLED_APPS \in Nat /\ MAX_STORE_APPS >= 25
      /\ DOMAIN Catalogue = 1 .. 25
  BY StoreAssumption, CatalogueAssumption, CatalogueIs
<1>2. StoreInv
  BY StoreStart
<1>3. store.apps \in Seq(Applications)
  BY <1>2, StoreIs
<1>4. DOMAIN store.apps = 1 .. 25 /\ store.installed = <<>>
  BY <1>1 DEF StoreInit, Opened
<1>5. Len(store.apps) = 25 /\ Len(store.installed) = 0
  <2>1. Len(store.apps) \in Nat /\ DOMAIN store.apps = 1 .. Len(store.apps)
    BY <1>3
  <2>. QED BY <1>4, <2>1, SameLength
<1>. QED BY <1>1, <1>5 DEF TablesFit

LEMMA StoreInvTypes == StoreInv /\ TablesFit => StoreTypeOK
<1> SUFFICES ASSUME StoreInv, TablesFit PROVE StoreTypeOK
  OBVIOUS
<1>1. /\ store \in Stores /\ store.current \in Nat /\ store.used \in Nat
      /\ store.current <= Len(store.developers) /\ store.capacity = 2048
      /\ StorageOK(store.apps, store.used) /\ store.developers \in Seq(Accounts)
  BY StoreIs
<1>2. store.used <= 2048
  BY <1>1 DEF StorageOK
<1>3. Len(store.developers) \in Nat
  BY <1>1
<1>4. store.broken \in BOOLEAN
  BY <1>1 DEF Stores
<1>5. store.used \in 0 .. WORD_MB - 1 /\ store.capacity \in 0 .. WORD_MB - 1
  <2> DEFINE u == store.used
             c == store.capacity
  <2>1. u \in Nat /\ u <= 2048 /\ c = 2048
    BY <1>1, <1>2
  <2> HIDE DEF u, c
  <2>2. u \in 0 .. WORD_MB - 1 /\ c \in 0 .. WORD_MB - 1
    BY <2>1 DEF WORD_MB
  <2>. QED BY <2>2 DEF u, c
<1>6. store.current \in 0 .. Len(store.developers)
  BY <1>1, <1>3
<1>. QED BY <1>4, <1>5, <1>6 DEF StoreTypeOK, TablesFit

(* No table of the store outgrows its array, and the storage in use stays  *)
(* below the capacity that the field holds, whatever is done: where        *)
(* publishing would write behind the catalogue, the model stops.           *)
THEOREM StoreTypes == StoreSpec => []StoreTypeOK
<1>1. StoreInit => StoreInv /\ TablesFit
  BY StoreStart, TablesStart
<1>2. StoreInv /\ TablesFit /\ [StoreNext]_store_vars => StoreInv' /\ TablesFit'
  BY StoreStep, TablesStep
<1>. QED BY <1>1, <1>2, StoreInvTypes, PTL DEF StoreSpec

-----------------------------------------------------------------------------
(* All parts together: whatever moves, every part takes a step of its own  *)
(* or rests, so that what holds of a part alone holds of it among others.  *)
LEMMA SomePartsMove ==
  [AppsNext]_apps_vars =>
    /\ [VfsNext]_vfs_vars /\ [TableNext]_table_vars /\ [WifiNext]_wifi_vars
    /\ [BtNext]_bt_vars /\ [WineNext]_wine_vars
    /\ [TokensNext \/ PrintNext]_strings_vars
<1> SUFFICES ASSUME [AppsNext]_apps_vars
             PROVE  /\ [VfsNext]_vfs_vars /\ [TableNext]_table_vars /\ [WifiNext]_wifi_vars
                    /\ [BtNext]_bt_vars /\ [WineNext]_wine_vars
                    /\ [TokensNext \/ PrintNext]_strings_vars
  OBVIOUS
<1>1. CASE UNCHANGED apps_vars
  BY <1>1 DEF apps_vars
<1>2. CASE AppsNext
  BY <1>2 DEF AppsNext, Turn
<1>. QED BY <1>1, <1>2

LEMMA OtherPartsMove ==
  [AppsNext]_apps_vars =>
    /\ [TermNext]_term_vars /\ [ConsoleNext]_console_vars /\ [StoreNext]_store_vars
    /\ [SnipNext]_snip_vars /\ [FbNext]_fb_vars
    /\ [QsNext \/ ExplorerNext \/ NotesNext \/ WizardNext]_applets_vars
<1> SUFFICES ASSUME [AppsNext]_apps_vars
             PROVE  /\ [TermNext]_term_vars /\ [ConsoleNext]_console_vars
                    /\ [StoreNext]_store_vars /\ [SnipNext]_snip_vars /\ [FbNext]_fb_vars
                    /\ [QsNext \/ ExplorerNext \/ NotesNext \/ WizardNext]_applets_vars
  OBVIOUS
<1>1. CASE UNCHANGED apps_vars
  BY <1>1 DEF apps_vars
<1>2. CASE AppsNext
  BY <1>2 DEF AppsNext, Turn
<1>. QED BY <1>1, <1>2

(* The composition implements each of its twelve parts.                    *)
THEOREM AppsAreTheirParts ==
  AppsSpec => /\ VfsSpec /\ TableSpec /\ WifiSpec /\ BtSpec /\ WineSpec /\ StringsSpec
              /\ TermSpec /\ ConsoleSpec /\ StoreSpec /\ SnipSpec /\ FbSpec /\ AppletsSpec
<1>1. AppsInit =>
        /\ VfsInit /\ TableInit /\ WifiInit /\ BtInit /\ WineInit /\ StringsInit
        /\ TermInit /\ ConsoleInit /\ StoreInit /\ SnipInit /\ FbInit /\ AppletsInit
  BY DEF AppsInit
<1>. QED BY <1>1, SomePartsMove, OtherPartsMove, PTL
         DEF AppsSpec, VfsSpec, TableSpec, WifiSpec, BtSpec, WineSpec, StringsSpec,
             TermSpec, ConsoleSpec, StoreSpec, SnipSpec, FbSpec, AppletsSpec

(* Every variable of every part stays in its range, however many steps the *)
(* others take between two of its own: for all sizes of the tables, the    *)
(* screens and the words.                                                  *)
THEOREM AppTypesHold == AppsSpec => []AppTypes
<1>1. TableSpec => []TableTypeOK
  <2>1. TableInv => TableTypeOK
    BY DEF TableInv
  <2>. QED BY TableStart, TableStep, <2>1, PTL DEF TableSpec
<1>2. WifiSpec => []WifiTypeOK
  BY WifiStart, WifiStep, PTL DEF WifiSpec
<1>3. BtSpec => []BtTypeOK
  BY BtBegins, BtStep, BtInvTypes, PTL DEF BtSpec
<1>4. WineSpec => []WineTypeOK
  BY WineBegins, WineStep, WineInvImplies, PTL DEF WineSpec
<1>5. SnipSpec => []SnipTypeOK
  <2>1. SnipTypeOK /\ ScreenshotsFreed /\ [SnipNext]_snip_vars
          => (SnipTypeOK /\ ScreenshotsFreed)'
    BY SnipStep
  <2>. QED BY SnipBegins, <2>1, PTL DEF SnipSpec
<1>6. AppletsSpec => []AppletsTypeOK
  <2>1. AppletsInv /\ [QsNext \/ ExplorerNext \/ NotesNext \/ WizardNext]_applets_vars
          => AppletsInv'
    BY AppletsStep DEF AppletsNext
  <2>. QED BY <2>1, AppletsStart, AppletsInvImplies, PTL DEF AppletsSpec
<1>7. /\ VfsTypeOK /\ TableTypeOK /\ WifiTypeOK /\ BtTypeOK /\ WineTypeOK
      /\ TermTypeOK /\ ConsoleTypeOK /\ StoreTypeOK /\ SnipTypeOK /\ FbTypeOK
      /\ AppletsTypeOK
      => AppTypes
  BY DEF AppTypes
<1>. QED BY <1>1, <1>2, <1>3, <1>4, <1>5, <1>6, <1>7, AppsAreTheirParts, VfsTypes,
            TerminalTypes, DisplayShowsTheFoot, StoreTypes, LevelsStayLevels, PTL

(* What each part promises it keeps in the composition, all at once.       *)
THEOREM PromisesSurviveComposition ==
  AppsSpec =>
    /\ [](/\ FoundWhileAlive /\ OneNetwork /\ ListedWhileConnected /\ WineSound
          /\ StringsSound /\ ScreenSound /\ ShowsTheFoot /\ BooksBalance
          /\ ScreenshotsFreed /\ StaysInside /\ AppletsAgree)
    /\ OpenIsStable /\ RefStaysUntilOlderExits
BY AppsAreTheirParts, PidsStayFound, FlagsFollowPointer, ListFollowsFlags, PidsAndDrives,
   WordsAndNumbers, TextStaysOnScreen, DisplayShowsTheFoot, BooksAlwaysBalance,
   BlocksGoBack, DrawingStaysInside, AppletsSound, FirstNodeKeepsName, PointersStay, PTL
=============================================================================
