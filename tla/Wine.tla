-------------------------------- MODULE Wine --------------------------------
(***************************************************************************)
(* The Windows layer, userspace/apps/wine/wine.c: the processes it runs,   *)
(* the drive letters it maps and its settings.  The lists are dense arrays *)
(* with a count.  A process is its pid and its program; what else its      *)
(* entry holds, and the settings that nothing but the drawing reads, but   *)
(* one, are left out.  DLL overrides are only counted.                     *)
(***************************************************************************)
EXTENDS Naturals, Sequences, SequencesExt

CONSTANTS
  Programs,      \* what callers run
  Letters,       \* the letters they map; init maps "C", "D" and "Z"
  WINE_MAX_APPS, \* 64
  MAX_DRIVES,    \* 26
  MAX_OVERRIDES  \* 64

ASSUME WineAssumption ==
  /\ WINE_MAX_APPS \in Nat /\ MAX_DRIVES \in Nat /\ MAX_OVERRIDES \in Nat
  /\ MAX_DRIVES >= 3

VARIABLES
  wine,     \* the configuration structure
  reused    \* has an older process been killed while a younger one ran,
            \* since the list was last empty?  For the property

wine_vars == <<wine, reused>>

FIRST_PID == 1000

WineInit ==
  /\ wine = [enabled |-> TRUE, initialized |-> FALSE, processes |-> <<>>,
             drives |-> <<>>, overrides |-> 0, dxvk |-> TRUE]
  /\ reused = FALSE

-----------------------------------------------------------------------------
(* Operators named Bug_* are mutants of the definition that follows them.  *)

Mapped(letter, host) == [letter |-> letter, host |-> host]

StandardDrives == <<Mapped("C", "drive_c"), Mapped("D", "/media"), Mapped("Z", "/")>>

(* wine_init: the first three drives are written over and the others fall  *)
(* behind the count.                                                       *)
Started(w) ==
  IF w.initialized THEN w
  ELSE [w EXCEPT !.drives = StandardDrives, !.initialized = TRUE]

WineStart == wine' = Started(wine) /\ UNCHANGED reused

(* wine_shutdown: its loop skips every second entry, the count is cleared  *)
(* all the same.                                                           *)
Stopped(w) == [w EXCEPT !.processes = <<>>, !.initialized = FALSE]

WineShutdown == wine' = Stopped(wine) /\ reused' = FALSE

(* Pids come from a counter that starts over too early.                    *)
Bug_NextPid(w) == FIRST_PID + (Len(w.processes) % 2)

(* Pids come from the count.                                               *)
NextPid(w) == FIRST_PID + Len(w.processes)

(* wine_run_exe starts the layer when it is not, disabled or not; a full   *)
(* list returns 0.                                                         *)
WineRun(exe) ==
  /\ wine' = LET w == Started(wine)
             IN  IF Len(w.processes) < WINE_MAX_APPS
                 THEN [w EXCEPT !.processes = Append(@, [pid |-> NextPid(w), exe |-> exe])]
                 ELSE w
  /\ UNCHANGED reused

(* The entries of a pid.                                                   *)
Holders(pid) == {k \in DOMAIN wine.processes : wine.processes[k].pid = pid}

(* wine_kill_process: the first entry of that pid goes, those behind it    *)
(* move down.                                                              *)
WineKill(pid) ==
  /\ Holders(pid) # {}
  /\ LET k    == Min(Holders(pid))
         left == RemoveAt(wine.processes, k)
     IN  /\ wine' = [wine EXCEPT !.processes = left]
         /\ reused' = (left # <<>> /\ (reused \/ k <= Len(left)))

WineSetEnabled(on) ==
  /\ wine' = LET w == [wine EXCEPT !.enabled = on] IN IF on THEN w ELSE Stopped(w)
  /\ reused' = (reused /\ on)

(* wine_override_dll; the list of overrides is never shortened.            *)
WineOverride ==
  /\ wine.overrides < MAX_OVERRIDES
  /\ wine' = [wine EXCEPT !.overrides = @ + 1]
  /\ UNCHANGED reused

(* wine_add_drive, of a letter that is mapped already too.                 *)
WineAddDrive(letter) ==
  /\ Len(wine.drives) < MAX_DRIVES
  /\ wine' = [wine EXCEPT !.drives = Append(@, Mapped(letter, "/mnt"))]
  /\ UNCHANGED reused

(* The last of the entries of a letter is taken.                           *)
Bug_DrivePath(letter) ==
  LET k == SelectLastInSeq(wine.drives, LAMBDA d : d.letter = letter)
  IN  IF k = 0 THEN "none" ELSE wine.drives[k].host

(* wine_get_drive_path: the first entry of the letter.                     *)
DrivePath(letter) ==
  LET k == SelectInSeq(wine.drives, LAMBDA d : d.letter = letter)
  IN  IF k = 0 THEN "none" ELSE wine.drives[k].host

WineDxvk(on) == wine' = [wine EXCEPT !.dxvk = on] /\ UNCHANGED reused

WineNext ==
  \/ WineStart \/ WineShutdown \/ WineOverride
  \/ \E exe \in Programs : WineRun(exe)
  \/ \E pid \in FIRST_PID .. FIRST_PID + WINE_MAX_APPS : WineKill(pid)
  \/ \E on \in BOOLEAN : WineSetEnabled(on) \/ WineDxvk(on)
  \/ \E letter \in Letters : WineAddDrive(letter)

WineSpec == WineInit /\ [][WineNext]_wine_vars

-----------------------------------------------------------------------------
WineTypeOK ==
  /\ {wine.enabled, wine.initialized, wine.dxvk, reused} \subseteq BOOLEAN
  /\ Len(wine.processes) <= WINE_MAX_APPS /\ Len(wine.drives) <= MAX_DRIVES
  /\ wine.overrides \in 0 .. MAX_OVERRIDES
  /\ \A k \in DOMAIN wine.processes :
       wine.processes[k].pid \in FIRST_PID .. FIRST_PID + WINE_MAX_APPS - 1

(* As long as only the youngest process is ever killed, a pid belongs to   *)
(* one process, so wine_kill_process and wine_get_process never hit        *)
(* another one than the caller ran.                                        *)
PidsOwn == ~reused => \A k, m \in DOMAIN wine.processes :
                        wine.processes[k].pid = wine.processes[m].pid => k = m

(* Once the layer is up, C, D and Z lead where wine_init mapped them,      *)
(* whatever was added before it or after it under the same letters.        *)
BuiltinDrives ==
  wine.initialized => \A k \in DOMAIN StandardDrives :
    DrivePath(StandardDrives[k].letter) = StandardDrives[k].host

(* Both together.                                                          *)
WineSound == PidsOwn /\ BuiltinDrives
=============================================================================
