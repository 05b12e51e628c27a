------------------------------ MODULE Applets ------------------------------
(***************************************************************************)
(* The state of four small applications, each of them with actions and a   *)
(* next-state relation of its own: the quick settings                      *)
(* (userspace/gui/settings/quicksettings.c), the explorer's tabs           *)
(* (userspace/gui/explorer/explorer.c), the sticky notes                   *)
(* (userspace/gui/sticky/sticky.c) and the installation wizard             *)
(* (installer/installer.c).  What they draw, and the fields that are only  *)
(* set and drawn, are left out.                                            *)
(***************************************************************************)
EXTENDS Integers, Sequences, SequencesExt

CONSTANTS
  MAX_TABS, MAX_NOTES,  \* 10 and 32
  TabPaths,                \* what tabs are opened on
  Looks,                \* texts, places, sizes and colours of a note
  NOTES                 \* bound: notes ever created                    (2^32)

ASSUME AppletsAssumption ==
  /\ {MAX_TABS, MAX_NOTES, NOTES} \subseteq Nat /\ MAX_TABS > 0
  /\ "none" \notin Looks

VARIABLES
  qs,        \* the quick settings' structure, what the radios have to do with
  explorer,  \* its tabs and active_tab, here active; emptied: has the last
             \* tab ever been closed?  For the property
  notes,     \* the notes in their array, dense
  next_id,   \* next_note_id
  written,   \* for the property: the look last given to each id on the screen
  wizard     \* the installer's current_step, accepted_license and installing

applets_vars == <<qs, explorer, notes, next_id, written, wizard>>

-----------------------------------------------------------------------------
(* Operators named Bug_* are mutants of the definition that follows them.  *)

QsInitial ==
  qs = [wifi_enabled |-> TRUE, bluetooth_enabled |-> TRUE, airplane_mode |-> FALSE,
        wifi_connected |-> TRUE, bluetooth_connected |-> TRUE]

(* quicksettings_toggle_wifi, in airplane mode too.                        *)
ToggleWifi ==
  qs' = [qs EXCEPT !.wifi_enabled = ~@,
                   !.wifi_connected = @ /\ ~qs.wifi_enabled]

ToggleBluetooth ==
  qs' = [qs EXCEPT !.bluetooth_enabled = ~@,
                   !.bluetooth_connected = @ /\ ~qs.bluetooth_enabled]

(* The flags of the connections are forgotten.                             *)
Bug_ToggleAirplane ==
  qs' = IF qs.airplane_mode THEN [qs EXCEPT !.airplane_mode = FALSE]
        ELSE [qs EXCEPT !.airplane_mode = TRUE, !.wifi_enabled = FALSE,
                        !.bluetooth_enabled = FALSE]

(* quicksettings_toggle_airplane: its end brings nothing back.             *)
ToggleAirplane ==
  qs' = IF qs.airplane_mode THEN [qs EXCEPT !.airplane_mode = FALSE]
        ELSE [qs EXCEPT !.airplane_mode = TRUE, !.wifi_enabled = FALSE,
                        !.bluetooth_enabled = FALSE, !.wifi_connected = FALSE,
                        !.bluetooth_connected = FALSE]

QsNext ==
  /\ ToggleWifi \/ ToggleBluetooth \/ ToggleAirplane
  /\ UNCHANGED <<explorer, notes, next_id, written, wizard>>

-----------------------------------------------------------------------------
Tab(path, active) == [path |-> path, active |-> active]

(* One tab, on no path, its flag not set.                                  *)
ExplorerInitial ==
  explorer = [tabs |-> <<Tab("", FALSE)>>, active |-> 0, emptied |-> FALSE]

(* explorer_add_tab: the flag of the new tab is set, but active_tab, which *)
(* is what the drawing goes by, stays where it is.                         *)
AddTab(path) ==
  /\ Len(explorer.tabs) < MAX_TABS
  /\ explorer' = [explorer EXCEPT !.tabs = Append(@, Tab(path, TRUE))]

(* active_tab stays where it is.                                           *)
Bug_CloseTab(i) ==
  /\ i \in 0 .. Len(explorer.tabs) - 1
  /\ explorer' = [tabs |-> RemoveAt(explorer.tabs, i + 1), active |-> explorer.active,
                  emptied |-> explorer.emptied \/ Len(explorer.tabs) = 1]

(* explorer_close_tab: the tabs behind it move down.                       *)
CloseTab(i) ==
  /\ i \in 0 .. Len(explorer.tabs) - 1
  /\ LET count == Len(explorer.tabs) - 1
     IN  explorer' = [tabs |-> RemoveAt(explorer.tabs, i + 1),
                      active |-> IF explorer.active >= count THEN count - 1 ELSE explorer.active,
                      emptied |-> explorer.emptied \/ count = 0]

ExplorerNext ==
  /\ (\E path \in TabPaths : AddTab(path)) \/ (\E i \in 0 .. MAX_TABS : CloseTab(i))
  /\ UNCHANGED <<qs, notes, next_id, written, wizard>>

-----------------------------------------------------------------------------
NotesInitial == notes = <<>> /\ next_id = 1 /\ written = [id \in 1 .. NOTES |-> "none"]

Note(id, look) == [id |-> id, look |-> look, minimized |-> FALSE]

(* sticky_create_note, three times by sticky_init.                         *)
CreateNote(look) ==
  /\ Len(notes) < MAX_NOTES /\ next_id <= NOTES
  /\ notes' = Append(notes, Note(next_id, look))
  /\ next_id' = next_id + 1
  /\ written' = [written EXCEPT ![next_id] = look]

(* The first note of an id, 0 if there is none.                            *)
NoteAt(id) == SelectInSeq(notes, LAMBDA note : note.id = id)

(* The id is taken for the place.                                          *)
Bug_DeleteNote(id) ==
  /\ NoteAt(id) # 0 /\ id \in DOMAIN notes
  /\ notes' = RemoveAt(notes, id)
  /\ written' = [written EXCEPT ![id] = "none"]
  /\ UNCHANGED next_id

(* sticky_delete_note: the notes behind it move down.                      *)
DeleteNote(id) ==
  /\ NoteAt(id) # 0
  /\ notes' = RemoveAt(notes, NoteAt(id))
  /\ written' = [written EXCEPT ![id] = "none"]
  /\ UNCHANGED next_id

(* sticky_move_note, _resize_note, _set_text and _set_color.               *)
ChangeNote(id, look) ==
  /\ NoteAt(id) # 0
  /\ notes' = [notes EXCEPT ![NoteAt(id)].look = look]
  /\ written' = [written EXCEPT ![id] = look]
  /\ UNCHANGED next_id

(* sticky_minimize_note, and its opposite.                                 *)
MinimizeNote(id) ==
  /\ NoteAt(id) # 0
  /\ notes' = [notes EXCEPT ![NoteAt(id)].minimized = ~@]
  /\ UNCHANGED <<next_id, written>>

NotesNext ==
  /\ \/ \E look \in Looks : CreateNote(look)
     \/ \E id \in 1 .. NOTES :
          DeleteNote(id) \/ MinimizeNote(id) \/ \E look \in Looks : ChangeNote(id, look)
  /\ UNCHANGED <<qs, explorer, wizard>>

-----------------------------------------------------------------------------
Steps == <<"LANG", "REGION", "KEYBOARD", "LICENSE", "TYPE", "DISK", "ACCOUNT",
           "CUSTOMIZE", "INSTALLING", "COMPLETE">>

WizardInitial == wizard = [step |-> 1, accepted_license |-> FALSE, installing |-> FALSE]

(* installer_next_step: the license is not asked for.  Nothing leaves      *)
(* INSTALLING but the way back.                                            *)
NextStep ==
  /\ Steps[wizard.step] \notin {"INSTALLING", "COMPLETE"}
  /\ wizard' = [wizard EXCEPT !.step = @ + 1]

PrevStep == wizard.step > 1 /\ wizard' = [wizard EXCEPT !.step = @ - 1]

(* installer_accept_license, and its opposite.                             *)
AcceptLicense == wizard' = [wizard EXCEPT !.accepted_license = ~@]

(* installer_start_install, at any step.                                   *)
StartInstall == wizard' = [wizard EXCEPT !.installing = TRUE]

WizardNext ==
  /\ NextStep \/ PrevStep \/ AcceptLicense \/ StartInstall
  /\ UNCHANGED <<qs, explorer, notes, next_id, written>>

-----------------------------------------------------------------------------
AppletsInit ==
  QsInitial /\ ExplorerInitial /\ NotesInitial /\ WizardInitial

AppletsSpec ==
  AppletsInit /\ [][QsNext \/ ExplorerNext \/ NotesNext \/ WizardNext]_applets_vars

AppletsTypeOK ==
  /\ Len(explorer.tabs) <= MAX_TABS /\ Len(notes) <= MAX_NOTES
  /\ next_id \in 1 .. NOTES + 1 /\ wizard.step \in DOMAIN Steps
  /\ \A field \in DOMAIN qs : qs[field] \in BOOLEAN

(* A radio that is off shows no connection, whichever of the switches and  *)
(* the airplane mode, which ignore each other, turned it off.              *)
RadiosAgree ==
  /\ qs.wifi_connected => qs.wifi_enabled
  /\ qs.bluetooth_connected => qs.bluetooth_enabled

(* While there are tabs one of them is active, whichever were closed, until*)
(* the last one has been closed: active_tab is -1 from then on, and no tab *)
(* added later is the active one.                                          *)
OneTabActive ==
  IF explorer.emptied THEN explorer.active = -1
  ELSE explorer.active \in 0 .. Len(explorer.tabs) - 1

(* Each note on the screen is the only one of its id and looks as it was   *)
(* last told to, whichever others were deleted before or behind it.        *)
NotesKeepTheirs ==
  /\ \A k \in DOMAIN notes : notes[k].look = written[notes[k].id]
  /\ \A j, k \in DOMAIN notes : j < k => notes[j].id < notes[k].id
  /\ {id \in 1 .. NOTES : written[id] # "none"} = {notes[k].id : k \in DOMAIN notes}

(* The wizard never gets past INSTALLING: installer_next_step returns there*)
(* and nobody else moves on, so the last screen is never shown.            *)
NeverComplete == Steps[wizard.step] # "COMPLETE"

(* The four together.                                                      *)
AppletsAgree == RadiosAgree /\ OneTabActive /\ NotesKeepTheirs /\ NeverComplete
=============================================================================
