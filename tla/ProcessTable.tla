---------------------------- MODULE ProcessTable ----------------------------
(***************************************************************************)
(* The second process table of the kernel, kernel/sched/process.c: a dense *)
(* array whose entries move down when one before them exits.  A process's  *)
(* stack is a field of its entry; esp is the entry that it points into, an *)
(* entry's place in the array standing for the address.  Names, priorities *)
(* and user ids are left out.  pid_t counts up to PIDS, a bound.           *)
(***************************************************************************)
EXTENDS Integers

CONSTANTS
  MAX_PROCESSES,  \* 256
  PIDS            \* bound: pids handed out

ASSUME TableAssumption ==
  /\ MAX_PROCESSES \in Nat \ {0}
  /\ PIDS \in Nat

Slots == 0 .. MAX_PROCESSES - 1
NO_ENTRY == -1         \* no entry

VARIABLES
  processes,      \* [Slots -> entries], those behind the count included
  process_count,
  next_pid,
  alive,          \* pids created and not exited, for the properties
  ref             \* what process_get_by_pid gave a caller: the pid it asked
                  \* for and the entry it points to

table_vars == <<processes, process_count, next_pid, alive, ref>>

Unused == [pid |-> 0, state |-> "UNUSED", esp |-> NO_ENTRY]

TableInit ==
  /\ processes = [i \in Slots |-> IF i = 0 THEN [Unused EXCEPT !.state = "RUNNING"]
                                           ELSE Unused]
  /\ process_count = 1 /\ next_pid = 1
  /\ alive = {0}
  /\ ref = [pid |-> 0, slot |-> 0]

-----------------------------------------------------------------------------
(* Operators named Bug_* are mutants of the definition that follows them.  *)

(* process_create_new, with or without an entry function: without one esp  *)
(* keeps what the entry's last owner left.  A full table returns -1.       *)
CreateProcess(entry) ==
  /\ process_count < MAX_PROCESSES /\ next_pid <= PIDS
  /\ processes' = [processes EXCEPT ![process_count] =
       [pid |-> next_pid, state |-> "READY",
        esp |-> IF entry THEN process_count ELSE @.esp]]
  /\ process_count' = process_count + 1
  /\ next_pid' = next_pid + 1
  /\ alive' = alive \cup {next_pid}
  /\ UNCHANGED ref

(* The entries whose pid is p.                                             *)
Matches(p) == {i \in 0 .. process_count - 1 : processes[i].pid = p}
First(p)   == CHOOSE i \in Matches(p) : \A j \in Matches(p) : i <= j

(* The last entry is not moved down.                                       *)
Bug_ShiftedShort(i) ==
  [j \in Slots |-> IF j >= i /\ j < process_count - 2 THEN processes[j + 1]
                                                      ELSE processes[j]]

(* The move begins one entry too early.                                    *)
Bug_ShiftedEarly(i) ==
  [j \in Slots |-> IF j >= i - 1 /\ j < process_count - 1 THEN processes[j + 1]
                                                         ELSE processes[j]]

(* The array with entry i overwritten by the ones behind it.               *)
Shifted(i) ==
  [j \in Slots |-> IF j >= i /\ j < process_count - 1
                   THEN processes[j + 1]
                   ELSE IF j = i THEN [processes[j] EXCEPT !.state = "ZOMBIE"]
                                 ELSE processes[j]]

(* process_exit_new(p); a pid that is not there changes nothing.           *)
Exit(p) ==
  /\ Matches(p) # {}
  /\ processes' = Shifted(First(p))
  /\ process_count' = process_count - 1
  /\ alive' = alive \ {p}
  /\ UNCHANGED <<next_pid, ref>>

(* process_get_by_pid(p); NULL is NO_ENTRY.                                *)
Get(p) ==
  /\ ref' = [pid |-> p, slot |-> IF Matches(p) = {} THEN NO_ENTRY ELSE First(p)]
  /\ UNCHANGED <<processes, process_count, next_pid, alive>>

TableNext ==
  \/ \E entry \in BOOLEAN : CreateProcess(entry)
  \/ \E p \in 0 .. PIDS : Exit(p)
  \/ \E p \in 0 .. PIDS : Get(p)

TableSpec == TableInit /\ [][TableNext]_table_vars

-----------------------------------------------------------------------------
InUse == 0 .. process_count - 1

(* Every variable stays in its range.                                      *)
TableTypeOK ==
  /\ processes \in [Slots -> [pid : Nat, esp : Slots \cup {NO_ENTRY},
                              state : {"UNUSED", "READY", "RUNNING", "ZOMBIE"}]]
  /\ process_count \in 0 .. MAX_PROCESSES
  /\ next_pid \in Nat /\ alive \subseteq Nat
  /\ ref \in [pid : Nat, slot : Slots \cup {NO_ENTRY}]

(* A pid is found exactly from its creation to its exit: moving entries    *)
(* neither loses one nor brings one back, keeps them in the order of       *)
(* creation, and leaves no zombie among them.                              *)
FoundWhileAlive ==
  /\ alive = {processes[i].pid : i \in InUse}
  /\ \A i \in InUse : processes[i].state \in {"READY", "RUNNING"}
  /\ \A i, j \in InUse : i < j => processes[i].pid < processes[j].pid

RefGood == ref.slot \in InUse /\ processes[ref.slot].pid = ref.pid

(* What process_get_by_pid returned stays that process's entry while it    *)
(* lives, until an older process exits: only then do entries move.         *)
RefStaysUntilOlderExits ==
  [][UNCHANGED ref /\ RefGood /\ ref.pid \in alive' =>
       RefGood' \/ \E p \in alive \ alive' : p < ref.pid]_table_vars
=============================================================================
