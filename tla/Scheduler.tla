----------------------------- MODULE Scheduler -----------------------------
(***************************************************************************)
(* The process scheduler of kernel/sched/scheduler.c.                      *)
(*                                                                         *)
(* processes[] is kept as one function per field that decides something:   *)
(* pid, state, priority and time_slice.  name, uid, gid, total_time and    *)
(* the saved registers are never read by a decision and are left out.      *)
(*                                                                         *)
(* Two actors share the table.  The mainline calls process_create,         *)
(* process_exit and scheduler_start; IRQ0 calls scheduler_tick between any *)
(* two stores of the mainline.  process_create is therefore split at the   *)
(* stores a tick can tell apart, in the order in which the compiled object *)
(* performs them: pid, state, priority, time_slice.                        *)
(***************************************************************************)
EXTENDS Integers

CONSTANTS
  MAX_PROCESSES,   \* slots of processes[]                               (256)
  TIME_SLICE,      \* ticks granted by a dispatch                        (100)
  Priorities,      \* values callers pass for priority
  IDLE_PRIORITY,   \* priority of "idle"                                 (255)
  PRIO_NONE,       \* initial best_prio, above every ordinary priority
                   \*                                            (0xFFFFFFFF)
  NULL,            \* no current process, no slot, no priority
  IrqBeforeStart,  \* may IRQ0 arrive before scheduler_start has returned?
  IrqDuringCalls   \* may IRQ0 arrive inside a mainline call?

Slots == 0 .. MAX_PROCESSES - 1

ASSUME SchedulerAssumption ==
  /\ MAX_PROCESSES \in Nat \ {0}
  /\ TIME_SLICE \in Nat
  /\ Priorities \subseteq Nat
  /\ IDLE_PRIORITY \in Nat
  /\ PRIO_NONE \in Nat
  /\ IDLE_PRIORITY < PRIO_NONE
  /\ \A p \in Priorities : p <= PRIO_NONE
  /\ NULL \notin Nat
  /\ IrqBeforeStart \in BOOLEAN
  /\ IrqDuringCalls \in BOOLEAN

ProcState == {"UNUSED", "RUNNING", "READY", "BLOCKED", "ZOMBIE"}

VARIABLES
  pid,         \* [Slots -> Nat]        0 in a slot that was never claimed
  state,       \* [Slots -> ProcState]
  priority,    \* [Slots -> Nat]
  time_slice,  \* [Slots -> 0 .. TIME_SLICE]
  current,     \* current_process: a slot, or NULL
  next_pid,
  started,     \* has scheduler_start returned?
  main         \* the mainline: the store it performs next, on which slot

table == <<pid, state, priority, time_slice>>
vars  == <<pid, state, priority, time_slice, current, next_pid, started, main>>

-----------------------------------------------------------------------------
(* Operators named Bug_* are mutants of the definition that follows them.  *)

Free(i)    == state[i] = "UNUSED"
Calling(o) == main.op = o
Idle       == [op |-> "none", slot |-> NULL, prio |-> NULL]

(* After scheduler_init: "idle" in slot 0 with pid 1, the rest unused.     *)
Init ==
  /\ pid        = [i \in Slots |-> IF i = 0 THEN 1 ELSE 0]
  /\ state      = [i \in Slots |-> IF i = 0 THEN "READY" ELSE "UNUSED"]
  /\ priority   = [i \in Slots |-> IF i = 0 THEN IDLE_PRIORITY ELSE 0]
  /\ time_slice = [i \in Slots |-> IF i = 0 THEN TIME_SLICE ELSE 0]
  /\ current    = NULL
  /\ next_pid   = 2
  /\ started    = FALSE
  /\ main       = Idle

-----------------------------------------------------------------------------
(* The pid is handed out without advancing next_pid.                       *)
Bug_ClaimSamePid(prio) ==
  /\ Calling("none")
  /\ \E i \in Slots :
       /\ Free(i)
       /\ \A j \in Slots : Free(j) => i <= j
       /\ pid' = [pid EXCEPT ![i] = next_pid]
       /\ main' = [op |-> "state", slot |-> i, prio |-> prio]
  /\ UNCHANGED <<next_pid, state, priority, time_slice, current, started>>

(* process_create(name, entry, prio).  With no free slot it returns -1 and *)
(* changes nothing.                                                        *)
CreateClaim(prio) ==
  /\ Calling("none")
  /\ \E i \in Slots :
       /\ Free(i)
       /\ \A j \in Slots : Free(j) => i <= j
       /\ pid' = [pid EXCEPT ![i] = next_pid]
       /\ main' = [op |-> "state", slot |-> i, prio |-> prio]
  /\ next_pid' = next_pid + 1
  /\ UNCHANGED <<state, priority, time_slice, current, started>>

CreateState ==
  /\ Calling("state")
  /\ state' = [state EXCEPT ![main.slot] = "READY"]
  /\ main' = [main EXCEPT !.op = "priority"]
  /\ UNCHANGED <<pid, priority, time_slice, current, next_pid, started>>

CreatePriority ==
  /\ Calling("priority")
  /\ priority' = [priority EXCEPT ![main.slot] = main.prio]
  /\ main' = [main EXCEPT !.op = "time_slice"]
  /\ UNCHANGED <<pid, state, time_slice, current, next_pid, started>>

CreateTimeSlice ==
  /\ Calling("time_slice")
  /\ time_slice' = [time_slice EXCEPT ![main.slot] = TIME_SLICE]
  /\ main' = Idle
  /\ UNCHANGED <<pid, state, priority, current, next_pid, started>>

(* process_exit(p): the first slot with that pid becomes a zombie.  Slots  *)
(* never claimed have pid 0, and p = 0 finds the first of them.            *)
Exit(p) ==
  /\ Calling("none")
  /\ \E i \in Slots :
       /\ pid[i] = p
       /\ \A j \in Slots : pid[j] = p => i <= j
       /\ state' = [state EXCEPT ![i] = "ZOMBIE"]
  /\ UNCHANGED <<pid, priority, time_slice, current, next_pid, started, main>>

-----------------------------------------------------------------------------
(* Slot i precedes slot j in schedule()'s scan for the least priority.     *)
Precedes(i, j) ==
  \/ priority[i] < priority[j]
  \/ priority[i] = priority[j] /\ i <= j

(* The fallback scan is missing.                                           *)
Bug_PickedNoFallback(st) ==
  LET R == {i \in Slots : st[i] = "READY" /\ priority[i] < PRIO_NONE}
  IN  {i \in R : \A j \in R : Precedes(i, j)}

(* The scan takes zombies for candidates.                                  *)
Bug_PickedZombie(st) ==
  LET R == {i \in Slots : st[i] \in {"READY", "ZOMBIE"}}
  IN  {i \in R : \A j \in R : Precedes(i, j)}

(* The scan stops at the first READY slot, whatever its priority.          *)
Bug_PickedFirst(st) ==
  LET R == {i \in Slots : st[i] = "READY"}
  IN  {i \in R : \A j \in R : i <= j}

(* schedule(): among the READY slots of st, the first one of least         *)
(* priority below PRIO_NONE; if there is none, the first READY one.        *)
Picked(st) ==
  LET R    == {i \in Slots : st[i] = "READY"}
      Rank == {i \in R : priority[i] < PRIO_NONE}
  IN  IF Rank # {}
      THEN {i \in Rank : \A j \in Rank : Precedes(i, j)}
      ELSE {i \in R : \A j \in R : i <= j}

Dispatch(st, i) ==
  /\ current' = i
  /\ state' = [st EXCEPT ![i] = "RUNNING"]
  /\ time_slice' = [time_slice EXCEPT ![i] = TIME_SLICE]

Schedule(st) ==
  IF Picked(st) = {}
  THEN state' = st /\ UNCHANGED <<current, time_slice>>
  ELSE \E i \in Picked(st) : Dispatch(st, i)

(* scheduler_start(): schedule() on the mainline, where a tick may fall    *)
(* between the scan and the dispatch.                                      *)
StartScan ==
  /\ Calling("none") /\ ~started
  /\ IF Picked(state) = {}
     THEN main' = [Idle EXCEPT !.op = "start"]
     ELSE \E i \in Picked(state) :
            main' = [Idle EXCEPT !.op = "start", !.slot = i]
  /\ UNCHANGED <<table, current, next_pid, started>>

StartDispatch ==
  /\ Calling("start")
  /\ IF main.slot = NULL
     THEN UNCHANGED <<state, current, time_slice>>
     ELSE Dispatch(state, main.slot)
  /\ started' = TRUE
  /\ main' = Idle
  /\ UNCHANGED <<pid, priority, next_pid>>

(* scheduler_tick(), called by IRQ0.                                       *)
IrqEnabled ==
  /\ started \/ IrqBeforeStart
  /\ Calling("none") \/ IrqDuringCalls

FirstTick ==
  /\ IrqEnabled /\ current = NULL
  /\ Schedule(state)
  /\ UNCHANGED <<pid, priority, next_pid, started, main>>

SliceTick ==
  /\ IrqEnabled /\ current # NULL
  /\ time_slice[current] > 0
  /\ time_slice' = [time_slice EXCEPT ![current] = @ - 1]
  /\ UNCHANGED <<pid, state, priority, current, next_pid, started, main>>

(* The process that loses the CPU is not made READY.                       *)
Bug_ExpiryKeepsRunning ==
  /\ IrqEnabled /\ current # NULL
  /\ time_slice[current] = 0
  /\ Schedule(state)
  /\ UNCHANGED <<pid, priority, next_pid, started, main>>

ExpiryTick ==
  /\ IrqEnabled /\ current # NULL
  /\ time_slice[current] = 0
  /\ Schedule([state EXCEPT ![current] = "READY"])
  /\ UNCHANGED <<pid, priority, next_pid, started, main>>

Tick == FirstTick \/ SliceTick \/ ExpiryTick

-----------------------------------------------------------------------------
Create == CreateState \/ CreatePriority \/ CreateTimeSlice

Next ==
  \/ \E prio \in Priorities : CreateClaim(prio)
  \/ CreateState \/ CreatePriority \/ CreateTimeSlice
  \/ \E p \in 0 .. MAX_PROCESSES + 1 : Exit(p)
  \/ StartScan \/ StartDispatch
  \/ FirstTick \/ SliceTick \/ ExpiryTick

Spec == Init /\ [][Next]_vars

(* The PIT keeps raising IRQ0, and a mainline call that was interrupted    *)
(* runs on when the handler returns.  Nothing obliges the kernel to create *)
(* or exit a process, or to start the scheduler.                           *)
Fairness == WF_vars(Tick) /\ WF_vars(Create \/ StartDispatch)

FairSpec == Spec /\ Fairness

-----------------------------------------------------------------------------
Main == [op   : {"none", "state", "priority", "time_slice", "start"},
         slot : Slots \cup {NULL},
         prio : Nat \cup {NULL}]

(* Every variable stays in its range; a process_create in progress has     *)
(* claimed a slot.                                                         *)
TypeOK ==
  /\ pid \in [Slots -> Nat]
  /\ state \in [Slots -> ProcState]
  /\ priority \in [Slots -> Nat]
  /\ time_slice \in [Slots -> 0 .. TIME_SLICE]
  /\ current \in Slots \cup {NULL}
  /\ next_pid \in Nat \ {0}
  /\ started \in BOOLEAN
  /\ main \in Main
  /\ main.op \in {"state", "priority", "time_slice"} =>
       main.slot \in Slots /\ main.prio \in Nat

(* The CPU has one owner: only current_process is ever RUNNING, whatever   *)
(* the mainline was doing when the tick arrived.                           *)
OneRunning == \A i \in Slots : state[i] = "RUNNING" => i = current

(* Two processes never share a pid, so process_exit and                    *)
(* scheduler_get_process find the process they are asked for.              *)
PidsUnique == \A i, j \in Slots : pid[i] = pid[j] /\ pid[i] # 0 => i = j

(* No exit gives a slot back: in its life the kernel creates at most       *)
(* MAX_PROCESSES processes, idle included, and next_pid never wraps.       *)
PidsBounded == next_pid <= MAX_PROCESSES + 1

(* The tick that takes the CPU away from an exited process is the only     *)
(* step that can bring a zombie back, and only that zombie.                *)
OnlyCurrentRevives ==
  [][\A i \in Slots : state[i] = "ZOMBIE" /\ state'[i] # "ZOMBIE"
                        => i = current /\ time_slice[i] = 0]_vars

(* The priority the creator of slot i asked for, stored or not yet.        *)
Requested(i) ==
  IF main.slot = i /\ main.op \in {"state", "priority"}
  THEN main.prio
  ELSE priority[i]

(* Apart from a slot whose priority process_create has yet to store, a     *)
(* dispatch never passes over a READY process of a higher priority, as     *)
(* priorities were requested.                                              *)
SettledByPriority ==
  [][\A i \in Slots : state[i] # "RUNNING" /\ state'[i] = "RUNNING" =>
       \/ main.slot = i /\ main.op = "priority"
       \/ \A j \in Slots : state'[j] = "READY" => Requested(i) <= Requested(j)]_vars

(* Without that exception: no dispatch passes over a READY process of a    *)
(* higher priority (scheduler.c:23, "0=highest, 255=lowest").              *)
DispatchByPriority ==
  [][\A i \in Slots : state[i] # "RUNNING" /\ state'[i] = "RUNNING" =>
       \A j \in Slots : state'[j] = "READY" => Requested(i) <= Requested(j)]_vars

-----------------------------------------------------------------------------
(* Slot i is READY and comes first, by priority and then by index, among   *)
(* the processes that want the CPU.                                        *)
ComesFirst(i) ==
  /\ state[i] = "READY"
  /\ \A j \in Slots \ {i} : state[j] \in {"READY", "RUNNING"} =>
       \/ Requested(i) < Requested(j)
       \/ Requested(i) = Requested(j) /\ i < j

(* The process that comes first gets the CPU once the scheduler is         *)
(* started: it cannot come first and wait for ever.                        *)
FirstIsServed == \A i \in Slots : started /\ ComesFirst(i) ~> ~ComesFirst(i)
=============================================================================
