-------------------------- MODULE SchedulerProofs --------------------------
(* Theorems about Scheduler, for every number of slots, every time slice   *)
(* and every set of priorities.                                            *)
EXTENDS Scheduler, TLAPS

LEMMA PickedIsReady ==
  ASSUME NEW st, NEW i \in Picked(st)
  PROVE  i \in Slots /\ st[i] = "READY"
BY DEF Picked

(* What schedule() does to the table it is given: nothing, or it makes one *)
(* READY slot RUNNING and current.                                         *)
LEMMA ScheduleEffect ==
  ASSUME TypeOK, NEW st \in [Slots -> ProcState], Schedule(st)
  PROVE  /\ TypeOK => state' \in [Slots -> ProcState]
         /\ time_slice' \in [Slots -> 0 .. TIME_SLICE]
         /\ current' \in Slots \cup {NULL}
         /\ \/ state' = st /\ current' = current
            \/ /\ current' \in Slots
               /\ st[current'] = "READY"
               /\ state' = [st EXCEPT ![current'] = "RUNNING"]
<1>1. CASE Picked(st) = {}
  BY <1>1 DEF Schedule, TypeOK
<1>2. CASE Picked(st) # {}
  <2>1. PICK i \in Picked(st) : Dispatch(st, i)
    BY <1>2 DEF Schedule
  <2>2. i \in Slots /\ st[i] = "READY"
    BY PickedIsReady
  <2>. QED BY <2>1, <2>2, SchedulerAssumption DEF Dispatch, TypeOK, ProcState
<1>. QED BY <1>1, <1>2

-----------------------------------------------------------------------------
(* Type correctness: every variable stays in its range whatever the        *)
(* mainline was doing when a tick arrived; in particular the slice         *)
(* counter, an unsigned integer in the code, never goes below zero.        *)
LEMMA TypeInit == Init => TypeOK
<1> SUFFICES ASSUME Init PROVE TypeOK
  OBVIOUS
<1>1. pid \in [Slots -> Nat] /\ priority \in [Slots -> Nat]
  BY SchedulerAssumption DEF Init
<1>2. state \in [Slots -> ProcState]
  BY DEF Init, ProcState
<1>3. time_slice \in [Slots -> 0 .. TIME_SLICE]
  BY SchedulerAssumption DEF Init
<1>4. main \in Main /\ main.op = "none"
  BY DEF Init, Main, Idle
<1>5. next_pid \in Nat \ {0} /\ current \in Slots \cup {NULL}
  BY DEF Init
<1>6. started \in BOOLEAN
  BY DEF Init
<1>. QED BY <1>1, <1>2, <1>3, <1>4, <1>5, <1>6 DEF TypeOK

LEMMA TypeStep == TypeOK /\ [Next]_vars => TypeOK'
<1> SUFFICES ASSUME TypeOK, [Next]_vars PROVE TypeOK'
  OBVIOUS
<1>1. ASSUME NEW prio \in Priorities, CreateClaim(prio) PROVE TypeOK'
  BY <1>1, SchedulerAssumption DEF CreateClaim, TypeOK, Main, Calling
<1>2. CASE CreateState
  BY <1>2 DEF CreateState, TypeOK, Main, Calling, ProcState
<1>3. CASE CreatePriority
  BY <1>3 DEF CreatePriority, TypeOK, Main, Calling
<1>4. CASE CreateTimeSlice
  BY <1>4, SchedulerAssumption
  DEF CreateTimeSlice, TypeOK, Main, Calling, Idle
<1>5. ASSUME NEW p \in 0 .. MAX_PROCESSES + 1, Exit(p) PROVE TypeOK'
  BY <1>5 DEF Exit, TypeOK, ProcState
<1>6. CASE StartScan
  <2>1. \E i \in Slots \cup {NULL} :
          main' = [op |-> "start", slot |-> i, prio |-> NULL]
    <3>1. CASE Picked(state) = {}
      BY <1>6, <3>1 DEF StartScan, Idle
    <3>2. CASE Picked(state) # {}
      <4>1. PICK i \in Picked(state) :
              main' = [Idle EXCEPT !.op = "start", !.slot = i]
        BY <1>6, <3>2 DEF StartScan
      <4>2. i \in Slots
        BY PickedIsReady
      <4>. QED BY <4>1, <4>2 DEF Idle
    <3>. QED BY <3>1, <3>2
  <2>2. main' \in Main /\ main'.op = "start"
    BY <2>1 DEF Main
  <2>. QED BY <1>6, <2>2 DEF StartScan, TypeOK, table
<1>7. CASE StartDispatch
  <2>1. CASE main.slot = NULL
    BY <1>7, <2>1 DEF StartDispatch, TypeOK, Main, Idle
  <2>2. CASE main.slot # NULL
    <3>1. main.slot \in Slots
      BY <2>2 DEF TypeOK, Main
    <3>. QED BY <1>7, <2>2, <3>1, SchedulerAssumption
         DEF StartDispatch, Dispatch, TypeOK, Main, Idle, ProcState
  <2>. QED BY <2>1, <2>2
<1>8. CASE FirstTick
  BY <1>8, ScheduleEffect DEF FirstTick, TypeOK
<1>9. CASE SliceTick
  BY <1>9, SchedulerAssumption DEF SliceTick, TypeOK
<1>10. CASE ExpiryTick
  <2>1. [state EXCEPT ![current] = "READY"] \in [Slots -> ProcState]
    BY DEF TypeOK, ProcState
  <2>. QED BY <1>10, <2>1, ScheduleEffect DEF ExpiryTick, TypeOK
<1>11. CASE UNCHANGED vars
  BY <1>11 DEF vars, TypeOK
<1>. QED
  BY <1>1, <1>2, <1>3, <1>4, <1>5, <1>6, <1>7, <1>8, <1>9, <1>10, <1>11
  DEF Next

THEOREM TypeCorrect == Spec => []TypeOK
BY TypeInit, TypeStep, PTL DEF Spec

-----------------------------------------------------------------------------
(* One owner of the CPU.  OneRunning is not inductive: StartDispatch would *)
(* break it after an early tick.  With IRQ0 masked until scheduler_start   *)
(* returns, nobody is current before that, and it is called once.          *)
RunInv ==
  /\ OneRunning
  /\ ~started => current = NULL
  /\ main.op = "start" => ~started

LEMMA RunInit == Init => RunInv
BY DEF Init, RunInv, OneRunning, Idle

LEMMA RunStep ==
  ASSUME ~IrqBeforeStart
  PROVE  TypeOK /\ RunInv /\ [Next]_vars => RunInv'
<1> SUFFICES ASSUME TypeOK, RunInv, [Next]_vars PROVE RunInv'
  OBVIOUS
<1>1. ASSUME NEW prio \in Priorities, CreateClaim(prio) PROVE RunInv'
  BY <1>1 DEF CreateClaim, RunInv, OneRunning
<1>2. CASE CreateState
  BY <1>2 DEF CreateState, RunInv, OneRunning, TypeOK, Main, Calling
<1>3. CASE CreatePriority
  BY <1>3 DEF CreatePriority, RunInv, OneRunning, TypeOK, Main, Calling
<1>4. CASE CreateTimeSlice
  BY <1>4 DEF CreateTimeSlice, RunInv, OneRunning, Idle
<1>5. ASSUME NEW p \in 0 .. MAX_PROCESSES + 1, Exit(p) PROVE RunInv'
  BY <1>5 DEF Exit, RunInv, OneRunning, TypeOK
<1>6. CASE StartScan
  BY <1>6 DEF StartScan, RunInv, OneRunning, table
<1>7. CASE StartDispatch
  <2>1. current = NULL /\ \A i \in Slots : state[i] # "RUNNING"
    BY <1>7, SchedulerAssumption DEF StartDispatch, RunInv, OneRunning, Calling, Slots
  <2>2. main.slot = NULL \/ main.slot \in Slots
    BY DEF TypeOK, Main
  <2>3. OneRunning'
    BY <1>7, <2>1, <2>2 DEF StartDispatch, Dispatch, OneRunning, TypeOK
  <2>4. (main.op = "start" => ~started)'
    BY <1>7 DEF StartDispatch, Idle
  <2>5. (~started => current = NULL)'
    BY <1>7 DEF StartDispatch
  <2>. QED BY <2>3, <2>4, <2>5 DEF RunInv
<1>8. CASE FirstTick
  <2>1. started /\ started' = started /\ main' = main
    BY <1>8 DEF FirstTick, IrqEnabled
  <2>2. \A i \in Slots : state[i] # "RUNNING"
    BY <1>8, SchedulerAssumption DEF FirstTick, RunInv, OneRunning, Slots
  <2>3. OneRunning'
    BY <1>8, <2>2, ScheduleEffect DEF FirstTick, OneRunning, TypeOK
  <2>. QED BY <2>1, <2>3 DEF RunInv
<1>9. CASE SliceTick
  BY <1>9 DEF SliceTick, RunInv, OneRunning
<1>10. CASE ExpiryTick
  <2> DEFINE st == [state EXCEPT ![current] = "READY"]
  <2>1. started /\ started' = started /\ main' = main
    BY <1>10 DEF ExpiryTick, IrqEnabled
  <2>2. st \in [Slots -> ProcState] /\ current \in Slots
    BY <1>10 DEF ExpiryTick, TypeOK, ProcState
  <2>3. \A i \in Slots : st[i] # "RUNNING"
    BY <2>2 DEF RunInv, OneRunning, TypeOK
  <2>4. Schedule(st)
    BY <1>10 DEF ExpiryTick
  <2>5. OneRunning'
    BY <2>2, <2>3, <2>4, ScheduleEffect DEF OneRunning
  <2>. QED BY <2>1, <2>5 DEF RunInv
<1>11. CASE UNCHANGED vars
  BY <1>11 DEF vars, RunInv, OneRunning
<1>. QED
  BY <1>1, <1>2, <1>3, <1>4, <1>5, <1>6, <1>7, <1>8, <1>9, <1>10, <1>11
  DEF Next

(* If the timer is unmasked only after scheduler_start, no interleaving of *)
(* ticks with process_create and process_exit ever leaves two processes    *)
(* RUNNING, or one RUNNING that is not current_process.                    *)
THEOREM OneOwner ==
  ASSUME ~IrqBeforeStart
  PROVE  Spec => []OneRunning
<1>1. RunInv => OneRunning
  BY DEF RunInv
<1>. QED BY RunInit, RunStep, TypeCorrect, <1>1, PTL DEF Spec

-----------------------------------------------------------------------------
(* Pids.  A slot is claimed between the store of its pid and the store of  *)
(* its state.  The strengthening says that free slots sit behind every pid *)
(* handed out: next_pid is at most one more than any free slot's index.    *)
Claimed(i) == main.op = "state" /\ main.slot = i

PidInv ==
  /\ \A i \in Slots : pid[i] < next_pid
  /\ \A i \in Slots : Free(i) /\ ~Claimed(i) => next_pid <= i + 1
  /\ PidsUnique
  /\ PidsBounded

(* A step that keeps the pids and frees no slot keeps PidInv.              *)
LEMMA PidFrame ==
  ASSUME TypeOK, PidInv,
         pid' = pid, next_pid' = next_pid,
         \A i \in Slots : Free(i)' /\ ~Claimed(i)' => Free(i) /\ ~Claimed(i)
  PROVE  PidInv'
BY DEF PidInv, PidsUnique, PidsBounded

LEMMA PidInit == Init => PidInv
BY SchedulerAssumption
DEF Init, PidInv, PidsUnique, PidsBounded, Free, Slots

LEMMA PidStep == TypeOK /\ PidInv /\ [Next]_vars => PidInv'
<1> SUFFICES ASSUME TypeOK, PidInv, [Next]_vars PROVE PidInv'
  OBVIOUS
<1>1. ASSUME NEW prio \in Priorities, CreateClaim(prio) PROVE PidInv'
  <2>1. PICK i \in Slots :
          /\ Free(i)
          /\ \A j \in Slots : Free(j) => i <= j
          /\ pid' = [pid EXCEPT ![i] = next_pid]
          /\ main' = [op |-> "state", slot |-> i, prio |-> prio]
    BY <1>1 DEF CreateClaim
  <2>2. next_pid' = next_pid + 1 /\ state' = state /\ main.op = "none"
    BY <1>1 DEF CreateClaim, Calling
  <2>3. next_pid \in Nat /\ pid \in [Slots -> Nat] /\ next_pid <= i + 1
    BY <2>1, <2>2 DEF TypeOK, PidInv, Claimed
  <2>4. \A j \in Slots : pid'[j] < next_pid'
    BY <2>1, <2>2, <2>3 DEF PidInv
  <2>5. ASSUME NEW j \in Slots, Free(j)', ~Claimed(j)' PROVE next_pid' <= j + 1
    <3>1. j # i /\ Free(j)
      BY <2>1, <2>2, <2>5 DEF Claimed, Free
    <3>2. i <= j
      BY <2>1, <3>1
    <3>. QED BY <2>2, <2>3, <3>1, <3>2, SchedulerAssumption DEF Slots
  <2>6. PidsUnique'
    BY <2>1, <2>3 DEF PidInv, PidsUnique
  <2>7. PidsBounded'
    BY <2>2, <2>3, SchedulerAssumption DEF PidsBounded, Slots
  <2>. QED BY <2>4, <2>5, <2>6, <2>7 DEF PidInv
<1>2. CASE CreateState
  <2>1. main.slot \in Slots /\ main.op = "state"
    BY <1>2 DEF CreateState, Calling, TypeOK
  <2>2. \A i \in Slots : Free(i)' => Free(i) /\ ~Claimed(i)
    BY <1>2, <2>1 DEF CreateState, Free, Claimed, TypeOK
  <2>. QED BY <1>2, <2>2, PidFrame DEF CreateState
<1>3. CASE CreatePriority
  BY <1>3, PidFrame DEF CreatePriority, Calling, Free, Claimed
<1>4. CASE CreateTimeSlice
  BY <1>4, PidFrame DEF CreateTimeSlice, Calling, Free, Claimed
<1>5. ASSUME NEW p \in 0 .. MAX_PROCESSES + 1, Exit(p) PROVE PidInv'
  <2>1. \A i \in Slots : Free(i)' => Free(i)
    BY <1>5 DEF Exit, Free, TypeOK
  <2>. QED BY <1>5, <2>1, PidFrame DEF Exit, Claimed
<1>6. CASE StartScan
  BY <1>6, PidFrame DEF StartScan, Calling, Free, Claimed, table
<1>7. CASE StartDispatch
  <2>1. \A i \in Slots : Free(i)' => Free(i)
    BY <1>7 DEF StartDispatch, Dispatch, Free, TypeOK, Main
  <2>2. main.op = "start"
    BY <1>7 DEF StartDispatch, Calling
  <2>. QED BY <1>7, <2>1, <2>2, PidFrame DEF StartDispatch, Claimed
<1>8. CASE FirstTick
  <2>1. \A i \in Slots : Free(i)' => Free(i)
    BY <1>8, ScheduleEffect DEF FirstTick, Free, TypeOK
  <2>. QED BY <1>8, <2>1, PidFrame DEF FirstTick, Claimed
<1>9. CASE SliceTick
  BY <1>9, PidFrame DEF SliceTick, Free, Claimed
<1>10. CASE ExpiryTick
  <2>1. [state EXCEPT ![current] = "READY"] \in [Slots -> ProcState]
    BY DEF TypeOK, ProcState
  <2>2. current \in Slots /\ Schedule([state EXCEPT ![current] = "READY"])
    BY <1>10 DEF ExpiryTick, TypeOK
  <2>3. \A i \in Slots : Free(i)' => Free(i)
    <3>1. \A i \in Slots : [state EXCEPT ![current] = "READY"][i] = "UNUSED"
                             => Free(i)
      BY <2>2 DEF TypeOK, Free
    <3>. QED BY <2>1, <2>2, <3>1, ScheduleEffect DEF Free
  <2>. QED BY <1>10, <2>3, PidFrame DEF ExpiryTick, Claimed
<1>11. CASE UNCHANGED vars
  BY <1>11, PidFrame DEF vars, Free, Claimed
<1>. QED
  BY <1>1, <1>2, <1>3, <1>4, <1>5, <1>6, <1>7, <1>8, <1>9, <1>10, <1>11
  DEF Next

(* No two processes share a pid, whatever exits, process_exit(0) on an     *)
(* unused slot included.                                                   *)
THEOREM PidsAreUnique == Spec => []PidsUnique
<1>1. PidInv => PidsUnique
  BY DEF PidInv
<1>. QED BY PidInit, PidStep, TypeCorrect, <1>1, PTL DEF Spec

(* The table is exhausted for good after MAX_PROCESSES creations: nothing  *)
(* ever returns a slot.                                                    *)
THEOREM PidsAreBounded == Spec => []PidsBounded
<1>1. PidInv => PidsBounded
  BY DEF PidInv
<1>. QED BY PidInit, PidStep, TypeCorrect, <1>1, PTL DEF Spec

-----------------------------------------------------------------------------
(* Exit.  The slot on which a create or a start is about to store a state  *)
(* is no zombie: exits belong to the mainline, and ticks make no zombies.  *)
TargetAlive ==
  main.op \in {"state", "start"} /\ main.slot \in Slots
    => state[main.slot] # "ZOMBIE"

Revives(i)     == state[i] = "ZOMBIE" /\ state'[i] # "ZOMBIE"
ExpiresHere(i) == i = current /\ time_slice[i] = 0

(* schedule() neither makes nor revives a zombie.                          *)
LEMMA ScheduleZombies ==
  ASSUME TypeOK, NEW st \in [Slots -> ProcState], Schedule(st), NEW i \in Slots
  PROVE  state'[i] = "ZOMBIE" <=> st[i] = "ZOMBIE"
BY ScheduleEffect DEF TypeOK

LEMMA ExitStep ==
  TypeOK /\ TargetAlive /\ [Next]_vars
    => /\ TargetAlive'
       /\ \A i \in Slots : Revives(i) => ExpiresHere(i)
<1> DEFINE Goal == TargetAlive' /\ \A i \in Slots : Revives(i) => ExpiresHere(i)
<1> SUFFICES ASSUME TypeOK, TargetAlive, [Next]_vars PROVE Goal
  OBVIOUS
<1>1. ASSUME NEW prio \in Priorities, CreateClaim(prio) PROVE Goal
  BY <1>1 DEF CreateClaim, TargetAlive, Revives, Free
<1>2. CASE CreateState
  <2>1. main.slot \in Slots /\ state[main.slot] # "ZOMBIE"
    BY <1>2 DEF CreateState, Calling, TypeOK, TargetAlive
  <2>2. main'.op = "priority"
    BY <1>2 DEF CreateState, TypeOK, Main
  <2>. QED BY <1>2, <2>1, <2>2 DEF CreateState, TypeOK, TargetAlive, Revives
<1>3. CASE CreatePriority
  <2>1. main'.op = "time_slice"
    BY <1>3 DEF CreatePriority, TypeOK, Main
  <2>. QED BY <1>3, <2>1 DEF CreatePriority, TargetAlive, Revives
<1>4. CASE CreateTimeSlice
  BY <1>4 DEF CreateTimeSlice, Idle, TargetAlive, Revives
<1>5. ASSUME NEW p \in 0 .. MAX_PROCESSES + 1, Exit(p) PROVE Goal
  BY <1>5 DEF Exit, Calling, TypeOK, TargetAlive, Revives
<1>6. CASE StartScan
  <2>1. CASE Picked(state) = {}
    BY <1>6, <2>1, SchedulerAssumption
    DEF StartScan, table, Idle, TargetAlive, Revives, Slots
  <2>2. CASE Picked(state) # {}
    <3>1. PICK i \in Picked(state) :
            main' = [Idle EXCEPT !.op = "start", !.slot = i]
      BY <1>6, <2>2 DEF StartScan
    <3>2. main'.slot = i /\ state[i] = "READY" /\ state' = state
      BY <1>6, <3>1, PickedIsReady DEF StartScan, table, Idle
    <3>. QED BY <3>2 DEF TargetAlive, Revives
  <2>. QED BY <2>1, <2>2
<1>7. CASE StartDispatch
  <2>1. main' = Idle /\ main.op = "start"
    BY <1>7 DEF StartDispatch, Calling
  <2>2. \A i \in Slots : ~Revives(i)
    BY <1>7, <2>1
    DEF StartDispatch, Dispatch, TypeOK, Main, TargetAlive, Revives
  <2>. QED BY <2>1, <2>2 DEF TargetAlive, Idle
<1>8. CASE FirstTick
  <2>1. \A i \in Slots : state'[i] = "ZOMBIE" <=> state[i] = "ZOMBIE"
    BY <1>8, ScheduleZombies DEF FirstTick, TypeOK
  <2>. QED BY <1>8, <2>1 DEF FirstTick, TargetAlive, Revives
<1>9. CASE SliceTick
  BY <1>9 DEF SliceTick, TargetAlive, Revives
<1>10. CASE ExpiryTick
  <2> DEFINE st == [state EXCEPT ![current] = "READY"]
  <2>1. st \in [Slots -> ProcState] /\ Schedule(st) /\ current \in Slots
    BY <1>10 DEF ExpiryTick, TypeOK, ProcState
  <2>2. \A i \in Slots : state'[i] = "ZOMBIE" <=> st[i] = "ZOMBIE"
    BY <2>1, ScheduleZombies
  <2>3. \A i \in Slots : st[i] = "ZOMBIE" <=> state[i] = "ZOMBIE" /\ i # current
    BY <2>1 DEF TypeOK
  <2>. QED BY <1>10, <2>2, <2>3
       DEF ExpiryTick, TargetAlive, Revives, ExpiresHere
<1>11. CASE UNCHANGED vars
  BY <1>11 DEF vars, TargetAlive, Revives
<1>. QED
  BY <1>1, <1>2, <1>3, <1>4, <1>5, <1>6, <1>7, <1>8, <1>9, <1>10, <1>11
  DEF Next

(* A zombie comes back only as the current process whose slice expires.    *)
THEOREM RevivalOnlyByExpiry == Spec => OnlyCurrentRevives
<1>1. Init => TargetAlive
  BY DEF Init, Idle, TargetAlive
<1>2. TypeOK /\ TargetAlive /\ [Next]_vars => TargetAlive'
  BY ExitStep
<1>3. TypeOK /\ TargetAlive /\ [Next]_vars
        => [\A i \in Slots : state[i] = "ZOMBIE" /\ state'[i] # "ZOMBIE"
              => i = current /\ time_slice[i] = 0]_vars
  BY ExitStep DEF Revives, ExpiresHere
<1>. QED BY <1>1, <1>2, <1>3, TypeCorrect, PTL DEF Spec, OnlyCurrentRevives

-----------------------------------------------------------------------------
(* Priorities.  A slot on which process_create stands has priority 0, its  *)
(* first owner's not stored yet, because no slot is used twice; schedule() *)
(* therefore never prefers another one to it wrongly.  What StartScan      *)
(* picked is still the right choice at StartDispatch.                      *)
Stored == main.op \notin {"state", "priority"}

PrioInv ==
  /\ \A i \in Slots : priority[i] <= PRIO_NONE
  /\ \A i \in Slots : Free(i) => priority[i] = 0
  /\ current # NULL => ~Free(current)
  /\ main.op = "state" => Free(main.slot)
  /\ main.op = "priority" => priority[main.slot] = 0 /\ ~Free(main.slot)
  /\ ~Stored => main.prio <= PRIO_NONE
  /\ main.op = "start" /\ main.slot # NULL => main.slot \in Picked(state)

(* The slot picked has the least priority of those that are READY.         *)
LEMMA PickedIsLeast ==
  ASSUME TypeOK, PrioInv, NEW st, NEW i \in Picked(st), NEW j \in Slots, st[j] = "READY"
  PROVE  priority[i] <= priority[j]
<1> DEFINE Rank == {k \in {l \in Slots : st[l] = "READY"} : priority[k] < PRIO_NONE}
<1>1. \A k \in Slots : priority[k] \in Nat /\ priority[k] <= PRIO_NONE
  BY DEF TypeOK, PrioInv
<1>2. CASE Rank # {}
  BY <1>1, <1>2, SchedulerAssumption DEF Picked, Precedes
<1>3. CASE Rank = {}
  BY <1>1, <1>3, SchedulerAssumption DEF Picked
<1>. QED BY <1>2, <1>3

(* What SettledByPriority says of a step.                                  *)
Settles(i) ==
  state[i] # "RUNNING" /\ state'[i] = "RUNNING" =>
    \/ main.slot = i /\ main.op = "priority"
    \/ \A j \in Slots : state'[j] = "READY" => Requested(i) <= Requested(j)

(* schedule() on a table that differs from the present one by one expiry   *)
(* settles by priority and keeps the invariant.                            *)
LEMMA ScheduleSettles ==
  ASSUME TypeOK, PrioInv, main.op # "start", main' = main, priority' = priority,
         NEW st \in [Slots -> ProcState], Schedule(st),
         \A i \in Slots : st[i] = state[i] \/ (i = current /\ st[i] = "READY")
  PROVE  PrioInv' /\ \A i \in Slots : Settles(i)
<1>1. \/ state' = st /\ current' = current
      \/ /\ current' \in Slots /\ current' \in Picked(st) /\ st[current'] = "READY"
         /\ state' = [st EXCEPT ![current'] = "RUNNING"]
  <2>1. CASE Picked(st) = {}
    BY <2>1 DEF Schedule
  <2>2. CASE Picked(st) # {}
    <3>1. PICK i \in Picked(st) : Dispatch(st, i)
      BY <2>2 DEF Schedule
    <3>. QED BY <3>1, PickedIsReady DEF Dispatch
  <2>. QED BY <2>1, <2>2
<1>2. \A i \in Slots : Free(i)' <=> Free(i)
  <2>1. \A i \in Slots : st[i] = "UNUSED" <=> Free(i)
    BY SchedulerAssumption DEF PrioInv, Free, TypeOK, Slots
  <2>2. \A i \in Slots : state'[i] = "UNUSED" <=> st[i] = "UNUSED"
    BY <1>1
  <2>. QED BY <2>1, <2>2 DEF Free
<1>3. current' # NULL => ~Free(current)'
  <2>1. CASE state' = st /\ current' = current
    BY <1>2, <2>1 DEF PrioInv, TypeOK
  <2>2. CASE current' \in Slots /\ state' = [st EXCEPT ![current'] = "RUNNING"]
    BY <2>2 DEF Free
  <2>. QED BY <1>1, <2>1, <2>2
<1>4. PrioInv'
  <2>1. main.op \in {"state", "priority", "time_slice"} => main.slot \in Slots
    BY DEF TypeOK
  <2>. QED BY <1>2, <1>3, <2>1 DEF PrioInv, Stored
<1>5. ASSUME NEW i \in Slots, state[i] # "RUNNING", state'[i] = "RUNNING",
             ~(main.slot = i /\ main.op = "priority"),
             NEW j \in Slots, state'[j] = "READY"
      PROVE  Requested(i) <= Requested(j)
  <2>1. st[i] # "RUNNING"
    BY <1>5
  <2>2. i \in Picked(st) /\ st[i] = "READY" /\ st[j] = "READY"
    BY <1>1, <1>5, <2>1
  <2>3. priority[i] <= priority[j]
    BY <2>2, PickedIsLeast
  <2>4. ~(main.op = "state" /\ main.slot \in {i, j})
    BY <2>2, SchedulerAssumption DEF PrioInv, Free, Slots
  <2>5. Requested(i) = priority[i]
    BY <1>5, <2>4 DEF Requested
  <2>6. CASE main.slot = j /\ main.op = "priority"
    <3>1. priority[j] = 0 /\ Requested(j) = main.prio /\ main.prio \in Nat
      BY <2>6 DEF PrioInv, Requested, TypeOK
    <3>2. priority[i] \in Nat
      BY DEF TypeOK
    <3>. QED BY <2>3, <2>5, <3>1, <3>2
  <2>7. CASE ~(main.slot = j /\ main.op = "priority")
    BY <2>3, <2>4, <2>5, <2>7 DEF Requested
  <2>. QED BY <2>6, <2>7
<1>. QED BY <1>4, <1>5 DEF Settles

LEMMA PrioStep ==
  ASSUME ~IrqBeforeStart
  PROVE  TypeOK /\ RunInv /\ PrioInv /\ [Next]_vars
           => PrioInv' /\ \A i \in Slots : Settles(i)
<1> DEFINE Goal == PrioInv' /\ \A i \in Slots : Settles(i)
<1> SUFFICES ASSUME TypeOK, RunInv, PrioInv, [Next]_vars PROVE Goal
  OBVIOUS
<1>0. main.slot \in Slots \cup {NULL} /\ NULL \notin Slots
  BY SchedulerAssumption DEF TypeOK, Main, Slots
<1>1. ASSUME NEW prio \in Priorities, CreateClaim(prio) PROVE Goal
  BY <1>1, SchedulerAssumption DEF CreateClaim, PrioInv, Stored, Free, Settles
<1>2. CASE CreateState
  <2>1. /\ main.slot \in Slots /\ main'.op = "priority" /\ main'.slot = main.slot
        /\ main'.prio = main.prio /\ main.op = "state"
    BY <1>2 DEF CreateState, Calling, TypeOK, Main
  <2>2. \A i \in Slots : state'[i] = IF i = main.slot THEN "READY" ELSE state[i]
    BY <1>2, <2>1 DEF CreateState, TypeOK
  <2>3. current' # NULL => current' \in Slots
    BY <1>2 DEF CreateState, TypeOK
  <2>4. PrioInv'
    BY <1>2, <2>1, <2>2, <2>3 DEF CreateState, PrioInv, Stored, Free
  <2>5. \A i \in Slots : Settles(i)
    BY <2>2 DEF Settles
  <2>. QED BY <2>4, <2>5
<1>3. CASE CreatePriority
  <2>1. /\ main.slot \in Slots /\ main.op = "priority" /\ main'.op = "time_slice"
        /\ state' = state /\ current' = current
    BY <1>3 DEF CreatePriority, Calling, TypeOK, Main
  <2>2. \A i \in Slots : priority'[i] = IF i = main.slot THEN main.prio ELSE priority[i]
    BY <1>3, <2>1 DEF CreatePriority, TypeOK
  <2>3. current # NULL => current \in Slots
    BY DEF TypeOK
  <2>. QED BY <2>1, <2>2, <2>3 DEF PrioInv, Stored, Free, Settles
<1>4. CASE CreateTimeSlice
  BY <1>4 DEF CreateTimeSlice, PrioInv, Stored, Free, Idle, Settles
<1>5. ASSUME NEW p \in 0 .. MAX_PROCESSES + 1, Exit(p) PROVE Goal
  <2>1. main' = main /\ main.op = "none" /\ priority' = priority /\ current' = current
    BY <1>5 DEF Exit, Calling
  <2>2. \A i \in Slots : state'[i] \in {state[i], "ZOMBIE"}
    BY <1>5 DEF Exit, TypeOK
  <2>3. current # NULL => current \in Slots
    BY DEF TypeOK
  <2>. QED BY <2>1, <2>2, <2>3 DEF PrioInv, Stored, Free, Settles
<1>6. CASE StartScan
  <2>1. /\ UNCHANGED <<state, priority, current>> /\ main'.op = "start"
        /\ main'.slot \in Picked(state) \cup {NULL}
    BY <1>6 DEF StartScan, table, Idle
  <2>2. Picked(state)' = Picked(state)
    BY <2>1 DEF Picked, Precedes
  <2>. QED BY <2>1, <2>2 DEF PrioInv, Stored, Free, Settles
<1>7. CASE StartDispatch
  <2>1. main.op = "start" /\ main' = Idle /\ priority' = priority
    BY <1>7 DEF StartDispatch, Calling
  <2>2. CASE main.slot = NULL
    BY <1>7, <2>1, <2>2 DEF StartDispatch, PrioInv, Stored, Free, Idle, Settles
  <2>3. CASE main.slot # NULL
    <3>1. /\ main.slot \in Picked(state) /\ main.slot \in Slots
          /\ current' = main.slot /\ state' = [state EXCEPT ![main.slot] = "RUNNING"]
      BY <1>0, <1>7, <2>1, <2>3 DEF StartDispatch, Dispatch, PrioInv
    <3>2. PrioInv'
      BY <2>1, <3>1 DEF PrioInv, Stored, Free, Idle, TypeOK
    <3>3. \A i \in Slots : Requested(i) = priority[i]
      BY <2>1 DEF Requested
    <3>4. \A i \in Slots : Settles(i)
      BY <3>1, <3>3, PickedIsLeast DEF Settles, TypeOK
    <3>. QED BY <3>2, <3>4
  <2>. QED BY <2>2, <2>3
<1>8. CASE FirstTick
  <2>1. main.op # "start"
    BY <1>8 DEF FirstTick, IrqEnabled, RunInv
  <2>2. state \in [Slots -> ProcState] /\ Schedule(state) /\ main' = main /\ priority' = priority
    BY <1>8 DEF FirstTick, TypeOK
  <2>. QED BY <2>1, <2>2, ScheduleSettles
<1>9. CASE SliceTick
  BY <1>9 DEF SliceTick, PrioInv, Stored, Free, Picked, Precedes, Settles
<1>10. CASE ExpiryTick
  <2> DEFINE st == [state EXCEPT ![current] = "READY"]
  <2>1. main.op # "start"
    BY <1>10 DEF ExpiryTick, IrqEnabled, RunInv
  <2>2. st \in [Slots -> ProcState] /\ Schedule(st) /\ main' = main /\ priority' = priority
    BY <1>10 DEF ExpiryTick, TypeOK, ProcState
  <2>3. \A i \in Slots : st[i] = state[i] \/ (i = current /\ st[i] = "READY")
    BY DEF TypeOK
  <2> HIDE DEF st
  <2>. QED BY <2>1, <2>2, <2>3, ScheduleSettles
<1>11. CASE UNCHANGED vars
  BY <1>11 DEF vars, PrioInv, Stored, Free, Picked, Precedes, Settles
<1>. QED
  BY <1>1, <1>2, <1>3, <1>4, <1>5, <1>6, <1>7, <1>8, <1>9, <1>10, <1>11
  DEF Next

(* With IRQ0 masked until scheduler_start returns, dispatches follow the   *)
(* priorities as requested, wherever ticks interrupt process_create: the   *)
(* one exception is the slot whose priority is still to be stored.         *)
THEOREM DispatchesSettle ==
  ASSUME ~IrqBeforeStart
  PROVE  Spec => SettledByPriority
<1>1. Init => PrioInv
  BY SchedulerAssumption DEF Init, PrioInv, Stored, Free, Idle, Slots
<1>2. TypeOK /\ RunInv /\ PrioInv /\ [Next]_vars => PrioInv'
  BY PrioStep
<1>3. TypeOK /\ RunInv /\ PrioInv /\ [Next]_vars
        => [\A i \in Slots : state[i] # "RUNNING" /\ state'[i] = "RUNNING" =>
              \/ main.slot = i /\ main.op = "priority"
              \/ \A j \in Slots : state'[j] = "READY" => Requested(i) <= Requested(j)]_vars
  BY PrioStep DEF Settles
<1>. QED BY <1>1, <1>2, <1>3, RunInit, RunStep, TypeCorrect, PTL
     DEF Spec, SettledByPriority
=============================================================================
