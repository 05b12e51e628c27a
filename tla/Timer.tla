------------------------------- MODULE Timer -------------------------------
(***************************************************************************)
(* The tick counter and sleep() of kernel/irq/timer.c.  The timer          *)
(* interrupt comes between any two steps of sleep: after its read of       *)
(* timer_ticks, between the test of the loop and the hlt, where it ends    *)
(* nothing and the processor halts all the same, and in hlt, which any     *)
(* interrupt ends.  timer_ticks is not volatile; the loop reads it in      *)
(* every round all the same (asm volatile keeps the loop, and the build's  *)
(* object code reloads it).                                                *)
(*                                                                         *)
(* scheduler_tick, which the handler calls too, is module Scheduler's.     *)
(***************************************************************************)
EXTENDS Integers

CONSTANTS
  WRAP,         \* 2^32
  SECOND,       \* milliseconds in a second                         (1000)
  PIT_FREQ,     \* clock of the PIT                              (1193180)
  RELOAD,       \* 2^16: the PIT's counter
  Frequencies,  \* what timer_init is called with
  Sleeps,       \* milliseconds sleep is called with
  LATE,         \* bound: ticks a running sleeper may fall behind its target
  MayWrap       \* may sleep be called close to the counter's wrap?

ASSUME TimerAssumption ==
  /\ WRAP \in Nat \ {0} /\ SECOND \in Nat \ {0} /\ LATE \in Nat \ {0}
  /\ PIT_FREQ \in Nat /\ RELOAD \in Nat \ {0}
  /\ Frequencies \subseteq Nat \ {0} /\ Sleeps \subseteq Nat
  /\ MayWrap \in BOOLEAN

VARIABLES
  timer_ticks,
  timer_freq,   \* 0 before timer_init
  reload,       \* the value the PIT counts down from
  pc,           \* the sleeper: "idle", "test", "halt" (behind the test, in
                \* front of the hlt) or "hlt" (halted)
  target,
  asked,        \* the sleep's argument
  owed,         \* ticks in that time, computed without overflow
  elapsed,      \* ticks since the sleep read timer_ticks
  unseen        \* of these, ticks between the last test and its hlt

clock   == <<timer_freq, reload>>
sleeper == <<target, asked, owed>>
passed  == <<elapsed, unseen>>
clock_vars    == <<timer_ticks, timer_freq, reload, pc, target, asked, owed, elapsed,
                unseen>>

(* The BIOS leaves the PIT with its largest count.                         *)
ClockInit ==
  /\ timer_ticks = 0 /\ timer_freq = 0 /\ reload = RELOAD
  /\ pc = "idle" /\ target = 0 /\ asked = 0 /\ owed = 0 /\ elapsed = 0 /\ unseen = 0

-----------------------------------------------------------------------------
(* Operators named Bug_* are mutants of the definition that follows them.  *)

(* Two bytes of 0 stop the PIT instead of counting 2^16.                   *)
Bug_CountOfZero(divisor) == divisor % RELOAD

(* What the PIT makes of a divisor sent as two bytes: 0 counts 2^16.       *)
PitCount(divisor) == IF divisor % RELOAD = 0 THEN RELOAD ELSE divisor % RELOAD

TimerInit(f) ==
  /\ pc = "idle"
  /\ timer_freq' = f
  /\ reload' = PitCount(PIT_FREQ \div f)
  /\ UNCHANGED <<timer_ticks, pc, sleeper, passed>>

(* timer_handler.  It ends a hlt that the processor has reached, and only  *)
(* that one.                                                               *)
TimerTick ==
  /\ pc \in {"test", "halt"} => elapsed < owed + LATE
  /\ pc = "hlt" => elapsed <= owed + LATE
  /\ timer_ticks' = (timer_ticks + 1) % WRAP
  /\ elapsed' = IF pc = "idle" THEN 0 ELSE elapsed + 1
  /\ unseen' = IF pc = "halt" THEN unseen + 1 ELSE unseen
  /\ pc' = IF pc = "hlt" THEN "test" ELSE pc
  /\ UNCHANGED <<clock, sleeper>>

(* Another interrupt ends the hlt.                                         *)
OtherInterrupt ==
  /\ pc = "hlt"
  /\ pc' = "test"
  /\ UNCHANGED <<timer_ticks, clock, sleeper, passed>>

(* The product is taken after the division.                                *)
Bug_DelayDividesFirst(ms) == (ms \div SECOND) * timer_freq

(* ms * timer_freq / 1000, in 32 bits                                      *)
Delay(ms) == ((ms * timer_freq) % WRAP) \div SECOND

(* A call far from the wrap, of the product and of the counter.            *)
FarFromWrap(ms) == timer_ticks + ms * timer_freq + LATE + 1 < WRAP

Sleep(ms) ==
  /\ pc = "idle"
  /\ MayWrap \/ FarFromWrap(ms)
  /\ target' = (timer_ticks + Delay(ms)) % WRAP
  /\ asked' = ms
  /\ owed' = (ms * timer_freq) \div SECOND
  /\ elapsed' = 0 /\ unseen' = 0
  /\ pc' = "test"
  /\ UNCHANGED <<timer_ticks, clock>>

Wake ==
  /\ pc' = "idle"
  /\ target' = 0 /\ asked' = 0 /\ owed' = 0 /\ elapsed' = 0 /\ unseen' = 0

(* The loop tests the ticks it read when sleep was called.                 *)
Bug_BeforeCached == timer_ticks - elapsed < target

(* The loop waits for the target itself.                                   *)
Bug_BeforeNotAt == timer_ticks # target

Before == timer_ticks < target

(* The test finds the target ahead ...                                     *)
TestHalt ==
  /\ pc = "test" /\ Before
  /\ pc' = "halt" /\ unseen' = 0
  /\ UNCHANGED <<timer_ticks, clock, sleeper, elapsed>>

(* ... and the processor halts, whatever has happened since.               *)
Halt ==
  /\ pc = "halt"
  /\ pc' = "hlt"
  /\ UNCHANGED <<timer_ticks, clock, sleeper, passed>>

TestReturn ==
  /\ pc = "test" /\ ~Before
  /\ Wake
  /\ UNCHANGED <<timer_ticks, clock>>

ClockNext ==
  \/ \E f \in Frequencies : TimerInit(f)
  \/ TimerTick \/ OtherInterrupt
  \/ \E ms \in Sleeps : Sleep(ms)
  \/ TestHalt \/ Halt \/ TestReturn

ClockSpec == ClockInit /\ [][ClockNext]_clock_vars

(* The PIT goes on ticking and the processor goes on executing.            *)
ClockFairness ==
  WF_clock_vars(TimerTick) /\ WF_clock_vars(TestHalt \/ Halt \/ TestReturn)

-----------------------------------------------------------------------------
(* Every variable stays in its range.                                      *)
ClockTypeOK ==
  /\ timer_ticks \in 0 .. WRAP - 1 /\ target \in 0 .. WRAP - 1
  /\ timer_freq \in Frequencies \cup {0} /\ reload \in 1 .. RELOAD
  /\ pc \in {"idle", "test", "halt", "hlt"}
  /\ asked \in Sleeps \cup {0} /\ owed \in Nat /\ elapsed \in Nat /\ unseen \in Nat

(* sleep returns no earlier than the ticks it owes its caller              *)
(* (timer.c:41, "Sleep for specified milliseconds").                       *)
NeverEarly == [][pc = "test" /\ pc' = "idle" => elapsed >= owed]_clock_vars

(* sleep halts behind its target only for ticks that came between the test *)
(* of the round and its hlt (timer.c:44, :45), which no test has seen: but *)
(* for these it still owed one.  So it halts behind its target once at     *)
(* most, and the interrupt that ends that hlt ends the sleep.              *)
HaltsOnTime == pc \in {"halt", "hlt"} => elapsed < owed + unseen

(* Every sleep ends, whichever of the steps the ticks fall between: also   *)
(* the one whose last tick comes between test and hlt, with the next tick. *)
SleepEnds == pc # "idle" ~> pc = "idle"

(* The PIT runs at the frequency asked for, rounded to its clock, if the   *)
(* divisor (timer.c:18) is in the counter's range, 2^16 included.  Asked   *)
(* for less, timer_init drops the divisor's high bits (timer.c:25) and the *)
(* PIT ticks more often than asked; asked for more than its clock, it      *)
(* sends 0, the largest count, and the PIT ticks less often.               *)
RateAsAsked ==
  LET divisor == PIT_FREQ \div timer_freq
  IN  timer_freq # 0 =>
        /\ divisor <= RELOAD /\ divisor # 0 => reload * timer_freq <= PIT_FREQ
        /\ divisor <= RELOAD => PIT_FREQ < (reload + 1) * timer_freq
        /\ divisor > RELOAD  => (reload + 1) * timer_freq <= PIT_FREQ
        /\ divisor = 0 => PIT_FREQ < reload * timer_freq
=============================================================================
