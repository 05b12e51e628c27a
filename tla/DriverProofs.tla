---------------------------- MODULE DriverProofs ----------------------------
(* Theorems about Irq, for every set of device lines, about Timer, for     *)
(* every clock and every sleep, and about Ata, for every drive and all     *)
(* counts but 0.                                                           *)
EXTENDS Irq, Timer, Ata, TLAPS

-----------------------------------------------------------------------------
(* The dispatch opens at most one service at each controller, the slave's  *)
(* for the line being served; nothing else can be open in the mainline.    *)
Single(s) == \A a, b \in s : a = b

IrqTypes ==
  /\ isr1 \subseteq 0 .. 7 /\ isr2 \subseteq 8 .. 15
  /\ serving \in (0 .. 15) \cup {NO_LINE}
  /\ stage \in {"mainline", "handler", "eoi2", "eoi1"}

Opened ==
  /\ Single(isr1)
  /\ stage = "mainline" => isr1 = {} /\ isr2 = {}
  /\ stage = "eoi1" => isr2 = {}
  /\ stage \in {"handler", "eoi2"} =>
       /\ serving \in 0 .. 15
       /\ isr2 # {} => serving >= 8
       /\ Single(isr2)

(* Without the call services pile up, each of a higher rank than those     *)
(* before it.                                                              *)
PiledUp ==
  /\ stage = "mainline"
  /\ isr1 # {} => /\ Rank(serving) \in isr1
                  /\ \A j \in isr1 : Rank(serving) <= j

IrqInv == IrqTypes /\ IF stub_calls THEN Opened ELSE PiledUp

LEMMA HighestOfSingle ==
  ASSUME NEW s, s \subseteq Nat, Single(s)
  PROVE  s \ Highest(s) = {}
<1> SUFFICES ASSUME NEW e \in s PROVE e \in Highest(s)
  OBVIOUS
<1>1. \A a \in s : e <= a
  BY DEF Single
<1>. QED BY <1>1 DEF Highest

LEMMA IrqStart == IrqInit => IrqInv
BY DEF IrqInit, IrqInv, IrqTypes, Opened, PiledUp, Single

(* A delivered line has a rank of the master's, above what is in service.  *)
LEMMA DeliveredOutranks ==
  ASSUME NEW k \in Lines, Deliverable(k), IrqTypes
  PROVE  Rank(k) \in 0 .. 7 /\ \A j \in isr1 : Rank(k) < j
<1>1. k \in 0 .. 15
  BY IrqAssumption
<1>2. CASE k \in Highest(MasterReady)
  BY <1>1, <1>2 DEF Highest, MasterReady, Rank
<1>3. CASE Cascaded /\ k \in Highest(SlaveReady)
  BY <1>1, <1>3 DEF Highest, SlaveReady, Cascaded, Rank, CASCADE
<1>. QED BY <1>2, <1>3 DEF Deliverable

LEMMA CallingStep ==
  ASSUME stub_calls, IrqInv, [IrqNext]_irq_vars
  PROVE  IrqInv'
<1> USE IrqAssumption DEF IrqInv, IrqTypes, Opened, pics
<1>1. ASSUME NEW k \in Lines, Raise(k) PROVE IrqInv'
  BY <1>1 DEF Raise, Single
<1>2. ASSUME NEW k \in Lines, Deliver(k) PROVE IrqInv'
  <2>1. k \in 0 .. 15 /\ isr1 = {} /\ isr2 = {}
    BY <1>2 DEF Deliver
  <2>2. Rank(k) \in 0 .. 7
    BY <2>1 DEF Rank, CASCADE
  <2>. QED BY <1>2, <2>1, <2>2 DEF Deliver, Single
<1>3. ASSUME NEW k \in Lines, RegisterIrq(k) PROVE IrqInv'
  BY <1>3 DEF RegisterIrq, Single
<1>4. ASSUME NEW k \in {7, 15}, Spurious(k) PROVE IrqInv'
  BY <1>4 DEF Spurious, Single, CASCADE
<1>5. CASE Handler
  BY <1>5 DEF Handler, Single
<1>6. CASE EoiSlave
  <2>1. isr2 \subseteq Nat /\ Single(isr2)
    BY <1>6 DEF EoiSlave
  <2>2. isr2 \ Highest(isr2) = {}
    BY <2>1, HighestOfSingle
  <2>. QED BY <1>6, <2>2 DEF EoiSlave, Single
<1>7. CASE EoiMaster
  <2>1. isr1 \subseteq Nat /\ Single(isr1)
    BY <1>7 DEF EoiMaster
  <2>2. isr1 \ Highest(isr1) = {}
    BY <2>1, HighestOfSingle
  <2>. QED BY <1>7, <2>2 DEF EoiMaster, Single
<1>8. ASSUME NEW k \in Maskable, Unmask(k) \/ Mask(k) PROVE IrqInv'
  BY <1>8 DEF Unmask, Mask, Single
<1>9. CASE UNCHANGED irq_vars
  BY <1>9 DEF irq_vars, Single
<1>. QED BY <1>1, <1>2, <1>3, <1>4, <1>5, <1>6, <1>7, <1>8, <1>9 DEF IrqNext

LEMMA SilentStep ==
  ASSUME ~stub_calls, IrqInv, [IrqNext]_irq_vars
  PROVE  IrqInv'
<1> USE DEF IrqInv, IrqTypes, PiledUp, pics
<1>1. ASSUME NEW k \in Lines, Raise(k) PROVE IrqInv'
  BY <1>1 DEF Raise, Rank
<1>2. ASSUME NEW k \in Lines, Deliver(k) PROVE IrqInv'
  <2>1. k \in 0 .. 15 /\ Rank(k) \in 0 .. 7 /\ \A j \in isr1 : Rank(k) < j
    BY <1>2, DeliveredOutranks, IrqAssumption DEF Deliver
  <2>2. isr1' = isr1 \cup {Rank(k)} /\ serving' = k /\ stage' = "mainline" /\ ~stub_calls'
    BY <1>2 DEF Deliver
  <2>3. isr2' \subseteq 8 .. 15
    BY <1>2, <2>1 DEF Deliver
  <2>4. Rank(serving)' = Rank(k)
    BY <2>2 DEF Rank
  <2>5. \A j \in isr1' : Rank(k) <= j
    BY <2>1, <2>2
  <2>. QED BY <2>1, <2>2, <2>3, <2>4, <2>5
<1>3. ASSUME NEW k \in Lines, RegisterIrq(k) PROVE IrqInv'
  BY <1>3 DEF RegisterIrq, Rank
<1>4. ASSUME NEW k \in {7, 15}, Spurious(k) PROVE IrqInv'
  BY <1>4 DEF Spurious, Rank, CASCADE
<1>5. ASSUME NEW k \in Maskable, Unmask(k) \/ Mask(k) PROVE IrqInv'
  <2>1. UNCHANGED <<stub_calls, isr1, isr2, serving, stage>>
    BY <1>5 DEF Unmask, Mask
  <2>. QED BY <2>1 DEF Rank
<1>6. CASE UNCHANGED irq_vars
  BY <1>6 DEF irq_vars, Rank
<1>. QED BY <1>1, <1>2, <1>3, <1>4, <1>5, <1>6
          DEF IrqNext, Handler, EoiSlave, EoiMaster

(* With a stub that calls irq_handler, irq_eoi ends exactly what the       *)
(* delivery began; with the stub as it stands, the timer's first interrupt *)
(* is the last one, and any other silences its rank and all below it.  For *)
(* any wiring of lines and any use of the masks.                           *)
THEOREM ServicesEnd == IrqSpec => []EoiMatchesStub
<1>1. IrqInv /\ [IrqNext]_irq_vars => IrqInv'
  BY CallingStep, SilentStep
<1>2. IrqInv => EoiMatchesStub
  <2> SUFFICES ASSUME IrqInv PROVE EoiMatchesStub
    OBVIOUS
  <2>1. CASE stub_calls
    BY <2>1 DEF IrqInv, Opened, EoiMatchesStub, NothingLeftInService
  <2>2. CASE ~stub_calls
    BY <2>2, DeliveredOutranks DEF IrqInv, PiledUp, EoiMatchesStub, LastOfItsRank
  <2>. QED BY <2>1, <2>2
<1>. QED BY IrqStart, <1>1, <1>2, PTL DEF IrqSpec

-----------------------------------------------------------------------------
(* A remainder lies below its divisor.                                     *)
LEMMA ModRange ==
  ASSUME NEW n \in Nat, NEW k \in Nat \ {0}
  PROVE  n % k \in 0 .. k - 1
OBVIOUS

(* The product of a sleep's argument and the frequency is a number.        *)
LEMMA ProductNat ==
  ASSUME NEW m \in Nat, NEW f \in Nat
  PROVE  m * f \in Nat
OBVIOUS

(* TimerInit keeps the types: the PIT's count is never 0.                  *)
LEMMA TimerInitType ==
  ASSUME ClockTypeOK, NEW f \in Frequencies, TimerInit(f)
  PROVE  ClockTypeOK'
<1>1. f \in Nat \ {0} /\ PIT_FREQ \div f \in Nat
  BY TimerAssumption
<1>2. PitCount(PIT_FREQ \div f) \in 1 .. RELOAD
  <2> DEFINE d == PIT_FREQ \div f
  <2>1. d % RELOAD \in 0 .. RELOAD - 1
    BY <1>1, ModRange, TimerAssumption
  <2>. QED BY <2>1, TimerAssumption DEF PitCount
<1>. QED BY <1>2 DEF ClockTypeOK, TimerInit, sleeper, passed

(* Every variable of the timer stays in its range.                         *)
THEOREM TimerTypes == ClockSpec => []ClockTypeOK
<1>1. ClockInit => ClockTypeOK
  BY TimerAssumption DEF ClockInit, ClockTypeOK
<1>2. ClockTypeOK /\ [ClockNext]_clock_vars => ClockTypeOK'
  <2> SUFFICES ASSUME ClockTypeOK, [ClockNext]_clock_vars PROVE ClockTypeOK'
    OBVIOUS
  <2>1. ASSUME NEW f \in Frequencies, TimerInit(f) PROVE ClockTypeOK'
    BY <2>1, TimerInitType
  <2>2. CASE TimerTick
    <3>1. (timer_ticks + 1) % WRAP \in 0 .. WRAP - 1
      BY ModRange, TimerAssumption DEF ClockTypeOK
    <3>. QED BY <2>2, <3>1 DEF ClockTypeOK, TimerTick, clock, sleeper
  <2>3. CASE OtherInterrupt
    BY <2>3 DEF ClockTypeOK, OtherInterrupt, clock, sleeper, passed
  <2>4. ASSUME NEW ms \in Sleeps, Sleep(ms) PROVE ClockTypeOK'
    <3>1. timer_freq \in Nat /\ ms \in Nat
      BY TimerAssumption DEF ClockTypeOK
    <3>2. PICK n \in Nat : n = ms * timer_freq
      BY <3>1, ProductNat
    <3>3. n % WRAP \in Nat
      BY ModRange, TimerAssumption
    <3>4. Delay(ms) \in Nat /\ n \div SECOND \in Nat
      BY <3>2, <3>3, TimerAssumption DEF Delay
    <3>5. (timer_ticks + Delay(ms)) % WRAP \in 0 .. WRAP - 1
      <4> DEFINE sum == timer_ticks + Delay(ms)
      <4>1. sum \in Nat
        BY <3>4, TimerAssumption DEF ClockTypeOK
      <4> HIDE DEF sum
      <4>2. sum % WRAP \in 0 .. WRAP - 1
        BY <4>1, ModRange, TimerAssumption
      <4>. QED BY <4>2 DEF sum
    <3>. QED BY <2>4, <3>2, <3>4, <3>5 DEF ClockTypeOK, Sleep, clock
  <2>5. CASE TestHalt
    BY <2>5 DEF ClockTypeOK, TestHalt, clock, sleeper
  <2>6. CASE Halt
    BY <2>6 DEF ClockTypeOK, Halt, clock, sleeper, passed
  <2>7. CASE TestReturn
    BY <2>7, TimerAssumption DEF ClockTypeOK, TestReturn, Wake, clock
  <2>8. CASE UNCHANGED clock_vars
    BY <2>8 DEF ClockTypeOK, clock_vars
  <2>. QED BY <2>1, <2>2, <2>3, <2>4, <2>5, <2>6, <2>7, <2>8 DEF ClockNext
<1>. QED BY <1>1, <1>2, PTL DEF ClockSpec

-----------------------------------------------------------------------------
(* While a sleep is on, the distance to its target is the ticks it still   *)
(* owes, and neither the target nor the ticks it may be late reach WRAP.   *)
OnCourse ==
  /\ pc # "idle" =>
       /\ timer_ticks + owed = target + elapsed
       /\ target + LATE + 1 < WRAP
       /\ elapsed <= owed + LATE + 1
  /\ HaltsOnTime

(* A sleep far from the wrap starts on course.                             *)
LEMMA SleepOnCourse ==
  ASSUME ClockTypeOK, ~MayWrap, NEW ms \in Sleeps, Sleep(ms)
  PROVE  OnCourse'
<1>1. timer_freq \in Nat /\ ms \in Nat
  BY TimerAssumption DEF ClockTypeOK
<1>2. PICK n \in Nat : n = ms * timer_freq
  BY <1>1, ProductNat
<1>3. timer_ticks + n + LATE + 1 < WRAP
  BY <1>2 DEF Sleep, FarFromWrap
<1>4. n % WRAP = n
  BY <1>3, TimerAssumption DEF ClockTypeOK
<1>5. n \div SECOND \in Nat /\ n \div SECOND <= n
  BY TimerAssumption
<1>6. Delay(ms) = n \div SECOND
  BY <1>2, <1>4 DEF Delay
<1>7. (timer_ticks + Delay(ms)) % WRAP = timer_ticks + n \div SECOND
  BY <1>3, <1>5, <1>6, TimerAssumption DEF ClockTypeOK
<1>8. target' = timer_ticks + n \div SECOND /\ owed' = n \div SECOND
  BY <1>2, <1>7 DEF Sleep
<1>. QED BY <1>3, <1>5, <1>8, TimerAssumption DEF Sleep, OnCourse, HaltsOnTime, ClockTypeOK

(* sleep, called far from the wrap, stays on course.                       *)
LEMMA StaysOnCourse ==
  ASSUME ~MayWrap
  PROVE  ClockSpec => []OnCourse
<1>1. ClockInit => OnCourse
  BY DEF ClockInit, OnCourse, HaltsOnTime
<1>2. ClockTypeOK /\ OnCourse /\ [ClockNext]_clock_vars => OnCourse'
  <2> SUFFICES ASSUME ClockTypeOK, OnCourse, [ClockNext]_clock_vars PROVE OnCourse'
    OBVIOUS
  <2> USE DEF OnCourse, HaltsOnTime, ClockTypeOK
  <2>1. ASSUME NEW f \in Frequencies, TimerInit(f) PROVE OnCourse'
    BY <2>1 DEF TimerInit
  <2>2. CASE TimerTick
    <3>1. CASE pc = "idle"
      BY <2>2, <3>1 DEF TimerTick
    <3>2. CASE pc # "idle"
      <4>1. timer_ticks + 1 < WRAP
        BY <2>2, <3>2, TimerAssumption DEF TimerTick
      <4>2. timer_ticks' = timer_ticks + 1
        BY <2>2, <4>1, TimerAssumption DEF TimerTick
      <4>. QED BY <2>2, <3>2, <4>2, TimerAssumption DEF TimerTick, sleeper
    <3>. QED BY <3>1, <3>2
  <2>3. CASE OtherInterrupt
    BY <2>3 DEF OtherInterrupt, sleeper, passed
  <2>4. ASSUME NEW ms \in Sleeps, Sleep(ms) PROVE OnCourse'
    BY <2>4, SleepOnCourse
  <2>5. CASE TestHalt
    BY <2>5 DEF TestHalt, Before, sleeper
  <2>6. CASE Halt
    BY <2>6 DEF Halt, sleeper, passed
  <2>7. CASE TestReturn
    BY <2>7 DEF TestReturn, Wake
  <2>8. CASE UNCHANGED clock_vars
    BY <2>8 DEF clock_vars
  <2>. QED BY <2>1, <2>2, <2>3, <2>4, <2>5, <2>6, <2>7, <2>8 DEF ClockNext
<1>. QED BY <1>1, <1>2, TimerTypes, PTL DEF ClockSpec

(* sleep (timer.c:42-47), called far from the wrap, halts behind its       *)
(* target only for ticks that came between a test and its hlt.             *)
THEOREM SleepHaltsOnTime ==
  ASSUME ~MayWrap
  PROVE  ClockSpec => []HaltsOnTime
<1>1. OnCourse => HaltsOnTime
  BY DEF OnCourse
<1>. QED BY <1>1, StaysOnCourse, PTL

(* sleep (timer.c:42-47), called far from the wrap, never returns before   *)
(* the ticks it owes have passed.                                          *)
THEOREM SleepNeverEarly ==
  ASSUME ~MayWrap
  PROVE  ClockSpec => NeverEarly
<1>1. ClockTypeOK /\ OnCourse /\ [ClockNext]_clock_vars
        => [pc = "test" /\ pc' = "idle" => elapsed >= owed]_clock_vars
  <2> SUFFICES ASSUME ClockTypeOK, OnCourse, ClockNext, pc = "test", pc' = "idle"
               PROVE  elapsed >= owed
    BY DEF clock_vars
  <2>1. TestReturn
    BY DEF ClockNext, TimerInit, TimerTick, OtherInterrupt, Sleep, TestHalt, Halt
  <2>. QED BY <2>1 DEF TestReturn, Before, OnCourse, ClockTypeOK
<1>. QED BY <1>1, TimerTypes, StaysOnCourse, PTL DEF ClockSpec, NeverEarly

-----------------------------------------------------------------------------
(* A quotient times its divisor reaches the dividend, but for less than    *)
(* one divisor.                                                            *)
LEMMA QuotientBounds ==
  ASSUME NEW n \in Nat, NEW k \in Nat \ {0}
  PROVE  (n \div k) * k <= n /\ n < (n \div k + 1) * k
OBVIOUS

(* Two bytes hold the divisor, which is at least 1, or drop its high bits, *)
(* or are 0 and count RELOAD.                                              *)
LEMMA CountOfDivisor ==
  ASSUME NEW d \in Nat
  PROVE  /\ d \in 1 .. RELOAD => PitCount(d) = d
         /\ d > RELOAD => PitCount(d) < d
         /\ d = 0 => PitCount(d) = RELOAD
         /\ PitCount(d) \in 1 .. RELOAD
<1>1. d % RELOAD \in 0 .. RELOAD - 1
  BY ModRange, TimerAssumption
<1>2. d < RELOAD => d % RELOAD = d
  BY TimerAssumption
<1>3. RELOAD % RELOAD = 0
  BY TimerAssumption
<1>. QED BY <1>1, <1>2, <1>3, TimerAssumption DEF PitCount

(* A smaller factor, a smaller product.                                    *)
LEMMA ProductOrder ==
  ASSUME NEW m \in Nat, NEW n \in Nat, NEW k \in Nat, m <= n
  PROVE  m * k <= n * k
OBVIOUS

(* Whatever timer_init (timer.c:14-26) is called with: in the counter's    *)
(* range the PIT runs at that rate, rounded to its clock (a divisor of     *)
(* 2^16 is sent as two bytes of 0, which is what counts 2^16); below it    *)
(* the PIT ticks too often, above its clock not often enough.              *)
THEOREM RateKept == ClockSpec => []RateAsAsked
<1>1. ClockInit => RateAsAsked
  BY DEF ClockInit, RateAsAsked
<1>2. RateAsAsked /\ [ClockNext]_clock_vars => RateAsAsked'
  <2> SUFFICES ASSUME RateAsAsked, [ClockNext]_clock_vars PROVE RateAsAsked'
    OBVIOUS
  <2>1. ASSUME NEW f \in Frequencies, TimerInit(f) PROVE RateAsAsked'
    <3> DEFINE d == PIT_FREQ \div f
    <3>1. f \in Nat \ {0} /\ PIT_FREQ \in Nat /\ RELOAD \in Nat \ {0} /\ d \in Nat
      BY TimerAssumption
    <3>2. d * f <= PIT_FREQ /\ PIT_FREQ < (d + 1) * f
      BY <3>1, QuotientBounds
    <3>3. timer_freq' = f /\ reload' = PitCount(d)
      BY <2>1 DEF TimerInit
    <3> HIDE DEF d
    <3>4. CASE d \in 1 .. RELOAD
      <4>1. reload' = d
        BY <3>3, <3>4, CountOfDivisor
      <4>. QED BY <3>1, <3>2, <3>3, <3>4, <4>1 DEF RateAsAsked, d
    <3>5. CASE d > RELOAD
      <4>1. PICK n \in Nat : n = reload' + 1
        BY <3>1, <3>3, CountOfDivisor
      <4>2. n <= d
        BY <3>1, <3>3, <3>5, <4>1, CountOfDivisor
      <4>3. n * f <= d * f
        BY <3>1, <4>2, ProductOrder
      <4>4. (reload' + 1) * f <= PIT_FREQ
        <5>1. n * f \in Nat /\ d * f \in Nat
          BY <3>1, ProductNat
        <5>. QED BY <3>1, <3>2, <4>1, <4>3, <5>1
      <4>. QED BY <3>1, <3>3, <3>5, <4>4 DEF RateAsAsked, d
    <3>6. CASE d = 0
      <4>1. reload' = RELOAD
        BY <3>3, <3>6, CountOfDivisor
      <4>2. PIT_FREQ < f
        BY <3>1, <3>2, <3>6
      <4>3. 1 * f <= RELOAD * f /\ 1 * f <= (RELOAD + 1) * f
        BY <3>1, ProductOrder
      <4>4. RELOAD * f \in Nat /\ (RELOAD + 1) * f \in Nat
        BY <3>1, ProductNat
      <4>5. PIT_FREQ < RELOAD * f /\ PIT_FREQ < (RELOAD + 1) * f
        BY <3>1, <4>2, <4>3, <4>4
      <4>. QED BY <3>1, <3>3, <3>6, <4>1, <4>5 DEF RateAsAsked, d
    <3>. QED BY <3>1, <3>4, <3>5, <3>6
  <2>2. UNCHANGED clock => RateAsAsked'
    BY DEF clock, RateAsAsked
  <2>. QED BY <2>1, <2>2
       DEF ClockNext, TimerTick, OtherInterrupt, Sleep, TestHalt, Halt, TestReturn,
           clock_vars, clock
<1>. QED BY <1>1, <1>2, PTL DEF ClockSpec

-----------------------------------------------------------------------------
(* A drive that has sectors to transfer works for the call under way, and  *)
(* has as many left as the call, which counts a written sector only after  *)
(* its flush.                                                              *)
InCall == ata_pc \in {"bsy", "drq", "flush"}

AtaInv ==
  /\ count \in Nat /\ i \in Nat /\ left \in Nat
  /\ ata_pc \in {"boot", "probe", "ident", "idle", "bsy", "drq", "flush"}
  /\ drive \in {"ready", "busy", "drq", "failed", "absent0", "absentFF"}
  /\ drive \notin {"busy", "drq"} => left = 0
  /\ drive = "drq" => left > 0
  /\ InCall => i < count
  /\ ata_pc = "flush" => op = "write"
  /\ ata_pc \in {"boot", "idle"} => left = 0
  /\ ata_pc = "boot" => doing = "none" /\ drive # "drq"
  /\ ata_pc \in {"probe", "ident"} => left <= 1 /\ doing # "write"
  /\ InCall /\ left > 0 =>
       /\ doing = op
       /\ left = IF ata_pc = "flush" THEN count - i - 1 ELSE count - i

LEMMA AtaStart == AtaInit => AtaInv
BY AtaAssumption DEF AtaInit, AtaInv, InCall

LEMMA AtaStep ==
  ASSUME 0 \notin Counts, AtaInv, [AtaNext]_ata_vars
  PROVE  AtaInv'
<1> USE AtaAssumption DEF AtaInv, InCall, driver, disk
<1>1. CASE Identify
  BY <1>1 DEF Identify, Command
<1>2. CASE NoDrive
  BY <1>2 DEF NoDrive
<1>3. CASE SomeDrive
  BY <1>3 DEF SomeDrive
<1>4. CASE ReadIdent
  <2>1. ata_pc' = "idle" /\ UNCHANGED <<op, count, i>>
    BY <1>4 DEF ReadIdent
  <2>2. left' = 0 /\ drive' # "drq" /\ drive' # "busy" /\ drive' \in {drive, "ready"}
    <3>1. CASE drive = "drq"
      <4>1. left = 1 /\ doing # "write"
        BY <1>4, <3>1 DEF ReadIdent
      <4>. QED BY <1>4, <3>1, <4>1 DEF ReadIdent, Transfer
    <3>2. CASE drive # "drq"
      BY <1>4, <3>2 DEF ReadIdent, Transfer, BSY
    <3>. QED BY <3>1, <3>2
  <2>. QED BY <2>1, <2>2
<1>5. ASSUME NEW o \in Calls, NEW n \in Counts, Call(o, n) PROVE AtaInv'
  <2>1. n \in Nat \ {0}
    OBVIOUS
  <2>. QED BY <1>5, <2>1 DEF Call, Command
<1>6. CASE WaitReady
  BY <1>6 DEF WaitReady
<1>7. CASE ReadSector
  BY <1>7 DEF ReadSector, Transfer, More, DRQ
<1>8. CASE WriteSector
  BY <1>8 DEF WriteSector, Transfer, DRQ
<1>9. CASE Flush
  BY <1>9 DEF Flush, Command, More
<1>10. CASE Proceed
  BY <1>10 DEF Proceed
<1>11. CASE Fail
  BY <1>11 DEF Fail
<1>12. CASE UNCHANGED ata_vars
  BY <1>12 DEF ata_vars
<1>. QED BY <1>1, <1>2, <1>3, <1>4, <1>5, <1>6, <1>7, <1>8, <1>9, <1>10, <1>11,
            <1>12 DEF AtaNext

(* As long as no call asks for 0 sectors, no call ever moves a sector of   *)
(* another one or one out of its place, for every count and every way in   *)
(* which the drive may take a command that comes too early.                *)
THEOREM SectorsInPlace == 0 \notin Counts /\ AtaSpec => []OwnSector
<1> SUFFICES ASSUME 0 \notin Counts PROVE AtaSpec => []OwnSector
  OBVIOUS
<1>1. AtaInv /\ [AtaNext]_ata_vars => AtaInv'
  BY AtaStep
<1>2. AtaInv => OwnSector
  BY DEF AtaInv, OwnSector, InCall
<1>. QED BY AtaStart, <1>1, <1>2, PTL DEF AtaSpec

=============================================================================
