-------------------------------- MODULE Ata --------------------------------
(***************************************************************************)
(* The PIO protocol of drivers/disk/ata.c against its drive.  A call runs  *)
(* from its command to its return in steps: wait for BSY to go away, wait  *)
(* for DRQ, transfer one sector.                                           *)
(*                                                                         *)
(* The drive is external.  It is "ready", "busy" (BSY), "drq" (DRQ),       *)
(* "failed" (ERR, no DRQ) or "absent" (nobody drives the bus: every status *)
(* reads 0xFF or 0).  A command written while BSY or DRQ is set is ignored *)
(* or aborts what the drive is doing: the standard leaves it open.         *)
(***************************************************************************)
EXTENDS Naturals

CONSTANTS
  FULL,     \* sectors the drive takes a count of 0 for              (256)
  Calls,    \* calls made, of {"read", "write"}
  Counts,   \* their count
  Drives,   \* the drives there may be: "present", "absent0", "absentFF"
  MayFail   \* may the drive fail to transfer a sector?

ASSUME AtaAssumption ==
  /\ FULL \in Nat \ {0}
  /\ Calls \subseteq {"read", "write"} /\ Counts \subseteq 0 .. FULL - 1
  /\ Drives \subseteq {"present", "absent0", "absentFF"}
  /\ MayFail \in BOOLEAN

VARIABLES
  ata_initialized,
  ata_pc,     \* "boot", "idle", or where the call stands: "bsy", "drq",
              \* "flush"; "probe" and "ident" in disk_init
  op, count,  \* the call
  i,          \* sectors it has transferred
  drive,      \* the drive's state
  doing,      \* the command it executes, or "none"
  left,       \* sectors it has yet to transfer for it
  cached      \* has the drive taken a sector since it last took a flush?

driver == <<ata_initialized, ata_pc, op, count, i>>
disk   == <<drive, doing, left, cached>>
ata_vars == <<ata_initialized, ata_pc, op, count, i, drive, doing, left, cached>>

AtaInit ==
  /\ ata_initialized = FALSE
  /\ ata_pc = "boot" /\ op = "none" /\ count = 0 /\ i = 0
  /\ drive \in {IF d = "present" THEN "ready" ELSE d : d \in Drives}
  /\ doing = "none" /\ left = 0 /\ cached = FALSE

-----------------------------------------------------------------------------
(* The drive.                                                              *)
BSY == drive \in {"busy", "absentFF"}
DRQ == drive \in {"drq", "absentFF"}

Absent == drive \in {"absent0", "absentFF"}

(* The command register is written: n sectors of command c.                *)
Command(c, n) ==
  CASE drive \in {"ready", "failed"} ->
         /\ drive' = "busy" /\ doing' = c /\ left' = n
         /\ cached' = (cached /\ c # "flush")
    [] drive \in {"busy", "drq"} ->
         \/ UNCHANGED disk
         \/ drive' = "failed" /\ doing' = "none" /\ left' = 0 /\ UNCHANGED cached
    [] OTHER -> UNCHANGED disk

(* It gets to the next sector, or to the end of the command.               *)
Proceed ==
  /\ drive = "busy"
  /\ IF left > 0 THEN drive' = "drq" /\ UNCHANGED doing
                 ELSE drive' = "ready" /\ doing' = "none"
  /\ UNCHANGED <<driver, left, cached>>

Fail ==
  /\ MayFail /\ drive = "busy" /\ doing \in {"read", "write"}
  /\ drive' = "failed" /\ doing' = "none" /\ left' = 0
  /\ UNCHANGED <<driver, cached>>

(* The data register is read or written 256 times.                         *)
Transfer ==
  IF drive = "drq"
  THEN /\ left' = left - 1
       /\ drive' = IF left = 1 /\ doing # "write" THEN "ready" ELSE "busy"
       /\ doing' = IF left = 1 /\ doing # "write" THEN "none" ELSE doing
       /\ cached' = (cached \/ doing = "write")
  ELSE UNCHANGED disk

-----------------------------------------------------------------------------
(* disk_init: IDENTIFY, one look at the status, then the wait for BSY; the *)
(* identification is read without a wait for DRQ.                          *)
Identify ==
  /\ ata_pc = "boot" /\ ata_pc' = "probe"
  /\ Command("identify", 1)
  /\ UNCHANGED <<ata_initialized, op, count, i>>

NoDrive ==
  /\ ata_pc = "probe" /\ drive = "absent0"
  /\ ata_pc' = "idle"
  /\ UNCHANGED <<ata_initialized, op, count, i, disk>>

SomeDrive ==
  /\ ata_pc = "probe" /\ drive # "absent0"
  /\ ata_pc' = "ident"
  /\ UNCHANGED <<ata_initialized, op, count, i, disk>>

ReadIdent ==
  /\ ata_pc = "ident" /\ ~BSY
  /\ Transfer
  /\ ata_initialized' = TRUE /\ ata_pc' = "idle"
  /\ UNCHANGED <<op, count, i>>

-----------------------------------------------------------------------------

(* disk_read_sectors, disk_write_sectors: without disk_init they return -1 *)
(* and change nothing.                                                     *)
Call(o, n) ==
  /\ ata_pc = "idle" /\ ata_initialized
  /\ op' = o /\ count' = n /\ i' = 0
  /\ Command(o, IF n = 0 THEN FULL ELSE n)
  /\ ata_pc' = IF n = 0 THEN "idle" ELSE "bsy"
  /\ UNCHANGED ata_initialized

WaitReady ==
  /\ ata_pc = "bsy" /\ ~BSY
  /\ ata_pc' = "drq"
  /\ UNCHANGED <<ata_initialized, op, count, i, disk>>

(* Operators named Bug_* are mutants of the definition that follows them.  *)

(* The loop makes one round more.                                          *)
Bug_MoreToRead == i < count

(* The loop makes one round less.                                          *)
Bug_MoreNoLast == i + 2 < count

(* Is there another round of the loop after this one?                      *)
More == i + 1 < count

ReadSector ==
  /\ ata_pc = "drq" /\ op = "read" /\ DRQ
  /\ Transfer
  /\ i' = i + 1
  /\ ata_pc' = IF More THEN "bsy" ELSE "idle"
  /\ UNCHANGED <<ata_initialized, op, count>>

WriteSector ==
  /\ ata_pc = "drq" /\ op = "write" /\ DRQ
  /\ Transfer
  /\ ata_pc' = "flush"
  /\ UNCHANGED <<ata_initialized, op, count, i>>

(* FLUSH CACHE is sent after every sector, whatever the drive is doing.    *)
Flush ==
  /\ ata_pc = "flush"
  /\ Command("flush", 0)
  /\ i' = i + 1
  /\ ata_pc' = IF More THEN "bsy" ELSE "idle"
  /\ UNCHANGED <<ata_initialized, op, count>>

DiskInit == Identify \/ NoDrive \/ SomeDrive \/ ReadIdent
Driver   == DiskInit \/ WaitReady \/ ReadSector \/ WriteSector \/ Flush

AtaNext ==
  \/ Identify \/ NoDrive \/ SomeDrive \/ ReadIdent
  \/ \E o \in Calls, n \in Counts : Call(o, n)
  \/ WaitReady \/ ReadSector \/ WriteSector \/ Flush
  \/ Proceed \/ Fail

AtaSpec == AtaInit /\ [][AtaNext]_ata_vars

(* The driver runs on and so does the drive; nobody has to call.           *)
AtaFairness == WF_ata_vars(Driver) /\ WF_ata_vars(Proceed)

-----------------------------------------------------------------------------
(* As long as no count is 0, whatever is written and whatever fails: a     *)
(* sector is moved only for the command of the call under way, and it is   *)
(* the next one of it, although commands are written to a drive that may   *)
(* be busy.                                                                *)
OwnSector == ata_pc = "drq" /\ drive = "drq" => doing = op /\ left = count - i

(* What no step of the driver ends, as its waits have no timeout and look  *)
(* at one bit only: the wait for BSY on a bus that floats (ata.c:34), and  *)
(* the wait for DRQ of a drive that has failed, or has nothing to do       *)
(* because it ignored the command (ata.c:39).                              *)
Hung ==
  \/ drive = "absentFF" /\ ata_pc \in {"ident", "bsy", "drq"}
  \/ drive \in {"failed", "ready"} /\ ata_pc = "drq"

(* disk_init and every call return or hang for good.  A drive that neither *)
(* fails nor floats lets every call return as long as nothing is written:  *)
(* the driver asks for no sector more than the drive hands over.  (After a *)
(* write the next command may come too early and be ignored.)              *)
ReadsReturn ==
  /\ ata_pc \notin {"boot", "idle"} ~> ata_pc = "idle" \/ Hung
  /\ [][Hung => Hung']_ata_vars
  /\ [](op # "write") => [](Hung => drive # "ready")
=============================================================================
