# A TLA+ model of WeeK OS

This directory holds TLA+ specifications of the kernel, the drivers, the window
manager and the applications of WeeK OS, the TLC configurations that check them
on small instances, and proofs for TLAPS of the statements that matter most.

Contents

1. [The system](#1-the-system): its parts, their state, how they interact
2. [The modules](#2-the-modules): which models what, and how it corresponds to the code
3. [The runs](#3-the-runs): what each checks, its bounds, its fairness
4. [The proofs](#4-the-proofs)
5. [Where the code departs from what it says](#5-where-the-code-departs-from-what-it-says)
6. [What is not modelled, and the plan](#6-what-is-not-modelled-and-the-plan)
7. [Running it](#7-running-it)

## 1. The system

WeeK OS is a 32-bit x86 kernel with a graphical shell, in C and some assembly.
It is built as one image; there is no user mode, and everything below runs in
one address space on one processor. Two kinds of code share its memory: the
*mainline*, one thread of ordinary calls, and the *interrupt handlers* for the
timer (IRQ0), the keyboard (IRQ1) and the mouse (IRQ12), which can come between
any two instructions of the mainline and are not interrupted themselves. All
the concurrency of the system is between these two.

`kernel_main` (`kernel/main.c:205-248`) prints the boot screen and halts. It
calls none of the initialisers, so nothing in the repository composes the parts
below. The models therefore start each part where its own initialiser leaves
it, and let callers do whatever the part's interface allows. Some sources do
not compile as they stand (`pmm.c`, `vmm.c`, `wifi.c`, `bluetooth.c`, and
`store.c`, which calls `store_add_app` with more arguments than it declares),
and `heap.c` and `pmm.c` both define `kmalloc`; the models follow the text.

| Part | State | Operations | What is hard about it | What makes it correct |
|---|---|---|---|---|
| Scheduler `kernel/sched/scheduler.c` | `processes[]`, `current_process`, `next_pid` | create, exit, start; the tick with `schedule()` | a tick between any two stores of a mainline call; slices; zombies | one owner of the CPU, unique pids, dispatch by priority, nobody revived by accident |
| Process table `kernel/sched/process.c` | a second, dense `processes[]`, its count | create, exit (moves entries), lookup | pointers into an array whose entries move | a pid is found while it lives; pointers stay good |
| Interrupt dispatch `kernel/irq/irq.c`, `kernel/entry.asm` | handler table; masks in the two 8259 | init, mask, unmask, register, dispatch, EOI | two controllers in cascade, spurious interrupts | every service that is opened is ended; unmasked requests are served |
| Timer `kernel/irq/timer.c` | `timer_ticks`, `timer_freq`, the PIT's count | init, tick, `sleep` | a tick between test and `hlt`; 32-bit products | sleep ends, in time and not before |
| Heap `kernel/mm/heap.c` | the list of block headers, `heap_current` | `kmalloc`, `kcalloc`, `kfree` | long histories of splits and merges; the boundary of a split | no byte has two owners; nothing is lost |
| Pages `kernel/mm/pmm.c` | bitmap, `free_pages` | init, alloc, free | a counter that is kept apart from the bitmap; page 0 | no page has two owners; none is lost; the kernel's are reserved |
| Page tables `kernel/mm/vmm.c` | directory, tables; the TLB | init, map, unmap, lookup, switch | the processor's cached translations | accesses go where the tables say |
| Node table `kernel/fs/vfs.c` | `vfs_nodes[]`, its count | mkdir, create, open, read, write, readdir | names against paths; the full table | a path means one node and keeps meaning it |
| Keyboard `drivers/keyboard/keyboard.c` | modifier flags, event ring | interrupt handler, pop | the handler comes late, and inside a pop | flags follow the keys; events arrive once and in order |
| Mouse `drivers/mouse/mouse.c` | `mouse_cycle`, packet bytes, event ring, position | init, interrupt handler, pop | shares the controller's one buffer with the keyboard | packets are neither torn nor shifted |
| Disk `drivers/disk/ata.c`, `ide.c` | `ata_initialized` | init, read, write | a drive that is busy, fails or is absent | transfers belong to the call under way; calls return |
| Windows `userspace/gui/desktop/desktop.c` | `windows[]`, its count; icons, theme | create, close, draw | buffers on the shared heap; entries that outlive their window | an open window owns its buffer |
| WiFi `drivers/net/wifi.c` | state, `enabled`, the table of networks, `connected_network` into it | enable, disable, scan, connect, disconnect | a pointer into a table that is rebuilt; flags beside the pointer | what is flagged is what the pointer names |
| Bluetooth `drivers/net/bluetooth.c` | state, table of devices, paired copies, `active_connections` | enable, disable, discover, pair, connect, disconnect, airplane mode | two lists and three flags about one device | whoever is connected can be disconnected |
| Console `drivers/vga/vga.c`, writer of `kernel/main.c` | text memory, two cursors | print, scroll, clear, place | two writers that do not know each other | the display is the foot of what was printed |
| Strings `kernel/string.c`, `printf.c` | `strtok`'s static place | tokens, conversions | state between calls; the least int | reference definitions |
| Framebuffer `drivers/vga/framebuffer.c` | the pixels | put, fill, blend, blur, panel, rounded | unsigned coordinates that wrap | drawing stays in its rectangle |
| Terminal `userspace/apps/terminal/terminal.c` | screen, cursor, input line, history | keys, commands | tabs and full rows, `strcpy` between rows | no character is written behind the screen |
| Wine layer `userspace/apps/wine/wine.c` | processes, drives, overrides | start, shutdown, run, kill, map | pids from a count; restarts | a pid means one process |
| Store `userspace/gui/store/store.c` | catalogue, installed list, developers, reviews, storage | install, uninstall, register, publish, review | four records of one fact; tables at their limit | list, flags, storage and counts agree |
| Snipping tool `userspace/gui/snipping/snipping.c` | the capture, its blocks on the heap | start, select, end, stop | `kmalloc` that fails in the middle | blocks are given back |
| Quick settings, explorer, sticky notes, installer | flags; tabs; notes; the wizard's step | toggle; open, close; create, change, delete; next, back | lists that move while ids and indices name entries | ids and indices keep naming what they named |
| ext2, RAM disk, network stub, settings, task manager, defender, boot | little or none | | | see section 6 |

How they interact: `timer_handler` calls `scheduler_tick`; the keyboard's and
the mouse's handlers are entered through `irq_handler`, which sends the EOI,
and push into the rings that the mainline pops; both, and `mouse_init`, read
port 0x60 of one controller; `wm_create_window` and `wm_close_window` call
`kmalloc` and `kfree`, as any other caller does; a frame travels from `pmm` to
`vmm` and back in its caller's hands. The file system never calls the disk
driver, and the two process tables do not know of each other. The applications
are called by whoever draws the desktop; the snipping tool allocates from the
kernel heap, the terminal cuts its line with `strtok`, the quick settings keep
radio flags of their own that the drivers never see.

## 2. The modules

One module per component, with the names of the code. Constants carry the
code's sizes and limits; the comment beside each names its value there. Fields
and values that decide nothing (names, colours, saved registers) are left out.
Operators named `Bug_*` are plausible mistakes in the definition that follows
them; they are used by no specification and exist so that each property can be
seen to fail when the code is wrong.

| Module | Code | Correspondence |
|---|---|---|
| `Scheduler` | `scheduler.c` | one function per field of `processes[]`. `process_create` is split at its stores of pid, state, priority and slice (`CreateClaim` ... `CreateTimeSlice`); a tick is one step: `FirstTick` (no current process), `SliceTick`, `ExpiryTick` (with `schedule()`). `scheduler_start` is `StartScan`, `StartDispatch`. |
| `ProcessTable` | `process.c` | an entry's place stands for its address, so a pointer is an index. `CreateProcess`, `Exit` (with the whole move), `Get`. |
| `Irq` | `irq.c`, the stub in `entry.asm` | the two 8259 are external: edges, masks, services, cascade, spurious requests. The stub of `entry.asm` as it stands ends with `Deliver`, as its call of `irq_handler` is commented out; with the call, `Handler`, `EoiSlave` and `EoiMaster` follow. Which of the two a behaviour is about is `stub_calls`, chosen from `Stubs` and never changed. |
| `Timer` | `timer.c` | `sleep` in steps: `Sleep` (reads the ticks), `TestHalt` and `TestReturn` (the loop's test), `Halt` (the `hlt` itself); `TimerTick` between any two of them. A tick between test and `hlt` wakes nobody; only a processor that has halted is woken. `unseen` counts these ticks. |
| `Heap` | `heap.c` | the headers' fields as functions of the header's address. The search of `kmalloc` and the merge of `kfree` take one step per iteration, with `cur` as the loop's pointer. `asked` is a ghost: what the owner of a block asked for. |
| `Allocator` | (the promise) | memory as pieces that callers own: a call makes its caller the owner of bytes that were nobody's, and only the owner gives them back. It knows nothing of blocks, headers or the list. `Heap` maps to it by `RefinesAllocator`: `owned` is what `asked` says of the blocks in use, and the promise is withdrawn (`intact`) by an extension. |
| `WindowManager` | `desktop.c` on `heap.c` | EXTENDS `Heap`; `wm_create_window` is a call of `kmalloc` and the entry that its end completes, and other callers use the heap too. |
| `Pmm`, `Vmm` | `pmm.c`, `vmm.c` | the bitmap as a set; tables as functions; the TLB is external, `Walk` fills and `Evict` forgets. |
| `Memory` | their callers | composes `Pmm` and `Vmm`: allocate, map, unmap, give back, with the processor translating at any time. |
| `AddressSpace` | (the promise) | frames that are the caller's and a one-to-one map from pages to them. It knows nothing of bitmap, tables and TLB. `Memory` maps to it by `RefinesAddressSpace`, with `leads` as what the processor translates to, TLB first. |
| `Vfs` | `vfs.c` | a path is a sequence of components; `Named` is what `strcmp(name, path)` amounts to. `vfs_open` is three actions, for found, created and refused, and `result` is what it returns. `home` is a ghost: the node that a path has come to mean. |
| `EventQueue` | (the promise) | a bounded FIFO that drops what it has no room for. It knows nothing of slots. |
| `EventRing` | `keyboard.c:32-53`, `mouse.c:17-38` | a push is one step (it runs in the handler), a pop is interrupted between its test, its copy and its store to `tail`, in either order of the last two, as the indices are not `volatile`. `RefinesQueue` maps it to `EventQueue`. |
| `Keyboard` | `keyboard.c:55-97` | the keyboard (external) sends scan codes of set 1 and repeats; the handler is `HandleRelease`, `HandleSpecial`, `HandleKey`. |
| `Ps2` | both handlers' reads of port 0x60, `mouse_init` | the 8042 and the mouse are external: one output buffer, acknowledgements, answers to controller commands. `mouse_init` is one action per access. `owing` and `stolen` are ghosts that count scan codes: sent but not yet taken by the keyboard handler, taken by `mouse_init`. |
| `Ata` | `ata.c` | one step per wait and per sector; the drive is external and may be busy, fail, be absent or leave the bus floating, and ignore or abort on a command that comes too early. |
| `Wifi` | `wifi.c` | a scan finds the same networks every time, so an entry is its place; `connected` is the pointer, `flagged` the entries with `is_connected` |
| `Bluetooth` | `bluetooth.c` | devices as places; `active` and `pairings` are the lists with their counts. `SwitchedOff` is `bluetooth_disable`, from airplane mode too. |
| `Strings` | `strtok` of `string.c`; `itoa`, `utoa` and the number directives of `printf.c` | a call of `strtok` is one step on array and place (`FirstToken`, `NextToken`); conversions are operators with `Sprintf` as their action. `Words` and `Number` are the reference definitions. |
| `Terminal` | `terminal.c`, on `Strings` | a cell is written or NUL, rows lie one behind the other; `PutChar` with `NewLine`, `Tabbed`, `BackSpaced`, `Written`; one action per kind of key; a command is what it prints |
| `Console` | `vga.c`, `vga_putchar` of `main.c` | the driver's cursor `at`, the kernel's `pen`, one text memory; `paper` is a ghost: the endless sheet the driver has printed on |
| `Framebuffer` | `framebuffer.c` | a pixel has one channel; loops become sets of pixels with arithmetic modulo `UNSIGNED`, 2^32; one action per primitive, with `drawn` as a ghost of the call |
| `Wine` | `wine.c` | the three lists; `WineRun`, `WineKill` and so on, one per function |
| `Store` | `store.c`, `store.h` | catalogue as a sequence with the code's sizes and ratings, sizes in MB modulo 2^32 bytes; one action per operation of the user, the developer and the reviewer |
| `Snipping` | `snipping.c` | blocks come from an external `kmalloc` that may refuse at any time; `lost` is a ghost: the blocks nobody can give back any more |
| `Applets` | `quicksettings.c`, `explorer.c`, `sticky.c`, `installer.c` | four separate next-state relations, one action per function |
| `*Proofs` | | theorems: `MemoryProofs` is about `Pmm`, `Vmm` and `Memory`, `InputProofs` about `EventRing`, `Keyboard` and `Ps2`, `DriverProofs` about `Irq`, `Timer` and `Ata`, `ListProofs` about `Vfs`, `Wine`, `Bluetooth` and `Applets`, `TextProofs` about `Strings`, `Terminal` and `Console`, `AppsProofs` about `ProcessTable`, `Wifi`, `Snipping`, `Framebuffer`, `Store` and the composition `MCApps`, `HeapProofs` about `Heap`, `WindowManager` and the refinement of `Allocator`; `SchedulerProofs` about the module it is named after |
| `MC*` | | instances for TLC |

Compositions. `Memory`, `WindowManager` and `Terminal` compose modules that
really share state. `MCKernel` (scheduler, memory, rings, 8042, keyboard),
`MCInterrupts` (8259, timer, disk) and `MCApps` (everything above the kernel)
put parts side by side that share none: the variable `part` says
which of them a behaviour is about, and the others rest. Interleaving them
would multiply their states and show nothing new; the fairness of a part is
assumed in that part's behaviours only, because asking it of a part that rests
would exclude the behaviour.

What is abstracted deliberately:

* a handler's body is one step where nothing can interrupt it;
* addresses and sizes of the heap are small multiples of four with a 12-byte
  header, arithmetic is modulo `WRAP`;
* once an extension of the heap has made blocks overlap, headers and payloads
  alias and what follows is arbitrary: the model stops in `pc = "clobbered"`;
* `kfree` of a block that has been merged away scribbles over its old header;
  the model keeps the fields of listed blocks only;
* what another page directory maps is not kept: the TLB stays empty meanwhile;
* several of the applications' modules carry a history variable (`doubled`,
  `overflowed`, `reused`, `tainted`, `edged`, `emptied`) that is set by the step
  at which the code leaves its own rules, as section 5 lists them. The
  properties say what holds up to that step and, where something does, after it;
  `lost` of the snipping tool is exact instead: it says which blocks are gone;
* the orders of stores in `process_create` and of the loop in `sleep` are those
  of the compiled objects (`gcc -m32 -ffreestanding -O2`).

## 3. The runs

Every run is `tlc -config <cfg> <module>`. The first four must find no error;
the other eight look for one statement that the code makes about itself and
breaks.

### 3.1 `kernel`: MCKernel.cfg

*Scheduler.* Four slots, a slice of two ticks, priorities 0, 1 and a stand-in
for 0xFFFFFFFF, an idle priority between them. Ticks come between any two
stores of `process_create`, and processes exit at any time, running ones, the
idle one and unused slots (`process_exit(0)`) included. Until
`scheduler_start` returns IRQ0 is masked (`IrqBeforeStart = FALSE`, section 5).

* `OneRunning`: one owner of the CPU.
* `PidsUnique`: no exit gives a slot back, and no pid is given twice.
* `OnlyCurrentRevives`: `ExpiryTick` stores READY over the state of the current
  process; it is the only way back from ZOMBIE.
* `SettledByPriority`: dispatches follow the priorities as requested, but for
  the one slot whose priority is still to be stored.
* `FirstIsServed`: whoever comes first by priority and index is dispatched. The
  fallback scan of `schedule()` is needed for processes of priority 0xFFFFFFFF.

Four slots are enough for a current process, one before it, one behind it and
one being created; a slice of two has a tick that is not an expiry.
Fairness: the timer goes on ticking (the PIT is periodic and IRQ0 is never
masked by these files), and an interrupted mainline call runs on. No fairness
is asked of callers.

*Memory.* Five pages on a machine of four, two tables of two pages. Frames are
allocated, mapped, unmapped and given back in every order that callers may use
(a frame is given back only when it is mapped nowhere, a page is mapped only
when it is not), while the processor caches and forgets translations and
directories are switched. `Isolated`: no access ever lands in a frame that was
given back or in another page's. `RefinesAddressSpace`: what the processor
reaches, TLB first and then the tables, is an address space in which one step
enters a page and one takes it out, and in which no frame goes back that is still
reached. `PagesSound` (`Accounted`, `CountOffset`): no page above the first
megabyte is lost, none is free and owned at once; the counter is the bitmap's less
a constant, modulo 2^32. What the pages below come to is the question of the run
`pmm_reserve`. Two tables make the entry of a second table happen, and five pages
on a machine of four make the counter wrap. A page that is mapped is not mapped
again (`MayRemap = FALSE`, section 5).

*Input.*

* `RefinesQueue`: a ring of four slots implements the FIFO of three, with pushes
  between any two steps of a pop and both orders of its stores. With three
  distinguishable events every reordering and loss is visible, and head and
  tail wrap many times.
* `NeverTorn`, `KeyRead`: two packets and two keys wait while `mouse_init` runs,
  reads port 0x60 without waiting (`mouse.c:102`) and may write any command
  byte. Three consecutive bytes of the handler are three consecutive bytes of
  the mouse. The keyboard handler takes every scan code that leaves the buffer,
  once, but for the one that `mouse_init` may take for its answer
  (`KeysHandled`); and none stays in the buffer as long as the command byte lets
  the controller announce it.
* `ModifiersFollow`, `EventAsTyped`: five keys, one of each kind, up to three
  bytes between keyboard and handler. `OneOfEach = TRUE`: the two keys of a
  pair are not held together; see section 5.

Fairness: IRQ1 is served when it is requested. Nobody has to type, and neither
the mouse nor `mouse_init` has to go on. A byte that nobody reads blocks both
devices, which is one of the divergences of section 5; the controller may
therefore rest for ever, and deadlock is checked of the other parts.

### 3.2 `heap`: MCHeap.cfg

An arena of 64 bytes, requests of 1, 13 and 48 bytes, calls of `kcalloc` of 12
and 0 bytes, windows whose buffers take 12 bytes or a multiple of 2^32 (which
is 0 to `kmalloc`), two windows. The arena takes up to four blocks, so blocks
are split, merged on either side and in chains, filled to the last byte, and
left with a remainder that is too small to split; 48 bytes ask for the
extension whenever the arena is not empty.

* `SoundUntilExtended` (`Tiling`, `LiveDisjoint`): in every step of both loops
  blocks tile the arena and no byte has two owners, until an extension is made.
* `RefinesAllocator`: to a caller all this is one step that grants a piece of
  memory and one that gives it back; the loops in between are stutters. The first
  extension withdraws the promise.
* `Coalesced`: one pass of the merge finds every pair.
* `BuffersOwned`: an open window's buffer is allocated, long enough and nobody
  else's.
* `CallsReturn`: the list never becomes cyclic. Fairness: loops run on.

Deadlock is not checked: after an overlap the model stops.

### 3.3 `interrupts`: MCInterrupts.cfg

*Lines* 0, 8 and 12: the master's first, the slave's first (where an off-by-one
of the EOI bites) and one behind it. Masks change at any time, spurious
requests of both controllers included, and both stubs are considered.
`EoiMatchesStub`: with the call of `irq_handler`, `irq_eoi` leaves no service
open; without it, as `entry.asm:129` stands, what was taken last stays in service
and nothing of its rank or a lower is delivered, so that after the first timer
interrupt there is none. `Served`: a request that no mask and no higher request
holds is delivered; without the call, unless it is silenced that way.

*Sleep* of up to six units at four frequencies, ticks between any two steps, the
one between test and `hlt` included. `NeverEarly`; `HaltsOnTime`: behind its
target `sleep` halts only for ticks of that window; `SleepEnds`. `RateAsAsked`: a
clock of 17 and a counter of 8 give the divisors 17 (loses its high bit), 8 (the
counter's edge), 5 and 0. `LATE` bounds how far the mainline falls behind its
target while it sleeps. `MayWrap = FALSE` keeps calls away from the wrap at 2^32
ticks (497 days at 100 Hz); see section 5.

*Disk.* One to four sectors, reads and writes, a drive that may fail at any
sector, be absent or leave the bus floating. `OwnSector`: although commands are
written to a drive that may be busy, and FLUSH CACHE between two sectors of one
write, a sector is moved only for the call under way and in its place.
`ReadsReturn`: whatever the drive, `disk_init` and every call return or hang for
good in one of the two waits of `Hung`; as long as nothing is written, only a
floating bus and a failed drive make them hang. Deadlock is not checked: a call
whose drive failed waits for ever.

Fairness: strong fairness of delivery for each line, which stands for the
controllers passing on what is deliverable again and again; handlers run on;
the PIT ticks and the sleeper executes; driver and drive go on. Devices and
mainline are free.

### 3.4 `apps`: MCApps.cfg

Sixteen parts, each under every sequence of its calls. `AppTypes` is the type
invariant of all of them together: above all, every count stays below the size
of its table, which the code checks by hand, or forgets to (`Publish`).

| Part | Bounds | Property | What it shows |
|---|---|---|---|
| nodes | three nodes: a directory, a file in it, a name without a slash, a file named like the directory | `OpenIsStable` | once an open found or made a node that a path names, opens return that node, reads find it and writes change it, duplicates or not; the 0 that the creating open returns is exempt |
| process table | three entries (a first, a middle and a last to exit), five pids | `FoundWhileAlive`, `RefStaysUntilOlderExits` | a pid is found while it lives; a pointer is good until an older process exits |
| WiFi | three networks and an unknown name | `OneNetwork` | "connected" has a network behind it; one flag, unless a second connect left one |
| Bluetooth | an audio device, a HID one and another; two pairings and two connections, so both lists fill up | `ListedWhileConnected` | whoever is connected is on the list that `bluetooth_disable` goes through, up to the connection that found no room |
| Wine | three processes, four drives, two letters, one override | `WineSound` | pids are unique as long as only the youngest is killed; C, D and Z stay where they lead |
| tokens, printing | all strings of up to four characters with two letters and a blank; all integers of six bits | `StringsSound` | `strtok` hands out the words; what is printed reads back, but for the least int |
| terminal | 4 by 4 cells, a prompt longer than a row in bash mode, tabs of two, lines of three characters, two lines of history, four keys | `ScreenSound` | nothing is written behind the screen until a tab; scrolling moves each row's text up, but for two full rows that follow each other |
| console | 4 by 2 cells, tabs of two, four characters (eight cells: a tab and a line feed reach the end) | `ShowsTheFoot` | the display is the last rows of an endless sheet |
| store | the 25 applications of the catalogue, three of them named by callers, one more place; three installed, two developers, a review each, one restart | `BooksBalance` | list, flags, storage and developers' counts agree |
| snipping | three blocks, two coordinates | `ScreenshotsFreed` | on the heap are the screenshot of the capture under way and the blocks lost by a capture over another or by a selection without a screenshot, as after a `kmalloc` that failed; no other call loses a block |
| framebuffer | 3 by 2 pixels of three levels, `UNSIGNED` = 16, rectangles empty or of three pixels over every edge, blur radius 1 | `StaysInside` | nothing is drawn outside the rectangle, unless the blur's limit wraps or the panel is empty; a rectangle is filled unless its sum wraps |
| quick settings, explorer, notes, wizard | three tabs; three notes at a time and four ever | `AppletsAgree` | see the four conjuncts in `Applets` |

The counts are the smallest at which each table is full, has a middle and is
reused. The tables' contents matter only through equality of pids, ids, letters
and names, so two or three of each show every case. Deadlock is not checked:
parts stop at their bound (`KEYS`, `CHARS`, `NOTES`, `RESTARTS`, pids), and the
store once it is broken.

### 3.5 Runs that end in a counterexample

| Run | Statement | What happens |
|---|---|---|
| `sched_stale_priority` | `DispatchByPriority` (`scheduler.c:23`) | a tick between the stores of state and priority: the slot still holds 0, and a process created with 0xFFFFFFFF goes ahead of the idle one |
| `heap_extend` | `LiveDisjoint` (`heap.c:67`) | the extension starts inside the first block |
| `windows_twice` | `BuffersOwned` (`desktop.c:170`, `:177`) | create, close, create, close the first again: the second's buffer is free |
| `pmm_reserve` | `LowPagesReserved` (`pmm.c:24`) | page 0 is handed out as NULL, page 1, the kernel's, to a caller |
| `irq_mouse` | `MouseServed` (`irq.c:42`) | the cascade line stays masked |
| `ps2_acks` | `PacketsAligned` (`mouse.c:51`) | acknowledgements are counted as packet bytes |
| `store_rating` | `RatingIsAverage` (`store.c:137`) | the sum starts at ten times the rating, as the count does: five stars take 4.5 to 50/46 |
| `bt_disable` | `DisableCutsAll` (`bluetooth.c:146`) | a device connected with the list full stays connected to a radio that is off |

## 4. The proofs

Each theorem holds for every value of the constants that satisfies the named
assumptions of the module (`SchedulerAssumption`, `HeapAssumption`, ...), which
TLC evaluates in the runs. They say no more than the code's constants do: a heap block
is not NULL (`SnippingAssumption`), tables have a size, an int an even number of
values. Further hypotheses are part of the theorem's
statement and are given here.

| Theorem | Establishes | Hypotheses |
|---|---|---|
| `SchedulerProofs!TypeCorrect` | `[]TypeOK` | |
| `SchedulerProofs!OneOwner` | `[]OneRunning` | no IRQ0 before `scheduler_start` returns |
| `SchedulerProofs!PidsAreUnique`, `PidsAreBounded` | `[]PidsUnique`, `[]PidsBounded` | |
| `SchedulerProofs!RevivalOnlyByExpiry` | `OnlyCurrentRevives` | |
| `SchedulerProofs!DispatchesSettle` | `SettledByPriority` | no IRQ0 before `scheduler_start` returns |
| `InputProofs!RingImplementsQueue` | `RingSpec => Queue!QueueSpec` | |
| `InputProofs!RingTypeCorrect`, `RingSlotSafe`, `RingSlotsWritten` | the invariants behind it | |
| `InputProofs!PacketsWhole`, `KeysTaken` | `[]NeverTorn`, `[]KeysHandled` (the safety half of `KeyRead`) | |
| `InputProofs!FlagsFollow`, `EventsAsTyped` | `[]ModifiersFollow`, `[]EventAsTyped` | `OneOfEach`: the two keys of a pair are not held together |
| `HeapProofs!HeapSound`, `HeapTypes` | `[]SoundUntilExtended`, `[]TypeOK` | `NoWrap`: aligned sizes stay below 2^32 |
| `HeapProofs!HeapImplementsAllocator` | `Spec => RefinesAllocator` | `NoWrap` |
| `HeapProofs!WindowsUseAllocator` | the same with the window manager among the callers | `NoWrap`, `AreasFit`, `~MayCloseTwice` |
| `HeapProofs!SoundWithinArena` | `[](NeverClobbered /\ Tiling /\ LiveDisjoint)` | `NoWrap`, `~MayExtend`: every request finds a free block or fails both tests |
| `HeapProofs!CallsAdvance` | `[]HasLast /\ LoopsAdvance`: a step inside a call moves it further along a list that ends | `NoWrap` |
| `HeapProofs!FreeBlocksMerged` | `[]Coalesced` | `NoWrap` |
| `HeapProofs!HeapSoundUnderWindows` | the same with the window manager among the callers | `NoWrap`, `AreasFit`, `~MayCloseTwice` |
| `HeapProofs!WindowsOwnBuffers`, `MergedUnderWindows` | `[]BuffersOwned`, `[]Coalesced` | the same |
| `MemoryProofs!PagesStaySound` | `[]PagesSound`: `Accounted` (`PagesAccounted`) and `CountOffset` (`CounterFollows`) | |
| `MemoryProofs!TablesEntered` | `[]EntriesReachable` | |
| `MemoryProofs!TlbCoherentWithoutRemap` | `[]TlbCoherent` | `~MayRemap` |
| `MemoryProofs!FramesStayOwned`, `FramesStayApart`, `PagesIsolated` | `[]ReachOwned`, `[]ReachApart`, and both, `[]Isolated` | |
| `MemoryProofs!MemoryImplementsAddressSpace` | `MemSpec => RefinesAddressSpace` | |
| `DriverProofs!TimerTypes`, `SleepHaltsOnTime`, `SleepNeverEarly` | types, `[]HaltsOnTime`, `NeverEarly` | `~MayWrap` for the last two |
| `DriverProofs!RateKept` | `[]RateAsAsked` | |
| `DriverProofs!ServicesEnd` | `[]EoiMatchesStub`, for both stubs | |
| `DriverProofs!SectorsInPlace` | `[]OwnSector` | `0 \notin Counts` |
| `ListProofs!VfsTypes`, `FirstNodeKeepsName` | `[]VfsTypeOK`, `OpenIsStable` | |
| `ListProofs!PidsAndDrives` | `[]WineSound` | |
| `ListProofs!ListFollowsFlags` | `[]ListedWhileConnected` | |
| `ListProofs!AppletsSound` | `[]AppletsAgree` | |
| `AppsProofs!PidsStayFound`, `PointersStay` | `[]FoundWhileAlive`, `RefStaysUntilOlderExits` | |
| `AppsProofs!FlagsFollowPointer` | `[]OneNetwork` | |
| `AppsProofs!BlocksGoBack` | `[]ScreenshotsFreed` | |
| `AppsProofs!DrawingStaysInside` | `[]StaysInside` | |
| `AppsProofs!LevelsStayLevels` | `[]FbTypeOK` | |
| `AppsProofs!BooksAlwaysBalance`, `StoreTypes` | `[]BooksBalance`, `[]StoreTypeOK` | |
| `TextProofs!WordsAndNumbers` | `[]StringsSound` | |
| `TextProofs!TextStaysOnScreen`, `TerminalTypes` | `[]ScreenSound`, `[]TermTypeOK` | |
| `TextProofs!DisplayShowsTheFoot` | `[](ConsoleTypeOK /\ ShowsTheFoot)` | |
| `AppsProofs!AppsAreTheirParts` | `AppsSpec` implies the specification of each of the twelve parts | |
| `AppsProofs!AppTypesHold`, `PromisesSurviveComposition` | `[]AppTypes`; all other properties of `MCApps.cfg` in the composition | |

Along which arguments:

* **Scheduler.** `OneRunning` alone is not inductive: `scheduler_start` finds
  its process in one step and dispatches it in another. `RunInv` adds that
  nothing is current before the scheduler is started and that a start is only
  under way then. `PidInv`: pids are below `next_pid`, and the slots a create
  may still claim lie at or above `next_pid - 1`, because slots are claimed in
  order and never given back; uniqueness and the bound follow together.
  `PrioInv`: a slot's priority is the requested one unless its create has still
  to store it, and the scan's choice is a minimum (`PickedIsLeast`).
* **Ring.** The slots between `tail` and `head` are written; the slot that a pop
  has given back before it copied it (`"freed"`) is the spare one, and is not
  `head` unless the ring is full. Each step of the ring is then an `Accept`, a
  `Take`, a `Return` or a stutter of the queue, by lemmas on the contents.
* **Heap.** `HeapInv`: the blocks tile the arena in address order, sizes are
  positive multiples of four, an owned block is on the list and not free (so a
  merge never absorbs it), a loop's pointer is on the list, and `heap_current`
  has not moved. Split and merge have a lemma each; the extension is shown
  always to overlap, because the first block always covers `heap_current`.
* **Allocator.** The pieces that callers own are the payloads `asked` records;
  `LiveDisjoint` makes them apart and `Tiling` keeps them in the arena. `TakeBlock`
  is the grant (its block was free, so it was nobody's), the first step of `kfree`
  is the return, and the merge that follows is invisible, as it touches free blocks
  only. The grant comes out of nobody's memory, which the abstract step demands and
  `HeapInv` has to show. Callers whose requests always find a block never reach the
  extension, so for them the promise has no end (`SoundWithinArena`).
* **Loops of the heap.** The search goes to a higher address at every step; the
  merge goes to one or takes a block off the list. That is the safety half of
  `CallsReturn` (`CallsAdvance`), for every arena; the rest is fairness.
* **Windows.** Every step of `WindowManager` is a step of the heap or none, so
  `HeapInv` carries over; what is new is that the block a call is granted was
  nobody's (`StepGrants`) and that nobody but the window gives its buffer back.
* **Memory.** The invariants of both parts, and two of the composition: a frame
  in the tables is held, and no frame is in two of them. `CautiousNext` is what
  callers do that map only what is not mapped, and keeps the TLB coherent (`Place`
  is such a call, so `MayRemap` does not matter here). With a coherent TLB what
  a page reaches is what the tables say; `invlpg` in `UnmapPage` is what keeps it
  so when the frame is given back. The refinement follows: a page leads where the
  tables say (`TranslatedIs`), the present bit that a first page of a table sets
  uncovers no other entry (`EntriesReachable`), and the TLB is not to be noticed.
* **Page counter.** `Balance`: the counter plus the bitmap's size, and the free
  bits plus the memory's size, differ by nothing or by one turn of 2^32. That is
  `CountOffset` without the remainder, and a step of one keeps it.
* **Timer.** Far from the wrap, `elapsed` and the distance to `target` add up to
  what is owed. At the `hlt` the test found a tick still owed, and `unseen` are
  those that came since.
* **8259.** With the call: nothing outranks a running handler, because the
  processor takes interrupts again only behind the EOI, so there is at most one
  service per controller (`Opened`), and the one `irq_eoi` ends is the one the
  delivery opened (`CallingStep`). Without it services pile up, each outranking
  all before (`PiledUp`, `SilentStep`), and what is taken last blocks its rank.
* **Disk.** Sectors the drive has left are of the command the call under way has
  sent, and as many as the call has still to move. A call that finds the drive
  at work on more (a count of 0 asks for 256) would break that, hence `Counts`.
* **Process table.** Pids in use lie below `next_pid` and grow with the index, so
  the entry `process_exit_new` finds is the only one; the move keeps the order.
* **WiFi, snipping tool.** The properties are inductive with their types; a
  block that is lost is in use, so `kmalloc` does not hand it out again.
* **Merged free blocks.** `Merged`: while `kfree` walks, no two neighbours before
  `cur` are free; at every other time there are none at all. A split's rest has an
  owned block before it and, as its whole was free, an owned one behind it.
* **PIT.** The count is the divisor's remainder by 2^16, or 2^16 where that is 0:
  the divisor itself in the counter's range, less than it above, and more where
  the divisor is 0 (`CountOfDivisor`).
* **8042.** The packet in the making, the output buffer and the bytes in the
  mouse are one consecutive piece of its stream, at every step of `mouse_init`; so
  what the handler takes next follows what it has stored. The scan codes that
  are owed are the one in the buffer and the one `mouse_init` took, since a read
  of the empty buffer returns a byte that was counted before (`KeyInv`).
* **Keyboard.** `WireOK`: applied to the flags, the bytes that wait give, one by
  one, the flags of the keys that were held as each was sent, and at the end those
  of the keys held now. A pair held together would break that, hence `OneOfEach`.
* **Console.** `FootOK`: the cells of the text memory are the last rows of the
  endless sheet. A scroll moves the memory up and the foot down by a row; that
  needs `Spot`, which takes a row and a column to a cell, to be one-to-one.
* **Nodes, Wine, Bluetooth, applets.** Each list is appended to below its limit
  and shortened by shifting; lemmas say what append, remove and search do to
  the entries. With them the properties are inductive beside the types: a node
  that comes first for a path keeps being first, and is the path's `home`
  (`HomeOK`); pids are the places of the
  processes while only the youngest goes, the built-in drives stay in front.
* **Framebuffer.** Coordinates that an int holds are themselves as unsigned
  numbers, or lie beyond any screen (`Unsigned`); so each pair of loops runs over
  the rectangle or over nothing. Everything a primitive does is a sequence of
  changes to pixels in it. The blur goes pixel by pixel, in the order of its
  loops, over a buffer that changes under it. That channels stay channels: the sum
  over the neighbours is at most their number times the largest level, whichever
  order the fold takes them in (`SumOverSet`), a mean is a level (`AverageIsLevel`)
  and so is a mixture (`BlendIsLevel`).
* **Store.** Ids lie below the next one and are distinct, the list of the
  installed has no id twice, and the storage in use is 1 GB and the sum of the
  installed sizes, with no remainder: it never exceeds the 2 GB that fit the
  field, so neither the check of `store_install_app` nor its sum ever sees a
  wrapped number. An operation changes one term of that sum (`SumChanges`). The
  tables fit their arrays (`TablesFit`) because the list shortens by one exactly
  when an id of it goes, and nothing is appended to a full one.
* **Strings.** The array reads as the caller's string from `strtok`'s place on,
  where no word is under way, and the tokens handed out are as many as the words
  that begin before it (`Agrees`, `Handed`): so a call either finds the next word
  or that none is left, and the NULs it has written lie behind it. What the
  conversion loop puts down denotes its argument digit by digit (`DigitsDenote`);
  only the least int is negative after the negation.
* **Terminal.** Every character leaves the cursor on the screen or `edged` set
  (`Good`, `PutCharKeeps`), and a string is characters one after the other. When a
  scroll comes to copy a row, those below the next one are untouched and those
  above read as the rows that were below them (`ScrollMovesText`); the copy ends
  in the row behind the one it reads, unless both are full (`CopyKeepsText`). For
  the types, lines are shorter than the buffer and histories no longer than their
  array (`HistoryFits`); the proof asked for a buffer of at least one character,
  without which no line fits, and `TerminalAssumption` says so now.
* **Composition.** Every step of `AppsNext` is a step of one part and leaves the
  other parts' variables alone (`SomePartsMove`, `OtherPartsMove`), so the
  composition implements each part's specification and inherits its theorems. For
  this nothing of `part` is used but who moves: the parts share no variable.

What a recursively defined function computes is proved where needed from the
least place at which it would fail (`Smallest` in `ListProofs`): that a sum over
the catalogue exists, how it changes with one of its terms, what a blur leaves
alone, and that a loop through the elements of a sequence has a run
(`LoopRuns` in `TextProofs`), which is the one its definition chooses
(`RunsAgree`).

Model-checked only: the properties with fairness (`FirstIsServed`, `KeyRead`,
`CallsReturn`, `Served`, `SleepEnds`, `ReadsReturn`), which the prover does not
handle; of `KeyRead` it proves the safety half. Every other property that a
passing run checks is stated by a theorem.

## 5. Where the code departs from what it says

Found while reading and modelling. Those with a run have a counterexample; for
the others the constant or guard is named that keeps them out of the passing
runs, so that the rest of the behaviour can be seen.

* Scheduler. `scheduler.c:66`: state is stored before priority (run
  `sched_stale_priority`). `:98-100`: the strict `<` of a scan from slot 0 is not
  the "Round-robin scheduling" of `:2`: among equals the lowest index wins every
  time, and those behind it starve; `FirstIsServed` is what remains. `:136`: a
  process that exited while current is revived at the end of its slice. `:142`:
  a tick before `scheduler_start` returns dispatches a process that the start
  then orphans as RUNNING (`IrqBeforeStart = FALSE`). `:53`: zombies keep their
  slots.
* Process table. `process.c:90`: the move leaves pointers, and the stack
  addresses that entries hold of themselves, behind.
* Interrupts. `irq.c:45`: line 2 stays masked (run `irq_mouse`).
  `entry.asm:129`: the call of `irq_handler` is commented out, so no EOI is ever
  sent and the first interrupt is the last of its rank and all below (the second
  half of `EoiMatchesStub`). The PIT's handler is never registered.
* Timer. `timer.c:43`: product and sum of `sleep` wrap (`MayWrap`), and a
  fraction of a tick is dropped. `:25`: below 19 Hz the divisor loses its high
  bits, and above the PIT's own clock it is 0, which counts 65536; `RateAsAsked`
  says what comes of either. `:45`: a tick between test and `hlt` lets the
  processor halt with its target passed, until the next one (`HaltsOnTime`).
* Heap. `heap.c:72`: the extension (run `heap_extend`). `:62`, `:93`: sizes close
  to 2^32 align to 0, and the product of `kcalloc` wraps (`NoWrap`). `:124`: the
  usage getters report where `heap_current` stands, which no allocation from the
  list moves.
* Pages. `pmm.c:27`: the loop that should reserve the first megabyte calls
  `pmm_free_page`: page 0 (NULL) and the kernel's pages are handed out (run
  `pmm_reserve`). `:39`:
  the counter wraps below zero on machines smaller than the bitmap.
* Page tables. `vmm.c:77`: remapping a present page leaves the TLB stale
  (`MayRemap = FALSE`). `:45`: 4 MB are mapped, while the heap's arena reaches to
  8 MB.
* Mouse and keyboard. `mouse.c:111`: acknowledgements (run `ps2_acks`). `:115`: a
  byte that arrives before the handler is registered blocks both devices. `:102`:
  the command byte is read without waiting for it, so what is read may be a scan
  code, which the keyboard handler may then miss (`stolen`). `keyboard.c:63`: one flag for
  two shift keys: releasing one of two held keys clears it (`OneOfEach`). `:90`:
  the character that honours caps lock is computed and not stored. `:81`: the
  key map is indexed with codes past its end.
* Files. `vfs.c:137`, `:144`, `:168`, `:180`: creation stores the last component
  and lookup compares the whole path, so an absolute path is never found;
  `open` of a new file returns 0 instead of its descriptor, which is somebody
  else's (what `OpenIsStable` exempts); an `open` of an absolute path with O_CREAT adds a node every time.
* Disk. `ata.c:39`: the wait for DRQ has no timeout and does not look at ERR, and
  `:34` waits for ever on a floating bus, which reads as BSY (`Hung`).
  `:131`: FLUSH CACHE between the sectors of one command. `:86`: a count of 0
  starts 256 sectors that nobody transfers (`Counts` has no 0). `:59`: a floating
  bus is taken for a drive.
* Windows. `desktop.c:182`: a closed window's entry keeps its id and its pointer
  (run `windows_twice`; `MayCloseTwice`). A product `w * h * 4` that wraps gives
  a short buffer or none.
* WiFi. `wifi.c:210`: a second connect does not clear the first one's flag
  (`doubled`). `:148`: a scan rebuilds the table under `connected_network`.
* Bluetooth. `bluetooth.c:269`: a connection that finds the list full (run
  `bt_disable`; `overflowed`). Discovery rebuilds the table that
  `active_connections` points into. `bluetooth_disconnect` clears the entry behind
  the moved ones with an index that is out of scope. `bluetooth_enable` and the
  toggles of the quick settings do not look at airplane mode.
* Wine. `wine.c:160`: pids come from the count, so a kill in the middle lets the
  next process share a pid (`reused`). The loop of `wine_shutdown` kills while it
  counts up and skips every second process.
* Terminal. `terminal.c:81`: a tab leaves the cursor at the end of a row, and the
  next character is stored before the column is compared (`edged`, `lost`).
  `:67`: rows are copied up with `strcpy`, and a full row has no NUL of its own. One
  full row is copied with the text behind it and nothing is lost; when the next
  is full too, the copy has overwritten it before its turn comes, and its text is
  gone from the screen (the first disjunct of `ScrollKeepsText`).
  `:314`: `history_index` is never set when a line is entered, so Up finds nothing
  until Down has been pressed.
* Console. `vga.c:49`, `main.c:92`: a signed `char` above 127 sets every bit of the
  attribute. `kprintf` passes its `va_list` to `sprintf` as if it were the
  arguments.
* Store. `store.c:464`: the first review (run `store_rating`). `:634`: publishing
  does not look at `MAX_STORE_APPS` and writes over the counters behind the table
  (`broken`). `:485`: 50 GB in 32 bits are 2 GB.
* Framebuffer. `framebuffer.c:39`: `y + h` wraps for a rectangle that hangs over the
  upper or left edge, and nothing of it is drawn. `:66`: the limit of a blur that
  reaches fewer than its radius onto the screen wraps, and the rest of the screen
  is blurred.
* Snipping tool. `snipping.c:127`, `:169`: a second capture forgets the first one's
  block; a selection without a screenshot loses its copy (`lost`).
* Explorer. `explorer.c:268`: after the last tab was closed `active_tab` stays -1,
  whichever tabs are opened (`emptied`).
* Installer. `installer_next_step` does not ask for the license (the button does,
  `installer.c:165`), nothing leads to COMPLETE, and the steps KEYBOARD and DISK
  have no screen (`:330-341`).


## 6. What is not modelled, and the plan

| Part | Why not, or what is planned |
|---|---|
| Mouse position, clamping and buttons | planned, behind `Ps2` |
| `ide.c` | planned: writes to the status register where it means to select the drive, reads without waiting for DRQ |
| `ramdisk.c` | two copies over one array; the sum of offset and size wraps before it is compared |
| ext2, network stub | a superblock's constants and a flag |
| `io.c`, boot code, exception stubs | port instructions and register loads |
| Settings, defender, task manager | fields that are set and drawn, counters; the task manager's list moves on removal as the sticky notes do |
| Desktop icons and themes | tables that are filled once |
| What the applications draw, texts, colours, layout | nothing depends on it |
| `wine_check_compatibility`, the store's search, rounding of the ratings | pure functions of strings and floats |
| The bump allocator at the end of `pmm.c` | clashes with `heap.c`'s when linked; `heap.c`'s is modelled |

The order in which this was built, by what fails worst first:

1. scheduler, then the rings shared by handler and mainline (proved);
2. heap, pages and page tables, and their composition (proved), the heap against
   the allocator's promise;
3. interrupts, timer, 8042, keyboard, disk, node table, process table
   (proved);
4. the window manager on the heap (proved);
5. radios, Wine layer, terminal, console, strings, framebuffer, store, snipping
   tool, small applications and installer (proved).

An abstract specification that is still worth stating: a screen that `Terminal`
and `Console` share.

## 7. Running it

    tlc -workers 2 -config MCKernel.cfg MCKernel           # any run of section 3
    tlapm SchedulerProofs.tla                              # any *Proofs module

`PROJECT.json` lists components, runs, the mutants of each property, the lines
that each definition models, findings, hazards and theorems. A passing run
takes from a few seconds to three minutes (`apps`); the proofs take about half an
hour together.
