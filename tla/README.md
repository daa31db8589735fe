# System/28: a formal model of the kernel

TLA+ modules that model the System/28 kernel (`src/kernel`), TLC
configurations that check them on small instances, and proofs checked by
TLAPS. Every definition is translated from the source; `PROJECT.json` maps
each to the lines it stands for, lists the runs, the hazards the properties
are aimed at, the theorems, and where the code and what is said of it differ.

## 1. The system

System/28 is a kernel for x86-64 machines, started by the Limine bootloader.
`_start` (early/start.cpp) initialises one part after the other on the boot
processor; the other cores are then brought online and halt. From then on the
kernel only reacts to the keyboard and to timer interrupts.

| Part | State it keeps | Operations | Interacts with |
|---|---|---|---|
| Physical memory manager, mm/pmm.cpp | free list of page blocks kept in the pages, `PageAlloc_Lock`, `PageFree_Lock` | InitializePMM, AllocatePage, FreePage | memory map of the bootloader; called by the VMM and the heap |
| Virtual memory manager, hal/vmm.cpp | four levels of page tables, `kernelPML4` | InitPaging, MemoryMap, LoadKernelCR3 | AllocatePage; called by ACPI, APIC, modules, the reboot in the keyboard handler |
| Heap, mm/heap.cpp | free list of nodes inside the blocks, three spinlocks | InitializeHeap, Allocate, Free, Reallocate | AllocatePage; called by `new`, `delete`, Vector |
| SMP start-up, smp.cpp | `SMPData`, `CoreCount`, `CoresInitialized` | SetupAllCPUs, CPUJump, CPUStartPayload | APIC, log, VMM; runs on all cores at once |
| APIC driver, apic.cpp | `GlobalMADT`, `GlobalTimerFlags`, the I/O APIC object, source overrides | InitializeMADT, CalibrateTimer, InitializeLAPIC, InitializeIOAPIC, LAPIC_EOI | ACPI tables, VMM, heap, log |
| Interrupts, idt.cpp | the IDT, `DeletePressed` | TimerInterrupt, KeyboardInterrupt, exception handlers | interrupts any code of its core; log, ACPI, APIC |
| ACPI, hal/acpi.cpp | `GlobalRSDT`, `GlobalFADT` | InitializeACPI, GetACPITable, PMTMRSleep, PerformACPIReboot | VMM maps every table; devices |
| Terminal and log, terminal.cpp | three nested spinlocks, `TargetPort` | Log, Print, PutChar | called by everything, handlers included |
| Panic, libs/kernel.cpp | two spinlocks | Panic, PanicFromException | log |
| Vector, libs/kernel.hpp | array, capacity, count | push_back, at, size (remove, pop_back uncalled) | heap; used by the APIC driver, the module list and the ramdisk |
| Ramdisk, obj/tar.cpp, obj/mod.cpp | list of modules, list of files, the archive itself | HandleModuleObjects, TarObject, DecodeTarNumeral, Get | VMM, heap, string helpers; the end of start-up |
| Spinlock, GDT, serial port, string and memory helpers, boot data | a word each, or fixed tables | | |

What is hard in this code:

- **two locks for one list**: AllocatePage and FreePage, and Allocate and
  Free, exclude themselves but not each other;
- **structures inside the memory they manage**: a wrong split overwrites a
  neighbour;
- **several cores starting at once**, counted with an increment that is not
  atomic, all going through one log;
- **interrupt handlers** that log, map pages and allocate memory in the
  middle of code that holds the same locks on the same core;
- **edge-triggered interrupts** that are lost while masked;
- **no memory left**: AllocatePage clears the null page inside its lock;
- **wrapping counters and boundaries**: the ACPI timer, blocks of exactly one
  page, remainders smaller than a node, names that fill their field, files
  that end with a block.

What makes each part correct: no page or word serves two purposes and none is
lost (both allocators); the tables implement a flat map (VMM); start-up goes
on only when every core is online, and does go on (SMP); no key is lost for
ever and each handler returns (interrupts); a sleep lasts as long as asked
(ACPI); each log line comes out whole (terminal); the list of files is the
archive's, and is read through mapped pages (ramdisk).

## 2. The modules

| Module | What it models | Source |
|---|---|---|
| FreeLists | the list both allocators use: nodes reachable from a head, extents, overlap | pmm.cpp, heap.cpp |
| PageAllocator | abstract: frames lent to one CPU at a time | promise of pmm.cpp |
| Pmm | the physical memory manager, one step per access to the list | mm/pmm.cpp, hal/vmm.cpp 26-34 |
| HeapAllocator | abstract: objects in memory no other object uses | promise of heap.cpp |
| Heap | the heap over words of memory | mm/heap.cpp |
| PageMap | abstract: a flat map of virtual to physical pages | promise of vmm.cpp |
| Vmm | page tables, MemoryMap and InitPaging | hal/vmm.cpp |
| SmpBoot | all cores during SetupAllCPUs | smp.cpp, parts of apic.cpp |
| Keyboard | the interrupts of the boot processor, the controller, the I/O and local APIC, the reboot | idt.cpp, apic.cpp, smp.cpp 42-49 and 89-101, acpi.cpp 190-233, mod.cpp, kernel's log lock |
| KernelLog | abstract: a log that writes each caller's line once, between its call and its return | promise of terminal.cpp |
| Console | Log, Print and PutChar on all cores, the serial port, panics and exceptions | terminal.cpp 93-207, serial.cpp, libs/kernel.cpp 32-66 |
| Vectors | the kernel's vector as it is used: capacity, count, stale elements | libs/kernel.hpp |
| Acpi | the boot processor's search of the firmware's tables and of the MADT, the keyboard's redirection | acpi.cpp, apic.cpp 137-290 |
| PmTimer | PMTMRSleep and the counter it polls | acpi.cpp 118-136 |
| Ramdisk | the modules' pages, the walk through the archive, the list of files, Get | obj/mod.cpp, obj/tar.cpp, libs/string.c |
| Boot | Acpi, PmTimer and Ramdisk composed: start-up from InitializeACPI to its end | start.cpp, smp.cpp 63-68, apic.cpp 265-286 |
| FreeListsProofs, PmmProofs, HeapProofs, VmmProofs, SmpBootProofs, BootProofs, ConsoleProofs, KeyboardProofs | theorems and proofs | |
| MCPmm, MCHeap, MCVmm, MCSmpBoot, MCKeyboard, MCBoot, MCConsole | instances for TLC | |

In each module a variable bears the name of the program's variable where
there is one (`head`, `CoresInitialized`, `kernelPML4`, `DeletePressed`); the
others are a program counter `pc` (or `main`, `handler`, `ap`, `stage`), the
locals of a call in progress, the devices, and what callers own (`held`,
`objects`). Definitions named `X_...` with a comment "Mutant" are plausible
mistakes in `X`; they are in no specification and serve to show that the
properties would notice them.

**Pmm.** Addresses are page numbers. `size[v]` and `next[v]` are the PageNode
at the start of page `v`. AllocatePage is six steps (AllocAcquire to
AllocFinish), FreePage three; InitializePMM is one step per entry of the
memory map. An empty list leads to the label "fault": the code writes through
the null page and the CPU halts inside the lock. `Spec` lets every CPU call
anything; `SerialSpec` adds the discipline that no FreePage overlaps an
AllocatePage, which today's callers keep (nothing calls FreePage yet).

**Heap.** Memory is an array of 8-byte words, a node two words, so that a
node written in the wrong place really overwrites what is there. Every turn of
FindSuitableNode's loop, the unlinking, the split, the insertion and
the final size are steps; Reallocate takes its lock, then goes through Allocate,
the copy and Free. Owners fill their objects with their own data. The pages
AllocatePage gives are a constant sequence. Those of one call of ExpandHeap are
assumed adjacent (`Adjacent`): the code turns them into one block and takes this
for granted. It is so as long as nothing is freed and no block of memory ends in
the middle of a call; a heap that grows later may find it broken (a hazard).

**Vmm.** A virtual address is a page number cut into four indices. A context
(start-up, or a handler that interrupts it) walks the tables one access at a
time. InitPaging is its two loops. `CallsOK` states how the kernel uses
MemoryMap: one target per page, large and small pages apart, handlers under
top-level entries of their own.

**SmpBoot.** The boot processor's stages and each core's payload;
`CoresInitialized++` is a load and a store. The log is its spinlock.

**Keyboard.** The boot processor from the moment the keyboard's redirection
entry is written; the controller's one-byte buffer and the edge-triggered
entry decide whether a byte raises an interrupt. A handler runs with
interrupts off and nothing else of its core moves; the other cores do: each
logs, then counts itself by a load and a store, and start-up waits for the
count, as in SmpBoot.

**Console.** A text is the sequence of the characters one call writes; each
knows which Print of the call writes it (`run`, 0 for PutChar) and whether it
is a newline, which is what decides the locks taken and the bytes sent. Every
lock operation, `flanterm_write` and byte for the port is a step. `_start`'s
splash is a Print with no Log around it, and no other core runs before it has
returned. A panic is three calls of Log under a lock of its own. Exceptions
strike a core outside the console (nothing Log does can fault with the texts
the kernel gives it), and a call of Print with an empty string, which only
takes and gives back its lock, is left out.

**Acpi, PmTimer, Boot.** The machine is one of `Firmwares`: tables anywhere in
memory, each with what the kernel looks at. Nothing of them is mapped at first, as
the bootloader need not list their memory; `mapped` and `touched` collect the
pages MemoryMap and the code's accesses reach. Memory is counted in units of
an RSDT entry. A MADT's structures lie end to end (`LaidOut`), which the code
takes for granted. Acpi is every step of the boot processor but the sleep in
CalibrateTimer; Boot puts PmTimer there, with what the local APIC's timer
counts meanwhile. The two halves of a redirection entry are written in one
step: the second, the destination, is taken to be what it already was (0, as
after a reset), so that the first alone decides what the entry does.
PmTimer is the counter, the ticks that really passed, and the loop.

**Ramdisk.** The last stage of Boot. What the bootloader answers is one of
`Responses`: no modules, or some, of which the first may or may not be a tape
archive; which it is is chosen when HandleModuleObjects is called, the first
moment it matters, so that it does not multiply the states before. Memory is
counted in bytes here. A module that is an archive is what tar makes
(`LaidOut`, `Written`): a header block before each file's contents, in whole
blocks, then a block of zeros; names that may fill their field, sizes in octal
digits. Each turn of the loop that maps pages, of the walk and of
DecodeTarNumeral's loop is a step. Headers are changed where they lie: the
slash of a directory is overwritten in memory, as in the code, and Get
compares what is there. An element of a vector that was never written holds
`Garbage`.

## 3. The runs

| Run | Instance | Shows |
|---|---|---|
| pmm_serial | 2 CPUs, 4 usable pages in two blocks around a reserved page, an entry of no page | the allocator's invariants, its promise, the lock comes back |
| pmm_race | the same, FreePage may overlap | violation: a page in two places |
| heap_serial | 2 CPUs, 3 pages of 4 words, two of them adjacent, growth by 2 pages, objects of 2 and 4 words | blocks apart and conserved, nodes and contents kept, the promise, searches end, also while the heap grows and when it cannot; it grows only when no block fits |
| heap_remainder | objects of 1 and 2 words | violation: a remainder of one word overwrites the next node |
| vmm_calls | tables of 2 entries, 3 pages of memory map, a handler's small and large page, one frame too few | tree of tables, flat map, direct map stays |
| smp_four | 4 cores | barrier, calibration, every core comes online |
| smp_lost_update | 3 cores | violation: a lost increment keeps the barrier shut |
| keyboard_io | 3 keys, 2 other cores; module pages and the reset register in I/O or PCI space or none, or the register in memory and no module | keyboard keeps working, resets only on request, start-up ends unless an increment is lost |
| keyboard_lock | 1 module page and the reset register in memory | violation: the handler waits for its own core's lock |
| console_lines | 2 cores, 1 call of Log each and a panic, or an exception of either kind whenever the core is outside the console, texts with characters of the format, Prints and newlines | texts come out whole, once and in order on screen and serial port, reports under one lock apart, every call returns |
| boot_firmware | 8 machines: complete, compact, damaged RSDT or FADT, no MADT, FADT, timer or I/O APIC; counters of 3 and 5 bits, every start, delays up to the limit; no modules, modules that are not an archive, archives with directories and files of 0 to 2 blocks, prefixes of each other, a name that fills its field, a name twice | nothing read before it is mapped, the right tables and all controllers found, the timer calibrated, the list of files and Get right, start-up ends |
| boot_overrides | an override to an interrupt that another one overrides | violation: the second is applied to the result of the first |

*Bounds.* Two CPUs are enough for an interleaving of an allocation with a
free and of two calls of a kind. Pmm's four pages allow blocks that are split
and blocks of one page, lists of zero to four blocks in any order, and
exhaustion. Heap's blocks are split with and without remainder, refused,
and reused out of order; the heap grows and is exhausted. In Vmm two entries per table
make every level branch. Four cores are what the Makefile's QEMUFLAGS start, entry 0 being the
boot processor, as the loop takes for granted (the theorems hold for any place);
a lost update needs two besides the boot processor. Three keys allow Delete, Escape and one
before the drain or between the two, or a second Escape after a reboot that failed. In Console two cores contend for every lock, one
in a report while the other logs or panics; the calls are finitely many because
a test-and-set lock may pass over a waiting core for as long as others keep
calling. In Boot a page is four units and a header three, so that
tables lie in one page, across one boundary and across two; the timer covers
every phase of both counters; for the ramdisk a page is two blocks of four bytes,
so that contents end in the middle of a block, with one, and with a page, and
a size has two digits. CHECK_DEADLOCK is off where the system really
stops: a CPU that died in AllocatePage, cores that halt at the end of start-up
or of a panic, a machine that is reset, the end of start-up.

*Fairness.* A core that is inside a call keeps executing (weak fairness of its
steps); nobody is obliged to make a call or press a key. In SmpBoot every core runs
on its own. In Keyboard the processor takes pending interrupts and runs
handlers (weak), and the interrupted code gets somewhere between interrupts
(strong fairness: the timer's period is 50 ms, its handler two register
writes). In Console each core in a call keeps executing and the serial port keeps
sending. In Boot the processor keeps running; delays between two polls are
at most `MaxDelay`, as nothing interrupts it yet.

## 4. The proofs

- `Exclusion` (PmmProofs): under `Spec`, any number of CPUs, AllocatePage and
  FreePage each exclude themselves.
- `Invariance`, `TypeCorrect`, `PageInOnePlace`, `PagesConserved`,
  `Implements` (PmmProofs): under `SerialSpec`, for any memory map that obeys
  the boot protocol and any number of CPUs, no page is in two places, none is
  lost, and the list implements PageAllocator. NoDoubleUse alone is not
  inductive: `IInv` adds that the list is a simple path (`BlockInv`), what a CPU
  knows between two of its steps (`CallInv`: the block it takes is still the
  head, the rest it has cut off has the right size and successor), the locks
  and the boot order. FreeListsProofs holds what pushing, popping and writing
  elsewhere do to the nodes of a list; these replace induction along the list,
  because `Reach` is the smallest closed set.
- `OnlySlivers`, `Apartness`, `NothingLost`, `HeadersKept`,
  `ContentsStay`, `Growth`, `Refinement` (HeapProofs): under `SerialSpec`, for any
  number of CPUs, pages, adjacencies and growth, the words of free blocks, of
  calls in progress and of objects are apart and are together what AllocatePage
  gave; every object keeps its node and its contents; and the heap implements
  HeapAllocator. All of this holds for
  objects of any size, whole nodes or not (the kernel asks for 8, 24 and 40
  bytes, too), until a split leaves a remainder of one word: from there on
  the code is wrong (finding 3), so each theorem has the hypothesis `[]NoSliver`,
  which the steps before the first such split satisfy. `OnlySlivers` says that nothing
  else can go wrong. Where pages and objects are whole nodes, as in
  heap_serial, no such remainder is ever left (the lemma `WholeNodes`). A
  request for more than one growth gives (`Expand` pages) makes the heap grow
  again with a block too small for it; the code does not guard against that, and
  `GrowthNeeded` says so. The invariant (`Inv`) is that the list in memory is a simple path
  of sound blocks that do not overlap (`GoodList`); where each call's nodes lie
  and what it has read of them is still there (`Calling`, `Holding`, `Listed`); that
  the search has seen every node before the one it is at and found none to fit
  (`Searched`); that objects have their node and contents (`Keeping`); that
  all of these are apart (`Apart`) and leave no word out (`Covered`). The model
  reads the free list off memory by walking it; `FreeIsListed` shows that the
  walk finds the smallest closed set of FreeLists, because a simple path has
  no more nodes than there are words, so that its lemmas apply to a list that
  lies in the very memory it manages.
- `BarrierIsSafe`, `TimersAreCalibrated`, `TypeCorrect` (SmpBootProofs): for
  any number of cores. The invariant is that the counter, and any value about
  to be stored in it, never exceeds one plus the halted cores: lost
  increments can only make it smaller.

- `Tree`, `CallsMapped`, `DirectMap`, `FlatMap` (VmmProofs): for tables of any
  size, any memory map, any contexts and calls that keep to CallsOK, memory
  that runs out included. The proof looks at the tables through `T` and `E`, the
  table and the entry that an address meets at a level; addresses that have
  their digits above the level in common (`P`) meet the same. `WellFormed` says
  that no two others do (`Injective`), that large pages and tables of small ones are
  where such pages are asked for, and that no entry leads to nothing. On top of it
  the invariant `Inv` says that a walk is at the table its address meets
  (`Walking`) or about to link an empty one that none meets (`Linking`), that
  walks of two contexts differ from the top (`Elsewhere`), that each
  frame given is a table or with the one walk that made it (`Owned`), and that what
  InitPaging has asked for is mapped but for the call it is in (`Started`).
  `Linked`, `Filled` and `Cleared` are what the three kinds of writes change for
  any address. For the size of the tree, the entries with a table are mapped one to
  one to the tables below the top (`OneEntryEach`); that an index may be
  any (`AnyDigit`) makes every table of a level one that some address meets.
- `Calibration` (BootProofs): for counters of any width that the mask divides,
  any start and any delays short enough, the APIC timers get what the local
  APIC counted in the time asked for. The invariant (`ClockInv`) is that the
  counter is what it was plus the time passed minus whole turns of the mask;
  that the masked difference of two readings is then the time between them is
  arithmetic on quotients and remainders (`ModMultiple`, `DifferenceIsTime`).
- `TablesMapped` (BootProofs): for pages and tables of any size at any
  address. The invariant (`TablesInv`) is that the loop of MemoryMapACPITable has
  mapped every page from the table's first to where it is, that the tables
  the kernel has kept are mapped as a whole, and that the walk through the
  MADT stands at the offset of a structure.
- `TablesRight`, `AllControllers` (BootProofs): for any number of tables and
  controller structures. On top of `TablesInv`, `RightInv` says that no entry of
  the RSDT the search has passed is the table it looks for (`EntriesInv`), so
  that where it stops is the first; that the tables kept are the first of their
  kinds (`FirstInv`); that the sleep fails exactly where the FADT has no timer
  (`SleptInv`); and that a vector holds the structures of its type among those
  passed, the n-th at its place n (`VectorsInv`, `Filled`). `PushBackAdds` is
  the lemma that growing a vector loses nothing.
- `TypeCorrect` (BootProofs): `TypeOK`, whose point is that the length the loop
  over the MADT has left stays between 0 and the table's, so that the code's
  size_t never wraps; it follows from `ScanInv` at each turn.
- `OverrideRight` (BootProofs): for any overrides in any order, the keyboard's
  interrupt goes where the first override for it says, provided that none behind
  it is for the interrupt that one leads to (`NoChain`); boot_overrides shows a
  firmware with such a chain, where it does not. The invariant (`IrqInv`) is that
  `irq` is IRQ as long as no override for it has been passed, and where the
  first leads from then on; `Ranks` links the places in the vector with the
  places in the MADT.
- `WholeTexts` (ConsoleProofs): for any number of cores and any texts. The
  invariant (`ConsoleInv`) is that one core at most is between acquisition and
  release of LogSpinlock, or the boot processor is alone in its splash, and
  that the screen ends with exactly what that core has written of its text.
- `ReportsStayApart` (ConsoleProofs): on top of it (`ReportInv`), a panic's lock
  has one holder, all that is on the screen under a lock was written by its
  holders, and a core that may still write does so behind the reports of
  those that held the lock before it.
- `LocksInOrder` (ConsoleProofs): the safe half of CallsReturn. The invariant
  (`InnerInv`, `OwnerInv`) says which of the five locks are taken from where the
  writing core and the panics are; so PrintLock and PutCharLock are free whenever
  they are wanted, and whoever holds an outer lock waits only for one further in,
  or for the serial port.
- `PortFollowsScreen` (ConsoleProofs): the serial port sends what is on the
  screen, in order, with a carriage return before each newline. The invariant
  (`PortInv`) is that the screen's bytes are those on the wire, in the holding
  register and those the core inside PutChar has still to write (`Pending`).
- `Refinement` (ConsoleProofs): Console implements KernelLog. The invariant
  (`LineInv`) is that a line on the screen belongs to a call that was made
  (`LinesMade`), and that a call in progress has its line there exactly when its
  text is written to the end (`LineOf`). What FlattenSeq, a recursive function,
  does with a sequence that grows (`FlattenAppend`) is proved once for
  both, with the shortest sequence for which it would not hold.
- `ResetOnRequest` (KeyboardProofs): for any number of keys, cores and module
  pages. The invariant (`RequestInv`) is that Delete has been typed where
  `DeletePressed` is set or about to be, and Escape behind it where a handler is
  on its way to the reset, the Log it may be waiting in included.
- `OnlyOneHang` (KeyboardProofs): the safe half of KeysServed and RebootAnswered,
  for any machine. An unread byte is one that start-up will discard, or has its
  interrupt accepted or in its handler, no interrupt is in service without a
  handler, and a handler that waits does so for a core whose Log ends, except
  where it wants a page in the middle of start-up's own AllocatePage: the hang of
  finding 4 is the only one of theirs. (Start-up itself also hangs when an
  increment of `CoresInitialized` is lost, finding 2.)
- `RamdiskMapped`, `ListOfFiles`, `GetByPath` (BootProofs): for any number
  of modules and files of any sizes, and any page size that blocks divide. The
  invariant (`RamInv`) is made of what each part of the code leaves to the next:
  the loop over the first module has mapped its bytes as far as it is
  (`MapInv`); the walk is at the header of the file behind those in the list
  (`WalkInv`); headers are what tar wrote, but for the slashes of those passed
  (`NamesInv`); what is decoded of a number and what the digits left are worth
  add up to the size (`DecodeInv`); and the list's elements are the files
  passed (`ListInv`). On top of it `Compares` says that strncmp of a padded
  name and a path is 0 exactly if they are equal. Where the argument goes
  along the archive or a string, it uses that a set of numbers has a least
  element (`Least`, `Induction`, from the library's WFMin).

The proofs' assumptions are those the modules state: `PmmAssumption` (entries
of the memory map do not overlap, the direct map's offset is not 0),
`HeapAssumption` (the pages the heap is given are apart, those of one growth
adjacent, none is page 0; a page holds at least a node; sizes are not 0),
`VmmAssumption` (the frames AllocatePage gives are distinct and none is page 0,
calls keep to `CallsOK`),
`SmpAssumption`, `AcpiAssumption` (firmware tables are well formed),
`TimerAssumption` (the mask divides the counters' ranges, a delay and a target
fit in it), `RamdiskAssumption` (modules are page aligned, a page is a number of
blocks, an archive is as tar makes it, with fewer than 65,536 files) and
`ConsoleAssumption` (texts are not empty).

With these every safety invariant and refinement of the passing runs is a theorem,
OverrideUsed under the condition it needs. Liveness under fairness is out of the
prover's reach and only model-checked: `LockReturned`, `SearchEnds`,
`CoresComeOnline`, `KeysServed`, `RebootAnswered`, `StartupEnds`, `CallsReturn`
and `BootEnds`.

## 5. What differs from what is said

Each is a run that TLC finds violated; the details are in `PROJECT.json`.

1. FreePage may run while AllocatePage does, on the same list (pmm_race).
2. `CoresInitialized++` may lose an increment and start-up hangs (smp_lost_update).
3. A remainder of 8 bytes becomes a node of 16 (heap_remainder).
4. A reboot key in the middle of AllocatePage hangs the core (keyboard_lock).
5. CreateRedirectionEntry applies source overrides one after the other to each
   other's results, so the interrupt may go where no override sends it (boot_overrides).

## 6. Not modelled, and what is left

Not modelled: the framebuffer itself, the serial port's set-up, the GDT, CR3 and port
instructions, the contents of messages and the numbers in them (itoa,
hexToString), the boot protocol's other responses. Vector 13's handler reads
no error code, which only changes what a report says of a core that halts
anyway. Nothing calls the vector's remove and pop_back, TarObject's GetAll or its
destructor. The vector's own destructor runs once, for InitializeIOAPIC's local
`ioapic_vec` when it returns: it gives the array back to the heap with Free, while no
other core allocates, and Acpi, which has no heap, leaves it out; nothing of
the array is used afterwards. Of an
archive's headers the prefix field, for paths of more than 100 characters,
and the target of a link are not looked at by the code. An archive without its
closing block of zeros and a response without a module are assumed away: the
walk would run out of the module, and element 0 of an empty list is whatever
the heap had there. Caches and memory ordering are left out: the steps are
those of sequentially consistent memory.

What is left to prove is what the other liveness properties rest on and can be
said without it: that the searches of the heap and of the RSDT, the walk through
the archive and start-up of the cores get closer to their end with each turn.
