------------------------------ MODULE Keyboard ------------------------------
(***************************************************************************)
(* The keyboard interrupt on the boot processor, from InitializeIOAPIC on: *)
(* the handlers of kernel/src/hal/cpu/interrupt/idt.cpp run in the middle  *)
(* of the end of SetupAllCPUs and of HandleModuleObjects, and share the    *)
(* log and the page allocator with them and with the other cores, which    *)
(* count themselves in CoresInitialized by a load and a store.             *)
(*                                                                         *)
(* The keyboard controller has one byte of output, and its interrupt is    *)
(* edge triggered: a byte that arrives while the I/O APIC's entry is       *)
(* masked raises none, and no other byte comes before that one is read.    *)
(***************************************************************************)
EXTENDS Integers, Sequences, FiniteSets

CONSTANTS
  MaxPresses,    \* bound on the keys pressed
  Machines,      \* where the firmware says the reset register is, and how
                 \* many pages of modules HandleModuleObjects maps
  OtherCores     \* cores that log that they are online

Keys == {"delete", "escape", "other"}   \* scan codes, releases are "other"
ResetRegs == {"none", "mmio", "io", "pci"}

ASSUME KeyboardAssumption ==
  /\ MaxPresses \in Nat
  /\ Machines \subseteq [resetReg : ResetRegs, pages : Nat]
  /\ OtherCores \cap {"nobody", "irq"} = {}

VARIABLES
  typed,         \* the scan codes the keyboard has sent so far
  outputFull,    \* the last of them has not been read from port 0x60
  masked,        \* the keyboard's redirection entry is
  pending,       \* interrupts the local APIC has accepted (IRR)
  inService,     \* and those not yet acknowledged (ISR)
  main,          \* where the boot processor is
  pagesLeft,     \* pages of the modules still to be mapped
  handler,       \* where the handler that interrupts it is
  after,         \* where it goes on after a log or an allocation
  DeletePressed,
  resetReg,      \* ResetReg.AddressSpace; "none": no FADT, before ACPI 2, other kinds
  logOwner,      \* who holds LogSpinlock
  pageLock,      \* who holds PageAlloc_Lock
  core,          \* where each other core is
  loaded,        \* CoresInitialized as each of them has just read it
  CoresInitialized,
  reset          \* the machine has been reset

device == << typed, outputFull >>
apic   == << masked, pending, inService >>
irq    == << handler, after, DeletePressed >>
bsp    == << main, pagesLeft >>
cores  == << core, loaded, CoresInitialized >>
vars   == << device, apic, bsp, irq, resetReg, logOwner, pageLock, cores, reset >>

CoreCount == 1 + Cardinality(OtherCores)

Init ==
  /\ typed = << >>
  /\ outputFull = FALSE
  /\ masked = TRUE
  /\ pending = {} /\ inService = {}
  /\ main = "ioapic"
  /\ handler = "none" /\ after = "none"
  /\ DeletePressed = FALSE
  /\ \E m \in Machines : resetReg = m.resetReg /\ pagesLeft = m.pages
  /\ logOwner = "nobody" /\ pageLock = "nobody"
  /\ core = [c \in OtherCores |-> "online"]
  /\ loaded = [c \in OtherCores |-> 0]
  /\ CoresInitialized = 1
  /\ reset = FALSE

-----------------------------------------------------------------------------
(* The devices *)

Press(k) ==
  /\ ~outputFull
  /\ Len(typed) < MaxPresses
  /\ typed' = Append(typed, k)
  /\ outputFull' = TRUE
  /\ pending' = IF masked THEN pending ELSE pending \union {"keyboard"}
  /\ UNCHANGED << masked, inService, bsp, irq, resetReg, logOwner, pageLock, cores, reset >>

Tick ==
  /\ pending' = pending \union {"timer"}
  /\ UNCHANGED << device, masked, inService, bsp, irq, resetReg, logOwner, pageLock, cores, reset >>

(* Reading port 0x60 empties the output buffer; the byte stays readable. *)
PortData == IF typed = << >> THEN "other" ELSE typed[Len(typed)]

(* The processor takes the interrupt of the highest vector, none while a
   handler runs (interrupt gates) or one of its class is in service. *)
Deliver ==
  /\ handler = "none"
  /\ inService = {}
  /\ \E v \in pending :
        /\ v = "timer" => "keyboard" \notin pending
        /\ pending' = pending \ {v}
        /\ inService' = {v}
        /\ handler' = v
  /\ UNCHANGED << device, masked, bsp, after, DeletePressed, resetReg,
                  logOwner, pageLock, cores, reset >>

-----------------------------------------------------------------------------
(* The boot processor outside handlers *)

MainRuns == handler = "none"

(* InitializeIOAPIC: the keyboard's redirection entry is written, unmasked. *)
CreateRedirectionEntry ==
  /\ MainRuns
  /\ main = "ioapic"
  /\ masked' = FALSE
  /\ main' = "drain"
  /\ UNCHANGED << device, pending, inService, pagesLeft, irq, resetReg, logOwner, pageLock, cores, reset >>

(* Mutant: port 0x60 is not read. *)
Drain_Skipped ==
  /\ MainRuns
  /\ main = "drain"
  /\ main' = "wait"
  /\ UNCHANGED << device, apic, pagesLeft, irq, resetReg, logOwner, pageLock, cores, reset >>

Drain ==
  /\ MainRuns
  /\ main = "drain"
  /\ outputFull' = FALSE
  /\ main' = "wait"
  /\ UNCHANGED << typed, apic, pagesLeft, irq, resetReg, logOwner, pageLock, cores, reset >>

(* The turn of the wait for the other cores that ends it. *)
CoresOnline ==
  /\ MainRuns
  /\ main = "wait"
  /\ CoresInitialized >= CoreCount
  /\ main' = "modules"
  /\ UNCHANGED << device, apic, pagesLeft, irq, resetReg, logOwner, pageLock, cores, reset >>

(* HandleModuleObjects maps a page of a module, allocating a table for it, *)
ModuleAllocate ==
  /\ MainRuns
  /\ main = "modules"
  /\ pagesLeft > 0
  /\ pageLock = "nobody"
  /\ pageLock' = "main"
  /\ main' = "allocating"
  /\ UNCHANGED << device, apic, pagesLeft, irq, resetReg, logOwner, cores, reset >>

ModuleAllocated ==
  /\ MainRuns
  /\ main = "allocating"
  /\ pageLock' = "nobody"
  /\ pagesLeft' = pagesLeft - 1
  /\ main' = "modules"
  /\ UNCHANGED << device, apic, irq, resetReg, logOwner, cores, reset >>

(* and _start ends. *)
MainHalts ==
  /\ MainRuns
  /\ main = "modules"
  /\ pagesLeft = 0
  /\ main' = "halted"
  /\ UNCHANGED << device, apic, pagesLeft, irq, resetReg, logOwner, pageLock, cores, reset >>

-----------------------------------------------------------------------------
(* The other cores: CPUStartPayload's Log, and CoresInitialized++ *)

CoreLogs(c) ==
  /\ core[c] = "online"
  /\ logOwner = "nobody"
  /\ logOwner' = c
  /\ core' = [core EXCEPT ![c] = "logging"]
  /\ UNCHANGED << device, apic, bsp, irq, resetReg, pageLock, loaded, CoresInitialized, reset >>

CoreLogged(c) ==
  /\ core[c] = "logging"
  /\ logOwner' = "nobody"
  /\ core' = [core EXCEPT ![c] = "load"]
  /\ UNCHANGED << device, apic, bsp, irq, resetReg, pageLock, loaded, CoresInitialized, reset >>

CoreLoads(c) ==
  /\ core[c] = "load"
  /\ loaded' = [loaded EXCEPT ![c] = CoresInitialized]
  /\ core' = [core EXCEPT ![c] = "store"]
  /\ UNCHANGED << device, apic, bsp, irq, resetReg, logOwner, pageLock, CoresInitialized, reset >>

CoreHalts(c) ==
  /\ core[c] = "store"
  /\ CoresInitialized' = loaded[c] + 1
  /\ loaded' = [loaded EXCEPT ![c] = 0]
  /\ core' = [core EXCEPT ![c] = "halted"]
  /\ UNCHANGED << device, apic, bsp, irq, resetReg, logOwner, pageLock, reset >>

-----------------------------------------------------------------------------
(* The handlers *)

(* TimerReset and LAPIC_EOI *)
TimerInterrupt ==
  /\ handler = "timer"
  /\ inService' = {}
  /\ handler' = "none"
  /\ UNCHANGED << device, masked, pending, bsp, after, DeletePressed, resetReg,
                  logOwner, pageLock, cores, reset >>

(* The handler goes on with a Log, or at once, at the place given. *)
LogThen(place) == handler' = "log" /\ after' = place
Continue(place) == handler' = place /\ UNCHANGED after

(* Mutant: Escape reboots whether Delete came before or not. *)
KeyboardInterrupt_AnyEscape ==
  /\ handler = "keyboard"
  /\ outputFull' = FALSE
  /\ \/ PortData = "delete" /\ LogThen("delete logged")
     \/ PortData = "escape" /\ LogThen("check FADT")
     \/ PortData = "other" /\ Continue("eoi")
  /\ UNCHANGED << typed, apic, bsp, DeletePressed, resetReg, logOwner, pageLock, cores, reset >>

KeyboardInterrupt ==
  /\ handler = "keyboard"
  /\ outputFull' = FALSE
  /\ \/ PortData = "delete" /\ LogThen("delete logged")
     \/ PortData = "escape" /\ DeletePressed /\ LogThen("check FADT")
     \/ PortData = "escape" /\ ~DeletePressed /\ Continue("eoi")
     \/ PortData = "other" /\ Continue("eoi")
  /\ UNCHANGED << typed, apic, bsp, DeletePressed, resetReg, logOwner, pageLock, cores, reset >>

IrqLogs ==
  /\ handler = "log"
  /\ logOwner = "nobody"
  /\ logOwner' = "irq"
  /\ handler' = "logging"
  /\ UNCHANGED << device, apic, bsp, after, DeletePressed, resetReg, pageLock, cores, reset >>

(* Mutant: the log is not given back. *)
IrqLogged_KeepsLock ==
  /\ handler = "logging"
  /\ handler' = after
  /\ after' = "none"
  /\ UNCHANGED << device, apic, bsp, DeletePressed, resetReg, logOwner, pageLock, cores, reset >>

IrqLogged ==
  /\ handler = "logging"
  /\ logOwner' = "nobody"
  /\ handler' = after
  /\ after' = "none"
  /\ UNCHANGED << device, apic, bsp, DeletePressed, resetReg, pageLock, cores, reset >>

SetDeletePressed ==
  /\ handler = "delete logged"
  /\ DeletePressed' = TRUE
  /\ handler' = "eoi"
  /\ UNCHANGED << device, apic, bsp, after, resetReg, logOwner, pageLock, cores, reset >>

(* PerformACPIReboot after its first Log.  A reboot that is not possible is
   logged by the handler. *)
CheckFADT ==
  /\ handler = "check FADT"
  /\ \/ resetReg = "none" /\ LogThen("eoi")
     \/ resetReg = "pci" /\ LogThen("failed")
     \/ resetReg = "mmio" /\ Continue("map")
     \/ resetReg = "io" /\ Continue("write")
  /\ UNCHANGED << device, apic, bsp, DeletePressed, resetReg, logOwner, pageLock, cores, reset >>

RebootFailed ==
  /\ handler = "failed"
  /\ LogThen("eoi")
  /\ UNCHANGED << device, apic, bsp, DeletePressed, resetReg, logOwner, pageLock, cores, reset >>

(* MemoryMap of the reset register's page, the first in the lower half: it
   takes its tables from AllocatePage. *)
MapAllocates ==
  /\ handler = "map"
  /\ pageLock = "nobody"
  /\ pageLock' = "irq"
  /\ handler' = "mapping"
  /\ UNCHANGED << device, apic, bsp, after, DeletePressed, resetReg, logOwner, cores, reset >>

Mapped ==
  /\ handler = "mapping"
  /\ pageLock' = "nobody"
  /\ handler' = "write"
  /\ UNCHANGED << device, apic, bsp, after, DeletePressed, resetReg, logOwner, cores, reset >>

(* The write to the reset register: nothing runs afterwards. *)
WriteResetValue ==
  /\ handler = "write"
  /\ reset' = TRUE
  /\ UNCHANGED << device, apic, bsp, irq, resetReg, logOwner, pageLock, cores >>

LAPIC_EOI ==
  /\ handler = "eoi"
  /\ inService' = {}
  /\ handler' = "none"
  /\ UNCHANGED << device, masked, pending, bsp, after, DeletePressed, resetReg,
                  logOwner, pageLock, cores, reset >>

-----------------------------------------------------------------------------
Main ==
  \/ CreateRedirectionEntry \/ Drain \/ CoresOnline
  \/ ModuleAllocate \/ ModuleAllocated \/ MainHalts

Handler ==
  \/ TimerInterrupt \/ KeyboardInterrupt \/ IrqLogs \/ IrqLogged \/ SetDeletePressed
  \/ CheckFADT \/ RebootFailed \/ MapAllocates \/ Mapped \/ WriteResetValue \/ LAPIC_EOI

Core(c) == CoreLogs(c) \/ CoreLogged(c) \/ CoreLoads(c) \/ CoreHalts(c)

Next ==
  /\ ~reset
  /\ \/ \E k \in Keys : Press(k)
     \/ Tick \/ Deliver \/ Main \/ Handler
     \/ \E c \in OtherCores : Core(c)

Spec == Init /\ [][Next]_vars

(* Every core keeps executing and takes interrupts; between two ticks of the
   timer the interrupted code gets somewhere.  Nobody has to press a key. *)
Fairness ==
  /\ WF_vars(~reset /\ Deliver)
  /\ WF_vars(~reset /\ Handler)
  /\ SF_vars(~reset /\ Main)
  /\ \A c \in OtherCores : WF_vars(~reset /\ Core(c))

FairSpec == Spec /\ Fairness
-----------------------------------------------------------------------------
(* The keyboard never stops working: a byte in the output buffer is read in
   the end, by a handler or by start-up, although its interrupt is lost when
   it comes before the I/O APIC is set up, and however handlers end. *)
KeysServed == outputFull ~> ~outputFull \/ reset

(* The machine is reset only when somebody has pressed Delete and then
   Escape, whatever bytes start-up discards or a handler reads twice. *)
RebootOnRequest ==
  reset => \E i, j \in DOMAIN typed : i < j /\ typed[i] = "delete" /\ typed[j] = "escape"

(* An attempt to reboot resets the machine or fails and returns. *)
RebootAnswered == (handler = "log" /\ after = "check FADT") ~> (reset \/ handler = "none")

(* Every other core has counted itself, and the count is still short: of two
   increments that overlapped one is lost. *)
IncrementLost == (\A c \in OtherCores : core[c] = "halted") /\ CoresInitialized < CoreCount

(* Start-up gets to its end, whatever is typed meanwhile and however the
   handlers and the cores contend for the log: only a reset ends it before,
   and nothing but a lost increment of CoresInitialized keeps it waiting. *)
StartupEnds == <>(main = "halted" \/ reset \/ IncrementLost)
=============================================================================
