-------------------------------- MODULE Boot --------------------------------
(***************************************************************************)
(* The boot processor from InitializeACPI to the end of start-up: Acpi,    *)
(* with PmTimer for the sleep in CalibrateTimer, then Ramdisk.  The local  *)
(* APIC's timer counts while the ACPI timer is polled.                     *)
(***************************************************************************)
EXTENDS Acpi

CONSTANTS
  Mask, Wraps, Targets, MaxDelay,                         \* of PmTimer
  PageBytes, Block, NameMax, Digits, Responses, Paths     \* of Ramdisk

VARIABLES
  wrap, target, timer, passed, count, current,   \* of PmTimer
  sleep,              \* where PMTMRSleep is
  InitCountRegister,  \* of GlobalTimerFlags, 0 until it is known
  response, stage, nth, offset, modMapped, modTouched, Modules, Files,
  ram, header, digit, weight, ret   \* of Ramdisk

Timer == INSTANCE PmTimer WITH pc <- sleep

Disk == INSTANCE Ramdisk WITH mapped <- modMapped, touched <- modTouched,
                              Header <- header, m <- nth, i <- offset,
                              j <- digit, count <- weight

ASSUME TimerAssumption == Timer!PmTimerOK
ASSUME RamdiskAssumption == Disk!RamdiskOK

clock == << wrap, target, timer, passed, count, current, sleep >>
ramdisk == << response, stage, nth, offset, modMapped, modTouched, Modules, Files, ram, header,
              digit, weight, ret >>
vars == << acpi, clock, InitCountRegister, ramdisk >>

BootInit == Init /\ Timer!Init /\ InitCountRegister = 0 /\ Disk!Init

Step == AcpiStep /\ UNCHANGED << clock, InitCountRegister, ramdisk >>

(* PMTMRSleep: whether it sleeps at all depends on the FADT. *)
Sleep ==
  /\ pc = "sleep"
  /\ \/ ~Table(GlobalFADT).timer /\ Timer!Unavailable
     \/ Table(GlobalFADT).timer /\ (Timer!ReadCount \/ Timer!Poll \/ Timer!Return)
  /\ UNCHANGED << acpi, InitCountRegister, ramdisk >>

(* The local APIC's timer has counted while the sleep lasted, from the first
   reading of the ACPI timer on: the few instructions between the start of
   the count and that reading take no time here. *)
Woken ==
  /\ sleep \in { "done", "failed" }
  /\ Calibrated(sleep = "done")
  /\ InitCountRegister' = IF sleep = "done" THEN passed ELSE 0
  /\ UNCHANGED << clock, ramdisk >>

(* SetupAllCPUs has returned. *)
LoadRamdisk ==
  /\ pc = "done"
  /\ Disk!Next
  /\ UNCHANGED << acpi, clock, InitCountRegister >>

Next == Step \/ Sleep \/ Woken \/ LoadRamdisk

(* The boot processor keeps running. *)
Spec == BootInit /\ [][Next]_vars /\ WF_vars(Next)
-----------------------------------------------------------------------------
TypeOK == AcpiTypeOK /\ InitCountRegister \in Nat

(* The timer of every core is programmed with what the local APIC counted in
   the time asked for, at most one poll more, wherever the ACPI timer stood
   and whether or not it wrapped meanwhile. *)
CalibrationRight ==
  pc \in { "scan", "redirect", "done" } =>
    InitCountRegister >= target /\ InitCountRegister < target + MaxDelay

(* Start-up gets to the end or to a panic: no search runs for ever, no poll
   misses the end of the sleep, and the walk through the archive finds its
   end. *)
BootEnds == <>(pc = "panic" \/ stage = "end")

(* The list of files is the archive's (Ramdisk). *)
FilesRight == Disk!FilesRight

(* No module is read through a page that is not mapped (Ramdisk). *)
ModulesMapped == Disk!ModulesMapped

(* A file is found by its path and by nothing else (Ramdisk). *)
GetFindsFirst == Disk!GetFindsFirst
=============================================================================
