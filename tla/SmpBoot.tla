------------------------------ MODULE SmpBoot ------------------------------
(***************************************************************************)
(* Bringing the cores online, kernel/src/hal/cpu/smp/smp.cpp: the boot     *)
(* processor runs SetupAllCPUs and the others, once they are given an      *)
(* address to jump to, run CPUStartPayload.  They share the timer flags,   *)
(* the log's spinlock and the counter CoresInitialized, which is           *)
(* incremented by a load and a store.                                      *)
(***************************************************************************)
EXTENDS Integers, FiniteSets

CONSTANTS
  CoreCount,   \* entries of the bootloader's CPU list
  Bsp          \* the entry that is the boot processor itself

Cores == 0 .. CoreCount - 1

ASSUME SmpAssumption == CoreCount \in Nat \ {0} /\ Bsp \in Cores

Others == Cores \ {Bsp}
NONE == -1     \* the log is free

VARIABLES
  stage,       \* where the boot processor is in SetupAllCPUs
  nextCore,    \* i of the loop over the cores
  jumped,      \* SMPData entries whose goto_address is written
  flags,       \* GlobalTimerFlags: zero until they are calibrated
  ap,          \* where each other core is in CPUStartPayload
  timer,       \* the flags each core's local APIC timer was programmed with
  logOwner,    \* the core that holds LogSpinlock
  loaded,      \* CoresInitialized as each core read it
  CoresInitialized

bspVars == << stage, nextCore, jumped, flags >>
apVars  == << ap, loaded, CoresInitialized >>
vars == << bspVars, apVars, timer, logOwner >>

Init ==
  /\ stage = "madt"
  /\ nextCore = 1
  /\ jumped = {}
  /\ flags = "zero"
  /\ ap = [c \in Others |-> "parked"]
  /\ timer = [c \in Cores |-> "off"]
  /\ logOwner = NONE
  /\ loaded = [c \in Others |-> 0]
  /\ CoresInitialized = 1

-----------------------------------------------------------------------------
(* The boot processor *)

(* No CPU list, no MADT, no PM timer to calibrate by, or no I/O APIC. *)
BspPanic ==
  /\ stage \in {"madt", "calibrate", "ioapic"}
  /\ stage' = "panic"
  /\ UNCHANGED << nextCore, jumped, flags, apVars, timer, logOwner >>

(* Mutant: the timer is not calibrated before it is used. *)
InitializeMADT_NoCalibration ==
  /\ stage = "madt"
  /\ stage' = "lapic"
  /\ UNCHANGED << nextCore, jumped, flags, apVars, timer, logOwner >>

InitializeMADT ==
  /\ stage = "madt"
  /\ stage' = "calibrate"
  /\ UNCHANGED << nextCore, jumped, flags, apVars, timer, logOwner >>

CalibrateTimer ==
  /\ stage = "calibrate"
  /\ flags' = "calibrated"
  /\ stage' = "lapic"
  /\ UNCHANGED << nextCore, jumped, apVars, timer, logOwner >>

BspInitializeLAPIC ==
  /\ stage = "lapic"
  /\ timer' = [timer EXCEPT ![Bsp] = flags]
  /\ stage' = IF CoreCount = 1 THEN "ioapic" ELSE "release"
  /\ UNCHANGED << nextCore, jumped, flags, apVars, logOwner >>

(* Mutant: the loop ends one entry early. *)
CPUJump_OneShort ==
  /\ stage = "release"
  /\ IF nextCore < CoreCount - 1
     THEN /\ jumped' = jumped \union {nextCore}
          /\ nextCore' = nextCore + 1
          /\ UNCHANGED stage
     ELSE stage' = "ioapic" /\ UNCHANGED << jumped, nextCore >>
  /\ UNCHANGED << flags, apVars, timer, logOwner >>

(* The loop releases the entries from 1 on: entry 0 is taken for the boot
   processor, whichever entry that really is. *)
CPUJump ==
  /\ stage = "release"
  /\ IF nextCore < CoreCount
     THEN /\ jumped' = jumped \union {nextCore}
          /\ nextCore' = nextCore + 1
          /\ UNCHANGED stage
     ELSE stage' = "ioapic" /\ UNCHANGED << jumped, nextCore >>
  /\ UNCHANGED << flags, apVars, timer, logOwner >>

(* InitializeIOAPIC logs the source override it uses, if there is one. *)
BspLog ==
  /\ stage = "ioapic"
  /\ logOwner = NONE
  /\ logOwner' = Bsp
  /\ stage' = "logging"
  /\ UNCHANGED << nextCore, jumped, flags, apVars, timer >>

(* The rest of InitializeIOAPIC and the read of the keyboard's port. *)
BspIOAPICDone ==
  /\ stage \in {"ioapic", "logging"}
  /\ logOwner' = IF stage = "logging" THEN NONE ELSE logOwner
  /\ stage' = "wait"
  /\ UNCHANGED << nextCore, jumped, flags, apVars, timer >>

(* Mutant: the boot processor is not counted in CoresInitialized. *)
BspContinue_OneShort ==
  /\ stage = "wait"
  /\ CoresInitialized + 1 >= CoreCount
  /\ stage' = "done"
  /\ UNCHANGED << nextCore, jumped, flags, apVars, timer, logOwner >>

(* One turn of the wait for the other cores that ends it. *)
BspContinue ==
  /\ stage = "wait"
  /\ CoresInitialized >= CoreCount
  /\ stage' = "done"
  /\ UNCHANGED << nextCore, jumped, flags, apVars, timer, logOwner >>

-----------------------------------------------------------------------------
(* CPUStartPayload on core c *)

ApGoto(c, label) == ap' = [ap EXCEPT ![c] = label]

(* The bootloader leaves a core waiting for its goto_address; it loads the
   GDT and the IDT. *)
ApStart(c) ==
  /\ ap[c] = "parked"
  /\ c \in jumped
  /\ ApGoto(c, "lapic")
  /\ UNCHANGED << bspVars, timer, logOwner, loaded, CoresInitialized >>

(* InitializeLAPIC takes the timer flags over; then the kernel's CR3. *)
ApInitializeLAPIC(c) ==
  /\ ap[c] = "lapic"
  /\ timer' = [timer EXCEPT ![c] = flags]
  /\ ApGoto(c, "online")
  /\ UNCHANGED << bspVars, logOwner, loaded, CoresInitialized >>

ApLogAcquire(c) ==
  /\ ap[c] = "online"
  /\ logOwner = NONE
  /\ logOwner' = c
  /\ ApGoto(c, "logging")
  /\ UNCHANGED << bspVars, timer, loaded, CoresInitialized >>

ApLogRelease(c) ==
  /\ ap[c] = "logging"
  /\ logOwner' = NONE
  /\ ApGoto(c, "load")
  /\ UNCHANGED << bspVars, timer, loaded, CoresInitialized >>

(* Mutant: a core counts itself twice. *)
ApStore_Twice(c) ==
  /\ ap[c] = "store"
  /\ CoresInitialized' = loaded[c] + 2
  /\ ApGoto(c, "halted")
  /\ UNCHANGED << bspVars, timer, logOwner, loaded >>

(* CoresInitialized++ *)
ApLoad(c) ==
  /\ ap[c] = "load"
  /\ loaded' = [loaded EXCEPT ![c] = CoresInitialized]
  /\ ApGoto(c, "store")
  /\ UNCHANGED << bspVars, timer, logOwner, CoresInitialized >>

ApStore(c) ==
  /\ ap[c] = "store"
  /\ CoresInitialized' = loaded[c] + 1
  /\ ApGoto(c, "halted")
  /\ UNCHANGED << bspVars, timer, logOwner, loaded >>

-----------------------------------------------------------------------------
BspStep ==
  \/ BspPanic \/ InitializeMADT \/ CalibrateTimer \/ BspInitializeLAPIC
  \/ CPUJump \/ BspLog \/ BspIOAPICDone \/ BspContinue

ApStep(c) ==
  \/ ApStart(c) \/ ApInitializeLAPIC(c) \/ ApLogAcquire(c) \/ ApLogRelease(c)
  \/ ApLoad(c) \/ ApStore(c)

Next == BspStep \/ \E c \in Others : ApStep(c)

Spec == Init /\ [][Next]_vars

(* Every core keeps executing instructions. *)
Fairness == WF_vars(BspStep) /\ \A c \in Others : WF_vars(ApStep(c))

FairSpec == Spec /\ Fairness
-----------------------------------------------------------------------------
TypeOK ==
  /\ stage \in {"madt", "calibrate", "lapic", "release", "ioapic", "logging",
                "wait", "done", "panic"}
  /\ nextCore \in 1 .. CoreCount + 1
  /\ jumped \in SUBSET Cores
  /\ flags \in {"zero", "calibrated"}
  /\ ap \in [Others -> {"parked", "lapic", "online", "logging", "load", "store",
                        "halted"}]
  /\ timer \in [Cores -> {"off", "zero", "calibrated"}]
  /\ logOwner \in Cores \union {NONE}
  /\ loaded \in [Others -> 0 .. CoreCount]
  /\ CoresInitialized \in 1 .. CoreCount

Halted == { c \in Others : ap[c] = "halted" }

(* Kernel initialization goes on only when every core is online, even though
   increments of CoresInitialized may be lost. *)
BarrierSafe == stage = "done" => Halted = Others

(* A core that takes timer interrupts has the calibrated period: no core
   reads GlobalTimerFlags before the boot processor has filled them in. *)
TimersCalibrated == \A c \in Cores : timer[c] # "zero"

(* Once every other core is online the wait ends, and kernel initialization
   continues. *)
BarrierOpens == (Halted = Others /\ stage = "wait") ~> stage = "done"

(* Unless start-up ends in a panic, every core gets through its payload,
   although all of them queue for the one log. *)
CoresComeOnline == <>(stage = "panic" \/ Halted = Others)

-----------------------------------------------------------------------------
(* The inductive invariant behind BarrierSafe and TimersCalibrated. *)

(* Nothing is counted, or about to be, that has not happened. *)
CountInv ==
  /\ CoresInitialized <= 1 + Cardinality(Halted)
  /\ \A c \in Others : ap[c] = "store" => loaded[c] <= 1 + Cardinality(Halted)

(* The flags are there before the first core is sent on its way. *)
FlagsInv ==
  /\ stage \notin {"madt", "calibrate", "panic"} => flags = "calibrated"
  /\ jumped # {} => flags = "calibrated"
  /\ \A c \in Others : ap[c] # "parked" => c \in jumped

IInv == TypeOK /\ CountInv /\ FlagsInv /\ BarrierSafe /\ TimersCalibrated
=============================================================================
