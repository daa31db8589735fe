--------------------------- MODULE SmpBootProofs ---------------------------
(***************************************************************************)
(* The wait at the end of SetupAllCPUs is a safe barrier for any number of *)
(* cores: a lost increment of CoresInitialized can keep it shut, and never *)
(* opens it early.                                                         *)
(***************************************************************************)
EXTENDS SmpBoot, FiniteSetTheorems, TLAPS

(* The other cores are one fewer than the entries of the list. *)
LEMMA OthersCount == IsFiniteSet(Others) /\ Cardinality(Others) = CoreCount - 1
<1>1. IsFiniteSet(Cores) /\ Cardinality(Cores) = CoreCount
  BY SmpAssumption, FS_Interval DEF Cores
<1>. QED
  BY <1>1, SmpAssumption, FS_RemoveElement DEF Others

(* The number of halted cores. *)
LEMMA HaltedCount ==
  /\ IsFiniteSet(Halted) /\ Cardinality(Halted) \in Nat
  /\ Cardinality(Halted) <= CoreCount - 1
  /\ Cardinality(Halted) = CoreCount - 1 => Halted = Others
<1>1. Halted \in SUBSET Others
  BY DEF Halted
<1>. QED
  BY <1>1, OthersCount, FS_Subset, FS_CardinalityType

(* A core about to store makes room for its own increment. *)
LEMMA RoomToCount ==
  ASSUME NEW c \in Others, ap[c] # "halted"
  PROVE  Cardinality(Halted) + 1 <= CoreCount - 1
<1>1. c \notin Halted /\ IsFiniteSet(Halted)
  BY HaltedCount DEF Halted
<1>2. Cardinality(Halted \union {c}) = Cardinality(Halted) + 1
  BY <1>1, FS_AddElement
<1>3. Halted \union {c} \in SUBSET Others
  BY DEF Halted
<1>. QED
  BY <1>2, <1>3, OthersCount, FS_Subset

LEMMA Initially == Init => IInv
<1> SUFFICES ASSUME Init PROVE IInv
  OBVIOUS
<1> USE DEF Init
<1>1. Halted = {} /\ Cardinality(Halted) = 0
  BY FS_EmptySet DEF Halted
<1>2. TypeOK
  BY SmpAssumption DEF TypeOK, NONE
<1>3. CountInv /\ FlagsInv /\ BarrierSafe /\ TimersCalibrated
  BY <1>1 DEF CountInv, FlagsInv, BarrierSafe, TimersCalibrated
<1>. QED
  BY <1>2, <1>3 DEF IInv

(* Steps of the boot processor leave the others where they are. *)
LEMMA BspStepInv ==
  ASSUME IInv, BspStep
  PROVE  IInv'
<1> USE DEF bspVars, apVars
<1>1. Halted' = Halted
  BY DEF BspStep, BspPanic, InitializeMADT, CalibrateTimer, BspInitializeLAPIC, CPUJump,
         BspLog, BspIOAPICDone, BspContinue, Halted
<1>2. CountInv'
  BY <1>1 DEF IInv, CountInv, BspStep, BspPanic, InitializeMADT, CalibrateTimer,
              BspInitializeLAPIC, CPUJump, BspLog, BspIOAPICDone, BspContinue
<1>3. CASE BspPanic
  BY <1>1, <1>2, <1>3 DEF BspPanic, IInv, TypeOK, FlagsInv, BarrierSafe, TimersCalibrated
<1>4. CASE InitializeMADT
  BY <1>1, <1>2, <1>4 DEF InitializeMADT, IInv, TypeOK, FlagsInv, BarrierSafe, TimersCalibrated
<1>5. CASE CalibrateTimer
  BY <1>1, <1>2, <1>5 DEF CalibrateTimer, IInv, TypeOK, FlagsInv, BarrierSafe, TimersCalibrated
<1>6. CASE BspInitializeLAPIC
  <2>1. flags = "calibrated" /\ timer \in [Cores -> {"off", "zero", "calibrated"}]
    BY <1>6 DEF BspInitializeLAPIC, IInv, TypeOK, FlagsInv
  <2>2. timer' \in [Cores -> {"off", "zero", "calibrated"}] /\ TimersCalibrated'
    BY <1>6, <2>1 DEF BspInitializeLAPIC, IInv, TimersCalibrated
  <2>3. stage' \in {"ioapic", "release"}
    BY <1>6 DEF BspInitializeLAPIC
  <2>. QED
    BY <1>1, <1>2, <1>6, <2>1, <2>2, <2>3
       DEF BspInitializeLAPIC, IInv, TypeOK, FlagsInv, BarrierSafe
<1>7. CASE CPUJump
  <2>1. nextCore' \in 1 .. CoreCount + 1 /\ jumped' \in SUBSET Cores
    <3>1. nextCore \in 1 .. CoreCount + 1 /\ jumped \in SUBSET Cores
      BY DEF IInv, TypeOK
    <3>2. CASE nextCore < CoreCount
      <4>1. nextCore \in Cores /\ nextCore + 1 \in 1 .. CoreCount + 1
        BY <3>1, <3>2, SmpAssumption DEF Cores
      <4>. QED
        BY <1>7, <3>1, <3>2, <4>1 DEF CPUJump
    <3>3. CASE ~(nextCore < CoreCount)
      BY <1>7, <3>1, <3>3 DEF CPUJump
    <3>. QED
      BY <3>2, <3>3
  <2>. QED
    BY <1>1, <1>2, <1>7, <2>1 DEF CPUJump, IInv, TypeOK, FlagsInv, BarrierSafe, TimersCalibrated
<1>8. CASE BspLog
  BY <1>1, <1>2, <1>8, SmpAssumption
     DEF BspLog, IInv, TypeOK, FlagsInv, BarrierSafe, TimersCalibrated
<1>9. CASE BspIOAPICDone
  BY <1>1, <1>2, <1>9 DEF BspIOAPICDone, IInv, TypeOK, FlagsInv, BarrierSafe, TimersCalibrated
<1>10. CASE BspContinue
  <2>1. Halted = Others
    <3>1. CoreCount <= 1 + Cardinality(Halted)
      BY <1>10, HaltedCount, SmpAssumption DEF BspContinue, IInv, CountInv, TypeOK
    <3>. QED
      BY <3>1, HaltedCount, SmpAssumption
  <2>. QED
    BY <1>1, <1>2, <1>10, <2>1 DEF BspContinue, IInv, TypeOK, FlagsInv, BarrierSafe, TimersCalibrated
<1>. QED
  BY <1>3, <1>4, <1>5, <1>6, <1>7, <1>8, <1>9, <1>10 DEF BspStep

(* Steps of another core before it stores. *)
LEMMA PayloadInv ==
  ASSUME IInv, NEW c \in Others,
         ApStart(c) \/ ApInitializeLAPIC(c) \/ ApLogAcquire(c) \/ ApLogRelease(c) \/ ApLoad(c)
  PROVE  IInv'
<1> USE DEF bspVars, apVars, ApGoto
<1>1. ap[c] # "halted" /\ ap'[c] # "halted" /\ \A d \in Others \ {c} : ap'[d] = ap[d]
  BY DEF ApStart, ApInitializeLAPIC, ApLogAcquire, ApLogRelease, ApLoad, IInv, TypeOK
<1>2. Halted' = Halted
  BY <1>1 DEF Halted
<1>3. c \in Cores
  BY DEF Others
<1>4. CASE ApStart(c)
  BY <1>2, <1>4 DEF ApStart, IInv, TypeOK, CountInv, FlagsInv, BarrierSafe, TimersCalibrated
<1>5. CASE ApInitializeLAPIC(c)
  <2>1. flags = "calibrated"
    BY <1>5 DEF ApInitializeLAPIC, IInv, FlagsInv
  <2>2. timer' \in [Cores -> {"off", "zero", "calibrated"}] /\ TimersCalibrated'
    BY <1>3, <1>5, <2>1 DEF ApInitializeLAPIC, IInv, TypeOK, TimersCalibrated
  <2>. QED
    BY <1>2, <1>5, <2>2 DEF ApInitializeLAPIC, IInv, TypeOK, CountInv, FlagsInv, BarrierSafe
<1>6. CASE ApLogAcquire(c)
  BY <1>2, <1>3, <1>6 DEF ApLogAcquire, IInv, TypeOK, CountInv, FlagsInv, BarrierSafe, TimersCalibrated
<1>7. CASE ApLogRelease(c)
  BY <1>2, <1>7 DEF ApLogRelease, IInv, TypeOK, CountInv, FlagsInv, BarrierSafe, TimersCalibrated
<1>8. CASE ApLoad(c)
  <2>1. loaded' \in [Others -> 0 .. CoreCount]
    BY <1>8, SmpAssumption DEF ApLoad, IInv, TypeOK
  <2>2. CountInv'
    BY <1>2, <1>8 DEF ApLoad, IInv, TypeOK, CountInv
  <2>. QED
    BY <1>2, <1>8, <2>1, <2>2 DEF ApLoad, IInv, TypeOK, FlagsInv, BarrierSafe, TimersCalibrated
<1>. QED
  BY <1>4, <1>5, <1>6, <1>7, <1>8

(* The store, of a value that may be stale by now. *)
LEMMA StoreInv ==
  ASSUME IInv, NEW c \in Others, ApStore(c)
  PROVE  IInv'
<1> USE DEF bspVars, apVars, ApGoto, ApStore
<1>1. /\ ap[c] = "store" /\ ap'[c] = "halted"
      /\ \A d \in Others \ {c} : ap'[d] = ap[d]
      /\ loaded[c] \in 0 .. CoreCount
  BY DEF IInv, TypeOK
<1>2. Halted' = Halted \union {c} /\ c \notin Halted
  BY <1>1 DEF Halted
<1>3. Cardinality(Halted') = Cardinality(Halted) + 1
  BY <1>2, HaltedCount, FS_AddElement
<1>4. loaded[c] <= 1 + Cardinality(Halted)
  BY <1>1 DEF IInv, CountInv
<1>5. CoresInitialized' \in 1 .. CoreCount
  BY <1>1, <1>4, RoomToCount, HaltedCount, SmpAssumption
<1>6. CountInv'
  <2>1. CoresInitialized' <= 1 + Cardinality(Halted')
    BY <1>1, <1>3, <1>4, HaltedCount
  <2>2. \A d \in Others : ap'[d] = "store" => loaded'[d] <= 1 + Cardinality(Halted')
    <3>1. TAKE d \in Others
    <3>2. HAVE ap'[d] = "store"
    <3>3. ap[d] = "store" /\ loaded'[d] = loaded[d] /\ loaded[d] \in 0 .. CoreCount
      BY <1>1, <3>2 DEF IInv, TypeOK
    <3>4. loaded[d] <= 1 + Cardinality(Halted)
      BY <3>3 DEF IInv, CountInv
    <3>. QED
      BY <1>3, <3>3, <3>4, HaltedCount, SmpAssumption
  <2>. QED
    BY <2>1, <2>2 DEF CountInv
<1>7. TypeOK'
  BY <1>5 DEF IInv, TypeOK
<1>8. BarrierSafe'
  BY <1>2 DEF IInv, BarrierSafe
<1>9. FlagsInv' /\ TimersCalibrated'
  BY <1>1 DEF IInv, FlagsInv, TimersCalibrated
<1>. QED
  BY <1>6, <1>7, <1>8, <1>9 DEF IInv

LEMMA Inductive == IInv /\ [Next]_vars => IInv'
<1> SUFFICES ASSUME IInv, [Next]_vars PROVE IInv'
  OBVIOUS
<1>1. CASE BspStep
  BY <1>1, BspStepInv
<1>2. ASSUME NEW c \in Others, ApStep(c) PROVE IInv'
  BY <1>2, PayloadInv, StoreInv DEF ApStep
<1>3. CASE UNCHANGED vars
  BY <1>3 DEF vars, bspVars, apVars, IInv, TypeOK, CountInv, FlagsInv, BarrierSafe,
              TimersCalibrated, Halted
<1>. QED
  BY <1>1, <1>2, <1>3 DEF Next

THEOREM Invariance == Spec => []IInv
BY Initially, Inductive, PTL DEF Spec

(* Whatever increments are lost, kernel initialization goes on after
   SetupAllCPUs only with every core halted in its payload. *)
THEOREM BarrierIsSafe == Spec => []BarrierSafe
<1>1. IInv => BarrierSafe
  BY DEF IInv
<1>. QED
  BY <1>1, Invariance, PTL

(* No core programs its timer with flags that are not yet calibrated. *)
THEOREM TimersAreCalibrated == Spec => []TimersCalibrated
<1>1. IInv => TimersCalibrated
  BY DEF IInv
<1>. QED
  BY <1>1, Invariance, PTL

(* SetupAllCPUs and CPUStartPayload keep their state well typed; the counter
   never exceeds the number of cores. *)
THEOREM TypeCorrect == Spec => []TypeOK
<1>1. IInv => TypeOK
  BY DEF IInv
<1>. QED
  BY <1>1, Invariance, PTL
=============================================================================
