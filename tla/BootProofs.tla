----------------------------- MODULE BootProofs -----------------------------
(***************************************************************************)
(* What start-up's calibration and its walk through the firmware's tables  *)
(* guarantee for every timer and every layout of the tables: the APIC's    *)
(* timers are programmed right, nothing is read before it is mapped, the   *)
(* tables and controllers found are the right ones, and the keyboard's     *)
(* interrupt is redirected as the overrides say.                           *)
(* And what Boot says of the ramdisk, for every archive, however many      *)
(* files it has, and every page and block size: the kernel's list of files *)
(* is the archive's, nothing is read of a module that is not mapped, and   *)
(* Get finds what it is asked for.                                         *)
(***************************************************************************)
EXTENDS Boot, FiniteSetTheorems, WellFoundedInduction, TLAPS

-----------------------------------------------------------------------------
(* Division *)

(* Quotient and remainder. *)
LEMMA DivMod ==
  ASSUME NEW b \in Nat \ {0}, NEW x \in Int
  PROVE  /\ x \div b \in Int /\ x % b \in 0 .. b - 1
         /\ x = b * (x \div b) + (x % b)
  OBVIOUS

LEMMA DivNat ==
  ASSUME NEW b \in Nat \ {0}, NEW x \in Nat
  PROVE  x \div b \in Nat
  OBVIOUS

(* They are the only ones. *)
LEMMA DivModUnique ==
  ASSUME NEW b \in Nat \ {0}, NEW q \in Int, NEW r \in 0 .. b - 1
  PROVE  (b * q + r) % b = r /\ (b * q + r) \div b = q
<1> DEFINE x == b * q + r
<1>1. x \in Int /\ x \div b \in Int /\ x % b \in 0 .. b - 1
      /\ x = b * (x \div b) + (x % b)
  BY DivMod
<1>2. b * (q - (x \div b)) = (x % b) - r
  BY <1>1
<1>. QED
  BY <1>1, <1>2

(* A remainder by a multiple of b leaves the remainder by b. *)
LEMMA ModMultiple ==
  ASSUME NEW b \in Nat \ {0}, NEW c \in Nat \ {0}, c % b = 0, NEW x \in Int
  PROVE  \E q \in Int : x % c = x - b * q
<1>1. PICK u \in Int : c = b * u
  <2>1. c = b * (c \div b) + (c % b) /\ c \div b \in Int
    BY DivMod
  <2>2. c = b * (c \div b)
    BY <2>1
  <2>. QED
    BY <2>1, <2>2
<1>2. PICK v \in Int : x = c * v + (x % c)
  <2>1. x = c * (x \div c) + (x % c) /\ x \div c \in Int
    BY DivMod
  <2>. QED
    BY <2>1
<1>3. u * v \in Int /\ (b * u) * v = b * (u * v)
  BY <1>1, <1>2
<1>4. x % c \in Int
  BY DivMod
<1>5. x % c = x - b * (u * v)
  BY <1>1, <1>2, <1>3, <1>4
<1>. QED
  BY <1>3, <1>5

-----------------------------------------------------------------------------
(* The timer *)

(* Where the counter stands, up to turns of its low bits. *)
InPhase == \E q \in Int : timer = count + passed - Mask * q

ClockTypeOK ==
  /\ wrap \in Wraps /\ target \in Targets
  /\ timer \in Int /\ count \in Int /\ passed \in Nat /\ current \in Nat
  /\ sleep \in { "start", "poll", "done", "failed" }

(* The loop of PMTMRSleep knows how much time has passed. *)
PollInv ==
  /\ sleep = "start" => passed = 0 /\ current = 0
  /\ sleep \in { "poll", "done" } => InPhase /\ current = passed /\ passed < target + MaxDelay
  /\ sleep = "done" => passed >= target

Slept == pc \in { "scan", "redirect", "done" }

FlagsInv == Slept => sleep = "done" /\ InitCountRegister = passed

ClockInv == ClockTypeOK /\ PollInv /\ FlagsInv

LEMMA ClockConstants ==
  /\ Mask \in Nat \ {0} /\ SizeT \in Nat \ {0} /\ SizeT % Mask = 0
  /\ \A w \in Wraps : w \in Nat \ {0} /\ w % Mask = 0
  /\ MaxDelay \in Nat \ {0}
  /\ \A t \in Targets : t \in Nat /\ t + MaxDelay <= Mask
  BY TimerAssumption DEF Timer!PmTimerOK

(* The masked difference of two readings is the time between them. *)
LEMMA DifferenceIsTime ==
  ASSUME NEW c \in Int, NEW p \in 0 .. Mask - 1, NEW q \in Int
  PROVE  (((c + p - Mask * q) - c) % SizeT) % Mask = p
<1> DEFINE x == (c + p - Mask * q) - c
<1>1. x \in Int /\ x = p - Mask * q
  BY ClockConstants
<1> HIDE DEF x
<1>2. PICK s \in Int : x % SizeT = x - Mask * s
  BY <1>1, ClockConstants, ModMultiple, ZenonT(60)
<1>3. x % SizeT = Mask * (0 - q - s) + p
  BY <1>1, <1>2, ClockConstants
<1>4. (Mask * (0 - q - s) + p) % Mask = p
  BY ClockConstants, DivModUnique
<1>. QED
  BY <1>3, <1>4 DEF x

LEMMA ClockInit == BootInit => ClockInv
<1> SUFFICES ASSUME BootInit PROVE ClockInv
  OBVIOUS
<1> USE DEF BootInit, Init, Timer!Init
<1>1. ClockTypeOK
  BY ClockConstants DEF ClockTypeOK
<1>. QED
  BY <1>1 DEF PollInv, FlagsInv, Slept, ClockInv

(* One turn of the loop. *)
LEMMA PollKeepsTime ==
  ASSUME ClockTypeOK, PollInv, Timer!Poll
  PROVE  ClockTypeOK' /\ PollInv'
<1> USE DEF Timer!Poll
<1>1. sleep = "poll" /\ current < target /\ current = passed
      /\ UNCHANGED << wrap, target, count, sleep >>
  BY DEF PollInv
<1>2. PICK d \in 1 .. MaxDelay : passed' = passed + d /\ timer' = (timer + d) % wrap
  OBVIOUS
<1>3. PICK q \in Int : timer = count + passed - Mask * q
  BY <1>1 DEF PollInv, InPhase
<1>4. PICK s \in Int : timer' = (timer + d) - Mask * s
  <2> DEFINE y == timer + d
  <2>1. y \in Int /\ wrap \in Nat \ {0} /\ wrap % Mask = 0
    BY ClockConstants DEF ClockTypeOK
  <2> HIDE DEF y
  <2>2. \E s \in Int : y % wrap = y - Mask * s
    BY <2>1, ClockConstants, ModMultiple
  <2>. QED
    BY <1>2, <2>2 DEF y
<1>5. timer' = count + passed' - Mask * (q + s) /\ q + s \in Int
  BY <1>2, <1>3, <1>4, ClockConstants DEF ClockTypeOK
<1>6. passed' \in 0 .. Mask - 1 /\ passed' < target + MaxDelay
  BY <1>1, <1>2, ClockConstants DEF ClockTypeOK
<1>7. current' = ((timer' - count) % SizeT) % Mask
  BY DEF Timer!Difference
<1>8. current' = passed'
  BY <1>5, <1>6, <1>7, DifferenceIsTime DEF ClockTypeOK
<1>9. timer' \in Int
  BY <1>5, <1>6, ClockConstants DEF ClockTypeOK
<1>. QED
  BY <1>1, <1>5, <1>6, <1>8, <1>9 DEF ClockTypeOK, PollInv, InPhase

LEMMA SleepInv ==
  ASSUME ClockInv, Sleep
  PROVE  ClockInv'
<1> USE DEF ClockInv
<1>1. pc = "sleep" /\ UNCHANGED << acpi, InitCountRegister >>
  BY DEF Sleep
<1>2. FlagsInv'
  BY <1>1 DEF FlagsInv, Slept, acpi
<1>3. CASE Timer!Unavailable
  BY <1>2, <1>3 DEF Timer!Unavailable, ClockTypeOK, PollInv
<1>4. CASE Timer!ReadCount
  <2>1. timer' = count' + passed' - Mask * 0 /\ 0 \in Int
    BY <1>4, ClockConstants DEF Timer!ReadCount, ClockTypeOK, PollInv
  <2>. QED
    BY <1>2, <1>4, <2>1, ClockConstants DEF Timer!ReadCount, ClockTypeOK, PollInv, InPhase
<1>5. CASE Timer!Poll
  BY <1>2, <1>5, PollKeepsTime
<1>6. CASE Timer!Return
  BY <1>2, <1>6, ClockConstants DEF Timer!Return, ClockTypeOK, PollInv, InPhase
<1>. QED
  BY <1>3, <1>4, <1>5, <1>6 DEF Sleep

(* No step but the end of the sleep leads to the search for controllers. *)
LEMMA AcpiStepSlept ==
  ASSUME AcpiStep, Slept'
  PROVE  Slept
<1> USE DEF Slept, Goto, MapFrom, Search, FindAll
<1>1. CASE SetRSDP \/ MapHeader \/ HeaderMapped \/ MapTable \/ TableMapped
  BY <1>1 DEF SetRSDP, MapHeader, HeaderMapped, MapTable, TableMapped
<1>2. CASE NextEntry \/ Compare \/ NotFound
  BY <1>2 DEF NextEntry, Compare, NotFound
<1>3. CASE ChecksumRSDT \/ FoundFADT \/ InitializeMADT \/ StartCalibration
  BY <1>3 DEF ChecksumRSDT, FoundFADT, InitializeMADT, StartCalibration
<1>4. CASE FindTurn \/ IOAPICsFound \/ OverridesFound \/ ApplyOverride \/ WriteRedirectionEntry
  BY <1>4 DEF FindTurn, IOAPICsFound, OverridesFound, ApplyOverride, WriteRedirectionEntry
<1>. QED
  BY <1>1, <1>2, <1>3, <1>4 DEF AcpiStep

LEMMA ClockNext == ClockInv /\ [Next]_vars => ClockInv'
<1> SUFFICES ASSUME ClockInv, [Next]_vars PROVE ClockInv'
  OBVIOUS
<1>1. CASE Step
  BY <1>1, AcpiStepSlept
     DEF Step, clock, ClockInv, ClockTypeOK, PollInv, InPhase, FlagsInv
<1>2. CASE Sleep
  BY <1>2, SleepInv
<1>3. CASE Woken
  BY <1>3 DEF Woken, Calibrated, Goto, FindAll, clock, ClockInv, ClockTypeOK, PollInv,
              InPhase, FlagsInv, Slept
<1>4. CASE LoadRamdisk \/ UNCHANGED vars
  BY <1>4 DEF LoadRamdisk, vars, acpi, clock, ClockInv, ClockTypeOK, PollInv, InPhase, FlagsInv,
              Slept
<1>. QED
  BY <1>1, <1>2, <1>3, <1>4 DEF Next

(* What every core's APIC timer is programmed with is what the local APIC has
   counted in the time asked for, at most one poll more: for any width of the
   ACPI timer that the mask divides, any reading it starts at, and any delays
   between the polls of PMTMRSleep that stay below a turn of the low 24 bits. *)
THEOREM Calibration == Spec => []CalibrationRight
<1>1. ClockInv => CalibrationRight
  BY DEF ClockInv, PollInv, FlagsInv, Slept, CalibrationRight
<1>. QED
  BY ClockInit, ClockNext, <1>1, PTL DEF Spec

-----------------------------------------------------------------------------
(* The tables *)

(* The table at an address, whole, is mapped. *)
Known(a) == a \in DOMAIN fw.table /\ Pages(a, Table(a).length) \subseteq mapped

(* What MemoryMapACPITable has mapped of the table so far. *)
LoopInv ==
  pc \in { "header", "table" } =>
    /\ tab \in DOMAIN fw.table
    /\ at \in Nat /\ at = AlignDown(at)
    /\ \A x \in AlignDown(tab) .. at - 1 : Page(x) \in mapped

(* The table the search has come to is mapped; the RSDT is the bootloader's. *)
SearchInv ==
  /\ fw \in Firmwares
  /\ index \in Nat
  /\ pc \in { "rsdt", "compare", "found" } => Known(tab)
  /\ pc = "found" => Table(tab).sig = want
  /\ pc = "rsdt" => tab = GlobalRSDT
  /\ GlobalRSDT = NULL =>
       \/ pc = "start"
       \/ pc \in { "header", "table" } /\ tab = fw.rsdt
  /\ GlobalRSDT # NULL => pc # "start" /\ GlobalRSDT = fw.rsdt /\ Known(GlobalRSDT)

(* With the tables found, what is read of them is mapped. *)
Late == { "calibrate", "sleep", "scan", "redirect", "done" }
FoundInv ==
  /\ want = "APIC" => Known(GlobalFADT)
  /\ pc \in Late =>
       /\ want = "APIC"
       /\ Known(GlobalMADT) /\ Table(GlobalMADT).sig = "APIC"
       /\ Page(fw.lapic) \in mapped

(* The loop over the controller structures is at one of them, or behind the last. *)
ScanInv ==
  /\ pc = "scan" =>
       LET t == Table(GlobalMADT) IN
       /\ k \in 1 .. Len(t.ics) + 1
       /\ at = GlobalMADT + t.offset[k]
       /\ length = t.length - t.offset[k]
  /\ pc = "redirect" => Page(At(ioapics, 0).base) \in mapped

TablesInv == LoopInv /\ SearchInv /\ FoundInv /\ ScanInv /\ AccessMapped

(* An address lies in its page, and the pages follow one another. *)
LEMMA PageFacts ==
  ASSUME NEW a \in Nat
  PROVE  /\ AlignDown(a) \in Nat /\ AlignDown(a) <= a
         /\ AlignDown(AlignDown(a)) = AlignDown(a)
         /\ AlignDown(a + PageSize) = AlignDown(a) + PageSize
         /\ a = AlignDown(a) => \A x \in a .. a + PageSize - 1 : Page(x) = Page(a)
<1>1. PageSize \in Nat \ {0}
  BY AcpiAssumption
<1> DEFINE q == a \div PageSize
           r == a % PageSize
<1>2. q \in Nat /\ r \in 0 .. PageSize - 1 /\ a = PageSize * q + r
  <2>1. a \in Int
    OBVIOUS
  <2>2. r \in 0 .. PageSize - 1 /\ a = PageSize * q + r
    BY <1>1, <2>1, DivMod
  <2>3. q \in Nat
    BY <1>1, DivNat
  <2>. QED
    BY <2>2, <2>3
<1> HIDE DEF q, r
<1>3. Page(a) = q
  BY DEF Page, q
<1>4. AlignDown(a) = PageSize * q
  BY <1>3 DEF AlignDown
<1>5. PageSize * q \in Nat /\ PageSize * q <= a
  BY <1>1, <1>2
<1>6. (PageSize * q + 0) \div PageSize = q
  BY <1>1, <1>2, DivModUnique
<1>7. AlignDown(PageSize * q) = PageSize * q
  BY <1>1, <1>2, <1>6 DEF AlignDown, Page
<1>8. AlignDown(a + PageSize) = AlignDown(a) + PageSize
  <2>1. a + PageSize = PageSize * (q + 1) + r
    BY <1>1, <1>2
  <2>2. (PageSize * (q + 1) + r) \div PageSize = q + 1
    BY <1>1, <1>2, DivModUnique
  <2>3. PageSize * (q + 1) = PageSize * q + PageSize
    BY <1>1, <1>2
  <2>. QED
    BY <2>1, <2>2, <2>3, <1>4 DEF AlignDown, Page
<1>9. ASSUME a = AlignDown(a), NEW x \in a .. a + PageSize - 1
      PROVE  Page(x) = Page(a)
  <2>1. x - a \in 0 .. PageSize - 1 /\ x = PageSize * q + (x - a)
    BY <1>1, <1>2, <1>4, <1>9
  <2>2. (PageSize * q + (x - a)) \div PageSize = q
    BY <1>1, <1>2, <2>1, DivModUnique
  <2>. QED
    BY <2>1, <2>2, <1>3 DEF Page
<1>. QED
  BY <1>4, <1>5, <1>7, <1>8, <1>9

(* What the firmwares have in common, as it is used below. *)
LEMMA FirmwareFacts ==
  ASSUME fw \in Firmwares
  PROVE  /\ Header \in Nat \ {0} /\ MadtHeader \in Nat /\ Header <= MadtHeader
         /\ fw.rsdt \in DOMAIN fw.table /\ fw.rsdt # NULL /\ Table(fw.rsdt).sig = "RSDT"
         /\ \A a \in DOMAIN fw.table :
              /\ a \in Nat /\ Table(a).length \in Header .. SizeT - 1
              /\ Table(a).sig = "RSDT" => Table(a).length = Header + Len(Table(a).entries)
              /\ Table(a).sig = "APIC" => LaidOut(Table(a))
              /\ Table(a).entries \in Seq(DOMAIN fw.table)
<1>1. FirmwareOK(fw)
  BY AcpiAssumption
<1>. QED
  BY <1>1, AcpiAssumption DEF FirmwareOK, TableOK, Table

(* Mapping one more page of a table. *)
LEMMA MapOnePage ==
  ASSUME fw \in Firmwares, LoopInv, pc \in { "header", "table" },
         mapped' = mapped \union {Page(at)}, at' = at + PageSize, UNCHANGED << fw, tab >>
  PROVE  LoopInv'
<1>1. PageSize \in Nat \ {0}
  BY AcpiAssumption
<1>2. tab \in DOMAIN fw.table /\ tab \in Nat /\ at \in Nat /\ at = AlignDown(at)
  BY FirmwareFacts DEF LoopInv
<1>3. AlignDown(tab) \in Nat
  BY <1>2, PageFacts
<1>4. at' \in Nat /\ at' = AlignDown(at')
  BY <1>1, <1>2, PageFacts
<1>5. ASSUME NEW x \in AlignDown(tab) .. at' - 1
      PROVE  Page(x) \in mapped'
  <2>1. CASE x < at
    <3>1. x \in AlignDown(tab) .. at - 1
      BY <1>2, <1>3, <1>5, <2>1
    <3>. QED
      BY <3>1 DEF LoopInv
  <2>2. CASE x >= at
    <3>1. x \in at .. at + PageSize - 1
      BY <1>1, <1>2, <1>3, <1>5, <2>2
    <3>2. Page(x) = Page(at)
      BY <1>2, <3>1, PageFacts
    <3>. QED
      BY <3>2
  <2>3. x \in Int
    BY <1>5
  <2>. QED
    BY <1>2, <2>1, <2>2, <2>3
<1>6. AlignDown(tab)' = AlignDown(tab)
  BY DEF AlignDown, Page
<1>. QED
  BY <1>2, <1>4, <1>5, <1>6 DEF LoopInv

(* The loop has mapped a table, or its header, when it is past its end. *)
LEMMA LoopCovers ==
  ASSUME fw \in Firmwares, LoopInv, pc \in { "header", "table" },
         NEW n \in Nat, at >= tab + n
  PROVE  Pages(tab, n) \subseteq mapped
<1>1. tab \in Nat /\ at \in Nat /\ AlignDown(tab) \in Nat /\ AlignDown(tab) <= tab
  BY FirmwareFacts, PageFacts DEF LoopInv
<1>2. ASSUME NEW x \in tab .. tab + n - 1
      PROVE  Page(x) \in mapped
  <2>1. x \in AlignDown(tab) .. at - 1
    BY <1>1, <1>2
  <2>. QED
    BY <2>1 DEF LoopInv
<1>. QED
  BY <1>2 DEF Pages

(* A loop that starts at a table's page has nothing to have mapped yet. *)
LEMMA LoopStarts ==
  ASSUME fw \in Firmwares, fw' = fw, tab' \in DOMAIN fw.table, at' = AlignDown(tab')
  PROVE  LoopInv'
<1>1. tab' \in Nat
  BY FirmwareFacts
<1>2. AlignDown(tab') \in Nat /\ AlignDown(AlignDown(tab')) = AlignDown(tab')
  BY <1>1, PageFacts
<1>3. AlignDown(tab') .. AlignDown(tab') - 1 = {}
  BY <1>2
<1>4. AlignDown(tab)' = AlignDown(tab') /\ AlignDown(at)' = AlignDown(at')
  BY DEF AlignDown, Page
<1>. QED
  BY <1>2, <1>3, <1>4 DEF LoopInv

LEMMA TablesInit == BootInit => TablesInv
<1> SUFFICES ASSUME BootInit PROVE TablesInv
  OBVIOUS
<1>. QED
  BY DEF BootInit, Init, TablesInv, LoopInv, SearchInv, FoundInv, ScanInv, Late, AccessMapped

(* MemoryMapACPITable. *)
LEMMA MappingStep ==
  ASSUME TablesInv, SetRSDP \/ MapHeader \/ HeaderMapped \/ MapTable \/ TableMapped
  PROVE  TablesInv'
<1> USE DEF TablesInv, Goto, MapFrom, Access, Map, tables, vectors, scan
<1>1. fw \in Firmwares
  BY DEF SearchInv
<1>2. CASE SetRSDP
  <2>1. LoopInv'
    <3>1. fw' = fw /\ tab' = fw.rsdt /\ at' = AlignDown(tab')
      BY <1>2 DEF SetRSDP
    <3>. QED
      BY <1>1, <3>1, LoopStarts, FirmwareFacts
  <2>2. SearchInv' /\ FoundInv' /\ ScanInv'
    BY <1>2 DEF SetRSDP, SearchInv, FoundInv, ScanInv, Late, Known, Table
  <2>3. AccessMapped'
    BY <1>2 DEF SetRSDP, AccessMapped
  <2>. QED
    BY <2>1, <2>2, <2>3
<1>3. CASE MapHeader \/ MapTable
  <2>1. /\ pc \in { "header", "table" } /\ mapped' = mapped \union {Page(at)}
        /\ at' = at + PageSize
        /\ UNCHANGED << fw, touched, pc, tab, want, index, tables, scan, vectors >>
    BY <1>3 DEF MapHeader, MapTable
  <2>2. LoopInv'
    BY <1>1, <2>1, MapOnePage
  <2>3. SearchInv' /\ FoundInv' /\ ScanInv'
    BY <2>1 DEF SearchInv, FoundInv, ScanInv, Late, Known, Table
  <2>4. AccessMapped'
    BY <2>1 DEF AccessMapped
  <2>. QED
    BY <2>2, <2>3, <2>4
<1>4. CASE HeaderMapped
  <2>1. Pages(tab, Header) \subseteq mapped
    BY <1>1, <1>4, LoopCovers, FirmwareFacts DEF HeaderMapped
  <2>2. LoopInv'
    <3>1. fw' = fw /\ tab' = tab /\ at' = AlignDown(tab') /\ tab \in DOMAIN fw.table
      BY <1>4 DEF HeaderMapped, LoopInv
    <3>. QED
      BY <1>1, <3>1, LoopStarts
  <2>3. SearchInv' /\ FoundInv' /\ ScanInv'
    BY <1>4 DEF HeaderMapped, SearchInv, FoundInv, ScanInv, Late, Known, Table
  <2>4. AccessMapped'
    BY <1>4, <2>1 DEF HeaderMapped, AccessMapped
  <2>. QED
    BY <2>2, <2>3, <2>4
<1>5. CASE TableMapped
  <2>1. tab \in DOMAIN fw.table /\ Table(tab).length \in Nat /\ tab # NULL
    BY <1>1, <1>5, FirmwareFacts, AcpiAssumption, SMTT(30) DEF TableMapped, LoopInv, FirmwareOK
  <2>2. Known(tab)
    BY <1>1, <1>5, <2>1, LoopCovers DEF TableMapped, Known
  <2>3. SearchInv'
    BY <1>5, <2>1, <2>2 DEF TableMapped, SearchInv, Known, Table
  <2>4. LoopInv' /\ FoundInv' /\ ScanInv' /\ AccessMapped'
    BY <1>5 DEF TableMapped, LoopInv, FoundInv, ScanInv, Late, Known, Table, AccessMapped
  <2>. QED
    BY <2>3, <2>4
<1>. QED
  BY <1>2, <1>3, <1>4, <1>5

(* GetACPITable. *)
LEMMA SearchStep ==
  ASSUME TablesInv, NextEntry \/ Compare \/ NotFound
  PROVE  TablesInv'
<1> USE DEF TablesInv, Goto, MapFrom, Access, Map, tables, vectors, scan
<1>1. fw \in Firmwares /\ index \in Nat
  BY DEF SearchInv
<1>2. CASE NextEntry
  <2>1. /\ pc = "entry" /\ index < EntryCount
        /\ GlobalRSDT \in DOMAIN fw.table /\ Table(GlobalRSDT).sig = "RSDT"
        /\ Pages(GlobalRSDT, Table(GlobalRSDT).length) \subseteq mapped
    BY <1>1, <1>2, FirmwareFacts DEF NextEntry, SearchInv, Known
  <2>2. Table(GlobalRSDT).entries[index + 1] \in DOMAIN fw.table
    <3>1. /\ Table(GlobalRSDT).entries \in Seq(DOMAIN fw.table)
          /\ Header \in Nat
          /\ Table(GlobalRSDT).length = Header + Len(Table(GlobalRSDT).entries)
      BY <1>1, <2>1, FirmwareFacts
    <3>2. index + 1 \in 1 .. Len(Table(GlobalRSDT).entries)
      BY <1>1, <2>1, <3>1 DEF EntryCount
    <3>. QED
      BY <3>1, <3>2
  <2>3. Pages(GlobalRSDT + Header + index, 1) \subseteq mapped
    <3>1. /\ GlobalRSDT \in Nat /\ Header \in Nat
          /\ Table(GlobalRSDT).length \in Nat
      BY <1>1, <2>1, FirmwareFacts, AcpiAssumption
    <3>2. GlobalRSDT + Header + index \in GlobalRSDT .. GlobalRSDT + Table(GlobalRSDT).length - 1
      BY <1>1, <2>1, <3>1 DEF EntryCount
    <3>3. Page(GlobalRSDT + Header + index) \in mapped
      BY <2>1, <3>2 DEF Pages
    <3>4. \A y \in GlobalRSDT + Header + index .. GlobalRSDT + Header + index + 1 - 1 :
             y = GlobalRSDT + Header + index
      BY <1>1, <3>1
    <3>. QED
      BY <3>3, <3>4 DEF Pages
  <2>4. LoopInv'
    <3>1. fw' = fw /\ tab' \in DOMAIN fw.table /\ at' = AlignDown(tab')
      BY <1>2, <2>2 DEF NextEntry
    <3>. QED
      BY <1>1, <3>1, LoopStarts
  <2>5. SearchInv' /\ FoundInv' /\ ScanInv'
    BY <1>2 DEF NextEntry, SearchInv, FoundInv, ScanInv, Late, Known, Table
  <2>6. AccessMapped'
    BY <1>2, <2>3 DEF NextEntry, AccessMapped
  <2>. QED
    BY <2>4, <2>5, <2>6
<1>3. CASE Compare
  <2>1. Pages(tab, Header) \subseteq Pages(tab, Table(tab).length)
    <3>1. /\ tab \in Nat /\ Header \in Nat /\ Table(tab).length \in Nat
          /\ Header <= Table(tab).length
      BY <1>1, <1>3, FirmwareFacts, AcpiAssumption DEF Compare, SearchInv, Known
    <3>2. tab .. tab + Header - 1 \subseteq tab .. tab + Table(tab).length - 1
      BY <3>1
    <3>. QED
      BY <3>2 DEF Pages
  <2>2. AccessMapped'
    BY <1>3, <2>1 DEF Compare, AccessMapped, SearchInv, Known
  <2>3. LoopInv' /\ SearchInv' /\ FoundInv' /\ ScanInv'
    BY <1>1, <1>3 DEF Compare, LoopInv, SearchInv, FoundInv, ScanInv, Late, Known, Table
  <2>. QED
    BY <2>2, <2>3
<1>4. CASE NotFound
  BY <1>4 DEF NotFound, LoopInv, SearchInv, FoundInv, ScanInv, Late, Known, Table, AccessMapped
<1>. QED
  BY <1>2, <1>3, <1>4

(* InitializeACPI, InitializeMADT and CalibrateTimer. *)
LEMMA InitializeStep ==
  ASSUME TablesInv, ChecksumRSDT \/ FoundFADT \/ InitializeMADT \/ StartCalibration
  PROVE  TablesInv'
<1> USE DEF TablesInv, Goto, Search, Access, Map, tables, vectors, scan
<1>1. fw \in Firmwares
  BY DEF SearchInv
<1>2. CASE ChecksumRSDT
  <2>1. AccessMapped'
    BY <1>2 DEF ChecksumRSDT, AccessMapped, SearchInv, Known
  <2>2. LoopInv' /\ SearchInv' /\ FoundInv' /\ ScanInv'
    BY <1>2 DEF ChecksumRSDT, LoopInv, SearchInv, FoundInv, ScanInv, Late, Known, Table
  <2>. QED
    BY <2>1, <2>2
<1>3. CASE FoundFADT
  <2>1. AccessMapped'
    BY <1>3 DEF FoundFADT, AccessMapped, SearchInv, Known
  <2>2. LoopInv' /\ SearchInv' /\ FoundInv' /\ ScanInv'
    BY <1>3 DEF FoundFADT, LoopInv, SearchInv, FoundInv, ScanInv, Late, Known, Table
  <2>. QED
    BY <2>1, <2>2
<1>4. CASE InitializeMADT
  <2>1. Pages(tab, MadtHeader) \subseteq Pages(tab, Table(tab).length)
    <3>1. /\ tab \in Nat /\ MadtHeader \in Nat /\ Table(tab).length \in Nat
          /\ LaidOut(Table(tab))
      BY <1>1, <1>4, FirmwareFacts, AcpiAssumption DEF InitializeMADT, SearchInv, Known
    <3>2. MadtHeader <= Table(tab).length
      <4>1. Table(tab).ics \in Seq(Structure)
        BY <3>1 DEF LaidOut
      <4>2. Len(Table(tab).ics) + 1 \in 1 .. Len(Table(tab).ics) + 1
        BY <4>1
      <4>3. Table(tab).offset[Len(Table(tab).ics) + 1] \in MadtHeader .. Table(tab).length
        BY <3>1, <4>2 DEF LaidOut
      <4>. QED
        BY <3>1, <4>3
    <3>3. tab .. tab + MadtHeader - 1 \subseteq tab .. tab + Table(tab).length - 1
      BY <3>1, <3>2
    <3>. QED
      BY <3>3 DEF Pages
  <2>2. AccessMapped'
    BY <1>4, <2>1 DEF InitializeMADT, AccessMapped, SearchInv, Known
  <2>3. LoopInv' /\ SearchInv' /\ FoundInv' /\ ScanInv'
    BY <1>4 DEF InitializeMADT, LoopInv, SearchInv, FoundInv, ScanInv, Late, Known, Table
  <2>. QED
    BY <2>2, <2>3
<1>5. CASE StartCalibration
  <2>1. AccessMapped'
    BY <1>5 DEF StartCalibration, AccessMapped, FoundInv, Late, Known
  <2>2. LoopInv' /\ SearchInv' /\ FoundInv' /\ ScanInv'
    BY <1>5 DEF StartCalibration, LoopInv, SearchInv, FoundInv, ScanInv, Late, Known, Table
  <2>. QED
    BY <2>1, <2>2
<1>. QED
  BY <1>2, <1>3, <1>4, <1>5

(* The controller structure the loop is at: where it begins and ends. *)
LEMMA StructureFacts ==
  ASSUME TablesInv, pc = "scan"
  PROVE  LET t == Table(GlobalMADT) IN
         /\ GlobalMADT \in Nat /\ t.length \in 0 .. SizeT - 1 /\ SizeT \in Nat \ {0}
         /\ t.ics \in Seq(Structure) /\ t.offset[1] = MadtHeader
         /\ \A i \in 1 .. Len(t.ics) + 1 : t.offset[i] \in MadtHeader .. t.length
         /\ \A i \in 1 .. Len(t.ics) :
              t.ics[i].length \in Nat \ {0} /\ t.offset[i + 1] = t.offset[i] + t.ics[i].length
         /\ t.offset[Len(t.ics) + 1] = t.length
         /\ MadtHeader \in Nat
<1> DEFINE t == Table(GlobalMADT)
<1>1. fw \in Firmwares /\ GlobalMADT \in DOMAIN fw.table /\ t.sig = "APIC"
  BY DEF TablesInv, SearchInv, FoundInv, Late, Known
<1>2. GlobalMADT \in Nat /\ t.length \in Header .. SizeT - 1 /\ LaidOut(t)
  BY <1>1, FirmwareFacts
<1>3. t.length \in 0 .. SizeT - 1 /\ SizeT \in Nat \ {0} /\ MadtHeader \in Nat
  BY <1>2, AcpiAssumption
<1>4. \A i \in 1 .. Len(t.ics) : t.ics[i] \in Structure
  BY <1>2 DEF LaidOut
<1>5. \A i \in 1 .. Len(t.ics) : t.ics[i].length \in Nat \ {0}
  BY <1>4 DEF Structure
<1>. QED
  BY <1>2, <1>3, <1>5 DEF LaidOut

(* One turn of FindAllInterruptControllers' loop stays inside the table. *)
LEMMA FindTurnInv ==
  ASSUME TablesInv, FindTurn
  PROVE  TablesInv'
<1> USE DEF TablesInv, Access, tables
<1> DEFINE t == Table(GlobalMADT)
<1>1. /\ pc = "scan" /\ length > 0
      /\ length' = (length - t.ics[k].length) % SizeT
      /\ at' = at + t.ics[k].length
      /\ k' = k + 1
      /\ touched' = touched \union Pages(at, 1)
      /\ UNCHANGED << fw, mapped, pc, tab, want, index, tables >>
  BY DEF FindTurn, Current
<1>2. /\ GlobalMADT \in Nat /\ t.length \in 0 .. SizeT - 1 /\ SizeT \in Nat \ {0}
      /\ t.ics \in Seq(Structure) /\ MadtHeader \in Nat
      /\ \A i \in 1 .. Len(t.ics) + 1 : t.offset[i] \in MadtHeader .. t.length
      /\ \A i \in 1 .. Len(t.ics) :
           t.ics[i].length \in Nat \ {0} /\ t.offset[i + 1] = t.offset[i] + t.ics[i].length
      /\ t.offset[Len(t.ics) + 1] = t.length
  BY <1>1, StructureFacts
<1> DEFINE n == Len(t.ics)
           here == t.offset[k]
           step == t.ics[k].length
<1>3. n \in Nat /\ k \in 1 .. n + 1 /\ at = GlobalMADT + here /\ length = t.length - here
  BY <1>1, <1>2 DEF ScanInv
<1>4. here \in MadtHeader .. t.length
  BY <1>2, <1>3
<1>5. k # n + 1
  <2>1. k = n + 1 => here = t.length
    BY <1>2
  <2>2. t.length \in Nat
    BY <1>2
  <2> HIDE DEF n, here, t
  <2>. QED
    BY <1>1, <1>3, <2>1, <2>2
<1>6. k \in 1 .. n /\ k + 1 \in 1 .. n + 1
  <2> HIDE DEF n
  <2>. QED
    BY <1>3, <1>5
<1>7. step \in Nat /\ t.offset[k + 1] = here + step /\ t.offset[k + 1] \in MadtHeader .. t.length
  BY <1>2, <1>6
<1>8. /\ (length - step) % SizeT = length - step
      /\ GlobalMADT + t.offset[k + 1] = at + step
      /\ t.length - t.offset[k + 1] = length - step
      /\ at \in GlobalMADT .. GlobalMADT + t.length - 1
  <2> DEFINE left == length - step
             total == t.length
             next == t.offset[k + 1]
  <2>1. /\ GlobalMADT \in Nat /\ total \in 0 .. SizeT - 1 /\ SizeT \in Nat \ {0}
        /\ MadtHeader \in Nat /\ length > 0 /\ at = GlobalMADT + here /\ length = total - here
        /\ here \in MadtHeader .. total /\ step \in Nat /\ next = here + step
        /\ next \in MadtHeader .. total
    BY <1>1, <1>2, <1>3, <1>4, <1>7
  <2> HIDE DEF here, step, next, total, t
  <2>2. left \in 0 .. SizeT - 1
    BY <2>1
  <2>3. GlobalMADT + next = at + step /\ total - next = length - step
        /\ at \in GlobalMADT .. GlobalMADT + total - 1
    BY <2>1
  <2> HIDE DEF left
  <2>4. (SizeT * 0 + left) % SizeT = left /\ SizeT * 0 + left = left
    BY <2>1, <2>2, DivModUnique
  <2>. QED
    BY <2>3, <2>4 DEF left, next, total
<1>9. ScanInv'
  <2>1. Table(GlobalMADT)' = t
    BY <1>1 DEF Table
  <2>2. at' = GlobalMADT + t.offset[k + 1] /\ length' = t.length - t.offset[k + 1]
    BY <1>1, <1>8
  <2>. QED
    BY <1>1, <1>6, <2>1, <2>2 DEF ScanInv
<1>10. Pages(at, 1) \subseteq mapped
  <2>1. at \in Int
    BY <1>2, <1>8
  <2>2. Page(at) \in mapped
    BY <1>1, <1>8 DEF FoundInv, Late, Known, Pages
  <2>3. \A y \in at .. at + 1 - 1 : y = at
    BY <2>1
  <2>. QED
    BY <2>2, <2>3 DEF Pages
<1>11. LoopInv' /\ SearchInv' /\ FoundInv'
  BY <1>1 DEF LoopInv, SearchInv, FoundInv, Late, Known, Table
<1>12. AccessMapped'
  BY <1>1, <1>10 DEF AccessMapped
<1>. QED
  BY <1>9, <1>11, <1>12

(* FindAllInterruptControllers begins at the first structure. *)
LEMMA FindAllInv ==
  ASSUME TablesInv, pc \in Late, NEW t, FindAll(t),
         UNCHANGED << fw, mapped, touched, tab, want, index, tables, vectors >>
  PROVE  TablesInv'
<1> USE DEF TablesInv, FindAll, Goto, tables, vectors
<1>1. LoopInv' /\ SearchInv' /\ FoundInv' /\ AccessMapped'
  BY DEF LoopInv, SearchInv, FoundInv, Late, Known, Table, AccessMapped
<1>2. fw \in Firmwares /\ GlobalMADT \in DOMAIN fw.table /\ Table(GlobalMADT).sig = "APIC"
  BY DEF SearchInv, FoundInv, Known
<1>3. LaidOut(Table(GlobalMADT))
  BY <1>2, FirmwareFacts
<1>4. 1 \in 1 .. Len(Table(GlobalMADT).ics) + 1 /\ Table(GlobalMADT).offset[1] = MadtHeader
  BY <1>3 DEF LaidOut
<1>5. Table(GlobalMADT)' = Table(GlobalMADT)
  BY DEF Table
<1>6. ScanInv'
  BY <1>4, <1>5 DEF ScanInv
<1>. QED
  BY <1>1, <1>6

(* InitializeIOAPIC. *)
LEMMA IOAPICStep ==
  ASSUME TablesInv, IOAPICsFound \/ OverridesFound \/ ApplyOverride \/ WriteRedirectionEntry
  PROVE  TablesInv'
<1> USE DEF TablesInv, Goto, Access, Map, tables, vectors, scan
<1>1. CASE IOAPICsFound
  <2>1. CASE ioapics.count = 0
    BY <1>1, <2>1 DEF IOAPICsFound, LoopInv, SearchInv, FoundInv, ScanInv, Late, Known, Table,
                      AccessMapped
  <2>2. CASE ioapics.count # 0
    BY <1>1, <2>2, FindAllInv DEF IOAPICsFound, Late
  <2>. QED
    BY <2>1, <2>2
<1>2. CASE OverridesFound
  BY <1>2 DEF OverridesFound, LoopInv, SearchInv, FoundInv, ScanInv, Late, Known, Table,
              AccessMapped
<1>3. CASE ApplyOverride
  BY <1>3 DEF ApplyOverride, LoopInv, SearchInv, FoundInv, ScanInv, Late, Known, Table,
              AccessMapped
<1>4. CASE WriteRedirectionEntry
  BY <1>4 DEF WriteRedirectionEntry, LoopInv, SearchInv, FoundInv, ScanInv, Late, Known, Table,
              AccessMapped
<1>. QED
  BY <1>1, <1>2, <1>3, <1>4

LEMMA TablesNext == TablesInv /\ [Next]_vars => TablesInv'
<1> SUFFICES ASSUME TablesInv, [Next]_vars PROVE TablesInv'
  OBVIOUS
<1>1. CASE Step
  BY <1>1, MappingStep, SearchStep, InitializeStep, FindTurnInv, IOAPICStep DEF Step, AcpiStep
<1>2. CASE Woken
  <2>1. CASE sleep = "done"
    BY <1>2, <2>1, FindAllInv DEF Woken, Calibrated, Late
  <2>2. CASE sleep # "done"
    BY <1>2, <2>2 DEF Woken, Calibrated, Goto, tables, vectors, scan, TablesInv, LoopInv,
                      SearchInv, FoundInv, ScanInv, Late, Known, Table, AccessMapped
  <2>. QED
    BY <2>1, <2>2
<1>3. CASE Sleep \/ LoadRamdisk \/ UNCHANGED vars
  <2>1. UNCHANGED acpi
    BY <1>3 DEF Sleep, LoadRamdisk, vars
  <2>. QED
    BY <2>1 DEF acpi, tables, vectors, scan, TablesInv, LoopInv, SearchInv, FoundInv, ScanInv,
                Late, Known, Table, AccessMapped, AlignDown, Page
<1>. QED
  BY <1>1, <1>2, <1>3 DEF Next

(* Start-up reads no table and no register through a page that is not mapped
   yet: MemoryMapACPITable maps enough of a table before its header and then
   the rest is read, and the loops over the RSDT and the MADT stay inside
   them.  For any page size, any number of tables anywhere in memory, across
   any pages, and any controller structures. *)
THEOREM TablesMapped == Spec => []AccessMapped
<1>1. TablesInv => AccessMapped
  BY DEF TablesInv
<1>. QED
  BY TablesInit, TablesNext, <1>1, PTL DEF Spec
-----------------------------------------------------------------------------
(* Vectors *)

Elements(v, S) == v.array \in Seq(S) /\ Len(v.array) > 0 /\ v.count \in 0 .. Len(v.array)

(* What is in one vector is at the same place in another. *)
Kept(v, w) == \A n \in 0 .. v.count - 1 : At(w, n) = At(v, n)

(* push_back adds its element behind those there are, which stay. *)
LEMMA PushBackAdds ==
  ASSUME NEW S, Garbage \in S, NEW v, Elements(v, S), NEW x \in S
  PROVE  /\ Elements(PushBack(v, x), S)
         /\ PushBack(v, x).count = v.count + 1
         /\ At(PushBack(v, x), v.count) = x
         /\ Kept(v, PushBack(v, x))
<1> DEFINE a == v.array
           c == v.count
           b == IF Len(a) = c THEN a \o [i \in 1 .. Len(a) |-> Garbage] ELSE a
           p == PushBack(v, x)
<1>1. a \in Seq(S) /\ Len(a) \in Nat \ {0} /\ c \in 0 .. Len(a)
  BY DEF Elements
<1>2. (IF Len(v.array) = v.count THEN Grown(v) ELSE v).array = b
  BY DEF Grown
<1>3. p.array = [b EXCEPT ![c + 1] = x] /\ p.count = c + 1
  BY <1>2 DEF PushBack
<1> HIDE DEF p
<1>4. b \in Seq(S) /\ Len(b) > c /\ Len(b) \in Nat /\ \A n \in 1 .. c : b[n] = a[n]
  <2> HIDE DEF a, c
  <2>1. CASE Len(a) = c
    <3> DEFINE g == [i \in 1 .. Len(a) |-> Garbage]
    <3>1. g \in Seq(S) /\ Len(g) = Len(a)
      BY <1>1
    <3> HIDE DEF g
    <3> DEFINE w == a \o g
    <3>2. w \in Seq(S) /\ Len(w) = Len(a) + Len(g) /\ \A n \in 1 .. Len(a) : w[n] = a[n]
      BY <1>1, <3>1
    <3>3. b = w
      BY <2>1 DEF g
    <3> HIDE DEF w, b
    <3>. QED
      BY <1>1, <2>1, <3>1, <3>2, <3>3
  <2>2. CASE Len(a) # c
    BY <1>1, <2>2
  <2>. QED
    BY <2>1, <2>2
<1> HIDE DEF b
<1>5. p.array \in Seq(S) /\ Len(p.array) = Len(b) /\ p.array[c + 1] = x
      /\ \A n \in 1 .. c : p.array[n] = b[n]
  <2>1. c + 1 \in 1 .. Len(b)
    BY <1>1, <1>4
  <2>. QED
    BY <1>1, <1>3, <1>4, <2>1
<1>6. Elements(p, S)
  BY <1>1, <1>3, <1>4, <1>5 DEF Elements
<1>7. ASSUME NEW n \in 0 .. c - 1
      PROVE  At(p, n) = At(v, n)
  <2>1. n + 1 \in 1 .. c
    BY <1>1, <1>7
  <2>. QED
    BY <1>4, <1>5, <2>1 DEF At
<1>8. At(p, c) = x
  BY <1>5 DEF At
<1>9. Kept(v, p)
  BY <1>7 DEF Kept
<1>. QED
  BY <1>3, <1>6, <1>8, <1>9 DEF p


-----------------------------------------------------------------------------
(* Which tables are found *)

(* None of the RSDT's first n entries is the table looked for. *)
NoneIn(sig, n) == \A l \in 1 .. n : fw.table[RsdtEntries[l]].sig # sig

Searching == { "header", "table", "entry", "compare", "found" }

(* GetACPITable has been through the RSDT as far as `index`. *)
EntriesInv ==
  /\ want # "RSDT" => GlobalRSDT # NULL /\ fw.table[fw.rsdt].sum
  /\ pc \in Searching /\ GlobalRSDT # NULL =>
       /\ want \in { "FACP", "APIC" }
       /\ index \in 0 .. Len(RsdtEntries) /\ NoneIn(want, index)
       /\ pc # "entry" => index < Len(RsdtEntries) /\ tab = RsdtEntries[index + 1]

(* The tables found so far are the first of their kinds. *)
TableFound(sig, a) == Matching(sig) # {} /\ a = Listed(sig)
FirstInv ==
  /\ want = "APIC" => TableFound("FACP", GlobalFADT) /\ fw.table[GlobalFADT].sum
  /\ pc \in Late => TableFound("APIC", GlobalMADT)

(* CalibrateTimer sleeps where the FADT has a timer, and only there. *)
Before == { "start", "rsdt" } \union Searching \union { "calibrate" }
SleptInv ==
  /\ pc \in Before => sleep = "start"
  /\ sleep \in { "poll", "done" } => fw.table[GlobalFADT].timer
  /\ sleep = "failed" => ~fw.table[GlobalFADT].timer
  /\ Slept => fw.table[GlobalFADT].timer

(* What the MADT lists of a type has been found so far. *)
Controllers == Structure \union {Garbage}
OfType(s, t, n) == { i \in 1 .. n : s[i].type = t }
Filled(v, s, t, n) ==
  /\ v.count = Cardinality(OfType(s, t, n))
  /\ \A i \in OfType(s, t, n) : At(v, Cardinality(OfType(s, t, i)) - 1) = s[i]

VectorsInv ==
  /\ Elements(ioapics, Controllers) /\ Elements(GlobalISOStructures, Controllers)
  /\ pc \notin { "scan", "redirect", "done", "panic" } =>
       ioapics.count = 0 /\ GlobalISOStructures.count = 0
  /\ pc = "scan" =>
       \/ type = 1 /\ Filled(ioapics, Structures, 1, k - 1) /\ GlobalISOStructures.count = 0
       \/ /\ type = 2 /\ ioapics.count # 0
          /\ Filled(ioapics, Structures, 1, Len(Structures))
          /\ Filled(GlobalISOStructures, Structures, 2, k - 1)
  /\ pc \in { "redirect", "done" } =>
       /\ ioapics.count # 0
       /\ Filled(ioapics, Structures, 1, Len(Structures))
       /\ Filled(GlobalISOStructures, Structures, 2, Len(Structures))

RightInv == EntriesInv /\ FirstInv /\ SleptInv /\ VectorsInv /\ (pc = "panic" => ~Usable)

(* The table the search has stopped at is the first of its kind. *)
LEMMA FoundFirst ==
  ASSUME fw \in Firmwares, NEW sig, NEW n \in Nat, n < Len(RsdtEntries), NoneIn(sig, n),
         fw.table[RsdtEntries[n + 1]].sig = sig
  PROVE  TableFound(sig, RsdtEntries[n + 1])
<1> DEFINE E == RsdtEntries
           M == Matching(sig)
<1>1. Len(E) \in Nat /\ DOMAIN E = 1 .. Len(E)
  BY FirmwareFacts DEF RsdtEntries, Table
<1>2. n + 1 \in M
  BY <1>1 DEF Matching
<1>3. \A l \in M : l \in 1 .. Len(E) /\ n + 1 <= l
  <2>1. \A l \in M : l \in 1 .. Len(E) /\ fw.table[E[l]].sig = sig
    BY <1>1 DEF Matching
  <2>. QED
    BY <2>1 DEF NoneIn
<1> HIDE DEF M, E
<1>4. First(M) \in M /\ \A l \in M : First(M) <= l
  BY <1>2, <1>3, Zenon DEF First
<1>5. First(M) = n + 1
  <2>1. First(M) <= n + 1 /\ n + 1 <= First(M) /\ First(M) \in Int
    BY <1>1, <1>2, <1>3, <1>4
  <2>. QED
    BY <2>1
<1>. QED
  BY <1>2, <1>5 DEF TableFound, Listed, M, E

(* A search through all of the RSDT has missed nothing. *)
LEMMA NoneFound ==
  ASSUME fw \in Firmwares, NEW sig, NoneIn(sig, Len(RsdtEntries))
  PROVE  Matching(sig) = {}
<1>1. DOMAIN RsdtEntries = 1 .. Len(RsdtEntries)
  BY FirmwareFacts DEF RsdtEntries, Table
<1>. QED
  BY <1>1 DEF Matching, NoneIn

(* The structures of a type are finitely many. *)
LEMMA OfTypeFacts ==
  ASSUME NEW s, NEW t, NEW n \in Nat
  PROVE  IsFiniteSet(OfType(s, t, n)) /\ Cardinality(OfType(s, t, n)) \in Nat
<1>1. OfType(s, t, n) \in SUBSET (1 .. n)
  BY DEF OfType
<1>2. IsFiniteSet(1 .. n)
  BY FS_Interval
<1>3. IsFiniteSet(OfType(s, t, n))
  BY <1>1, <1>2, FS_Subset
<1>. QED
  BY <1>3, FS_CardinalityType

LEMMA FilledStarts ==
  ASSUME NEW s, NEW t, NEW v, v.count = 0
  PROVE  Filled(v, s, t, 0)
<1>1. OfType(s, t, 0) = {}
  BY DEF OfType
<1>. QED
  BY <1>1, FS_EmptySet DEF Filled

(* A structure of another type is left out. *)
LEMMA FilledSkips ==
  ASSUME NEW s, NEW t, NEW n \in Nat, NEW v, Filled(v, s, t, n), s[n + 1].type # t
  PROVE  Filled(v, s, t, n + 1)
<1>1. OfType(s, t, n + 1) = OfType(s, t, n)
  BY DEF OfType
<1>. QED
  BY <1>1 DEF Filled

(* One of the type is pushed behind those there are. *)
LEMMA FilledGrows ==
  ASSUME NEW s, NEW t, NEW n \in Nat, NEW v, Filled(v, s, t, n), s[n + 1].type = t,
         NEW S, Garbage \in S, Elements(v, S), s[n + 1] \in S
  PROVE  Filled(PushBack(v, s[n + 1]), s, t, n + 1)
<1> DEFINE x == s[n + 1]
           p == PushBack(v, x)
           T == OfType(s, t, n)
           c(i) == Cardinality(OfType(s, t, i))
<1>1. /\ p.count = v.count + 1 /\ At(p, v.count) = x /\ Kept(v, p)
  BY PushBackAdds
<1>2. OfType(s, t, n + 1) = T \union {n + 1} /\ n + 1 \notin T
  BY DEF OfType
<1>3. c(n + 1) = c(n) + 1 /\ c(n) \in Nat
  BY <1>2, OfTypeFacts, FS_AddElement
<1>4. ASSUME NEW i \in T PROVE c(i) \in 1 .. c(n)
  <2>1. i \in Nat /\ i \in OfType(s, t, i) /\ OfType(s, t, i) \in SUBSET T
    BY DEF OfType
  <2>2. c(i) \in Nat /\ c(i) # 0
    BY <2>1, OfTypeFacts, FS_EmptySet
  <2>3. c(i) <= c(n)
    BY <2>1, OfTypeFacts, FS_Subset
  <2>. QED
    BY <1>3, <2>2, <2>3
<1>5. v.count = c(n) /\ \A i \in T : At(v, c(i) - 1) = s[i]
  BY DEF Filled
<1> HIDE DEF p, c, T
<1>6. ASSUME NEW i \in T PROVE At(p, c(i) - 1) = s[i]
  <2>1. c(i) - 1 \in 0 .. v.count - 1
    BY <1>3, <1>4, <1>5
  <2>. QED
    BY <1>1, <1>5, <2>1 DEF Kept
<1>7. At(p, c(n + 1) - 1) = s[n + 1]
  <2>1. c(n + 1) - 1 = v.count
    BY <1>3, <1>5
  <2>. QED
    BY <1>1, <2>1
<1>8. \A i \in OfType(s, t, n + 1) : At(p, c(i) - 1) = s[i]
  BY <1>2, <1>6, <1>7
<1>9. p.count = c(n + 1)
  BY <1>1, <1>3, <1>5
<1>. QED
  BY <1>8, <1>9 DEF Filled, p, c

(* What the firmware lists is the same after every step. *)
LEMMA FirmwareStays ==
  ASSUME fw' = fw
  PROVE  /\ RsdtEntries' = RsdtEntries
         /\ \A sig : Matching(sig)' = Matching(sig)
         /\ Matching("FACP")' = Matching("FACP") /\ Listed("FACP")' = Listed("FACP")
         /\ Matching("APIC")' = Matching("APIC") /\ Listed("APIC")' = Listed("APIC")
         /\ Structures' = Structures
         /\ Usable' = Usable
<1>1. RsdtEntries' = RsdtEntries
  BY DEF RsdtEntries
<1>2. ASSUME NEW sig PROVE Matching(sig)' = Matching(sig)
  BY <1>1 DEF Matching
<1>3. Matching("FACP")' = Matching("FACP") /\ Matching("APIC")' = Matching("APIC")
  BY <1>1 DEF Matching
<1>4. Listed("FACP")' = Listed("FACP") /\ Listed("APIC")' = Listed("APIC")
  BY <1>1, <1>3 DEF Listed
<1>5. Structures' = Structures
  BY <1>4 DEF Structures
<1>6. Of(1, Len(Structures))' = Of(1, Len(Structures))
  BY <1>5 DEF Of
<1>7. Usable' = Usable
  BY <1>3, <1>4, <1>6 DEF Usable
<1>. QED
  BY <1>1, <1>2, <1>3, <1>4, <1>5, <1>7

LEMMA RightInit == BootInit => RightInv
<1> SUFFICES ASSUME BootInit PROVE RightInv
  OBVIOUS
<1> USE DEF BootInit, Init, Timer!Init
<1>1. EntriesInv /\ FirstInv /\ SleptInv
  BY DEF EntriesInv, FirstInv, SleptInv, Searching, Late, Before, Slept
<1>2. Garbage \in Controllers
  BY DEF Controllers
<1>3. VectorsInv
  BY <1>2 DEF VectorsInv, NewVector, Elements
<1>. QED
  BY <1>1, <1>3 DEF RightInv

(* A step that leaves the vectors alone, before the scan or after it. *)
LEMMA VectorsStay ==
  ASSUME fw' = fw, VectorsInv, UNCHANGED << vectors, pc >>, pc # "scan"
  PROVE  VectorsInv'
<1>1. Structures' = Structures
  BY FirmwareStays
<1>. QED
  BY <1>1 DEF VectorsInv, vectors

LEMMA VectorsEmpty ==
  ASSUME VectorsInv, UNCHANGED vectors, pc \in Before \union { "panic" },
         pc' \in Before \union { "sleep", "panic" }, pc = "panic" => pc' = "panic"
  PROVE  VectorsInv'
BY DEF VectorsInv, vectors, Before, Searching

(* MemoryMapACPITable. *)
LEMMA MappingRight ==
  ASSUME TablesInv, RightInv, UNCHANGED clock,
         SetRSDP \/ MapHeader \/ HeaderMapped \/ MapTable \/ TableMapped
  PROVE  RightInv'
<1> USE DEF TablesInv, RightInv, Goto, MapFrom, tables, vectors, scan, clock
<1>1. /\ fw' = fw /\ pc \in { "start", "header", "table" } /\ pc' \in { "header", "table", "rsdt", "compare" }
      /\ UNCHANGED << vectors, want, index, GlobalFADT, GlobalMADT, sleep >>
  BY DEF SetRSDP, MapHeader, HeaderMapped, MapTable, TableMapped
<1>2. RsdtEntries' = RsdtEntries
  BY <1>1, FirmwareStays
<1>3. VectorsInv'
  BY <1>1, VectorsEmpty DEF Before, Searching
<1>4. SleptInv'
  BY <1>1 DEF SleptInv, Before, Searching, Slept
<1>5. FirstInv'
  BY <1>1, FirmwareStays DEF FirstInv, TableFound, Late
<1>6. EntriesInv'
  <2>1. CASE SetRSDP
    BY <2>1, <1>1 DEF SetRSDP, SearchInv, EntriesInv, Searching
  <2>2. CASE MapHeader \/ HeaderMapped \/ MapTable
    <3>1. UNCHANGED << tab, GlobalRSDT >> /\ pc' \in Searching /\ pc \in Searching /\ pc # "entry"
      BY <2>2 DEF MapHeader, HeaderMapped, MapTable, Searching
    <3>. QED
      BY <1>1, <1>2, <3>1 DEF EntriesInv, NoneIn
  <2>3. CASE TableMapped
    <3>1. CASE GlobalRSDT = NULL
      BY <2>3, <3>1, <1>1 DEF TableMapped, EntriesInv, Searching
    <3>2. CASE GlobalRSDT # NULL
      BY <2>3, <3>2, <1>1, <1>2 DEF TableMapped, EntriesInv, NoneIn, Searching
    <3>. QED
      BY <3>1, <3>2
  <2>. QED
    BY <2>1, <2>2, <2>3
<1>. QED
  BY <1>1, <1>3, <1>4, <1>5, <1>6

(* GetACPITable. *)
LEMMA SearchRight ==
  ASSUME TablesInv, RightInv, UNCHANGED clock, NextEntry \/ Compare \/ NotFound
  PROVE  RightInv'
<1> USE DEF TablesInv, RightInv, Goto, MapFrom, tables, vectors, scan, clock
<1>1. /\ fw' = fw /\ pc \in { "entry", "compare" } /\ pc' \in { "header", "entry", "found", "panic" }
      /\ UNCHANGED << vectors, want, GlobalRSDT, GlobalFADT, GlobalMADT, sleep >>
  BY DEF NextEntry, Compare, NotFound
<1>2. RsdtEntries' = RsdtEntries
  BY <1>1, FirmwareStays
<1>3. VectorsInv'
  BY <1>1, VectorsEmpty DEF Before, Searching
<1>4. SleptInv'
  BY <1>1 DEF SleptInv, Before, Searching, Slept
<1>5. FirstInv'
  BY <1>1, FirmwareStays DEF FirstInv, TableFound, Late
<1>6. /\ GlobalRSDT = fw.rsdt /\ GlobalRSDT # NULL /\ fw \in Firmwares
      /\ want \in { "FACP", "APIC" } /\ index \in 0 .. Len(RsdtEntries) /\ NoneIn(want, index)
      /\ pc = "compare" => index < Len(RsdtEntries) /\ tab = RsdtEntries[index + 1]
  BY <1>1 DEF EntriesInv, Searching, SearchInv
<1>7. EntryCount = Len(RsdtEntries) /\ Len(RsdtEntries) \in Nat
  <2> DEFINE n == Len(RsdtEntries)
  <2>1. Table(GlobalRSDT).length = Header + n /\ Header \in Nat /\ n \in Nat
    <3>1. RsdtEntries = Table(GlobalRSDT).entries
      BY <1>6 DEF RsdtEntries, Table
    <3>2. GlobalRSDT \in DOMAIN fw.table /\ Table(GlobalRSDT).sig = "RSDT" /\ Header \in Nat
      BY <1>6, FirmwareFacts
    <3>3. /\ Table(GlobalRSDT).length = Header + Len(Table(GlobalRSDT).entries)
          /\ Table(GlobalRSDT).entries \in Seq(DOMAIN fw.table)
      BY <1>6, <3>2, FirmwareFacts
    <3>. QED
      BY <3>1, <3>2, <3>3
  <2> HIDE DEF n
  <2>2. EntryCount = n
    BY <2>1 DEF EntryCount
  <2>. QED
    BY <2>1, <2>2 DEF n
<1>8. CASE NextEntry
  <2>1. tab' = RsdtEntries[index + 1] /\ index' = index /\ index < Len(RsdtEntries) /\ pc' = "header"
    BY <1>6, <1>7, <1>8 DEF NextEntry, RsdtEntries, Table
  <2>2. EntriesInv'
    BY <1>1, <1>2, <1>6, <2>1 DEF EntriesInv, NoneIn
  <2>. QED
    BY <1>3, <1>4, <1>5, <2>1, <2>2
<1>9. CASE Compare
  <2>1. pc = "compare" /\ tab' = tab
    BY <1>9 DEF Compare
  <2>2. CASE Table(tab).sig = want
    <3>1. pc' = "found" /\ index' = index
      BY <1>9, <2>2 DEF Compare
    <3>2. EntriesInv'
      BY <1>1, <1>2, <1>6, <2>1, <3>1 DEF EntriesInv, NoneIn
    <3>. QED
      BY <1>3, <1>4, <1>5, <3>1, <3>2
  <2>3. CASE Table(tab).sig # want
    <3>1. pc' = "entry" /\ index' = index + 1
      BY <1>9, <2>3 DEF Compare
    <3>2. fw.table[RsdtEntries[index + 1]].sig # want
      BY <1>6, <2>1, <2>3 DEF Table
    <3>3. NoneIn(want, index + 1)
      BY <1>6, <3>2 DEF NoneIn
    <3>4. index + 1 \in 0 .. Len(RsdtEntries)
      BY <1>6, <1>7, <2>1
    <3>5. NoneIn(want, index)'
      BY <1>1, <1>2, <3>1, <3>3 DEF NoneIn
    <3>6. EntriesInv'
      BY <1>1, <1>2, <1>6, <3>1, <3>4, <3>5 DEF EntriesInv
    <3>. QED
      BY <1>3, <1>4, <1>5, <3>1, <3>6
  <2>. QED
    BY <2>2, <2>3
<1>10. CASE NotFound
  <2>1. index >= Len(RsdtEntries) /\ pc' = "panic"
    BY <1>7, <1>10 DEF NotFound
  <2>2. index = Len(RsdtEntries)
    BY <1>6, <1>7, <2>1
  <2>3. Matching(want) = {}
    BY <1>6, <2>2, NoneFound
  <2>4. ~Usable
    BY <1>6, <2>3 DEF Usable
  <2>5. EntriesInv'
    BY <1>1, <1>6, <2>1 DEF EntriesInv, Searching
  <2>. QED
    BY <1>1, <1>3, <1>4, <1>5, <2>1, <2>4, <2>5, FirmwareStays
<1>. QED
  BY <1>8, <1>9, <1>10

(* InitializeACPI, InitializeMADT and CalibrateTimer. *)
LEMMA InitializeRight ==
  ASSUME TablesInv, RightInv, UNCHANGED clock,
         ChecksumRSDT \/ FoundFADT \/ InitializeMADT \/ StartCalibration
  PROVE  RightInv'
<1> USE DEF TablesInv, RightInv, Goto, Search, tables, vectors, scan, clock
<1>1. /\ fw' = fw /\ pc \in { "rsdt", "found", "calibrate" }
      /\ pc' \in { "entry", "calibrate", "sleep", "panic" }
      /\ UNCHANGED << vectors, tab, GlobalRSDT, sleep >>
  BY DEF ChecksumRSDT, FoundFADT, InitializeMADT, StartCalibration
<1>2. RsdtEntries' = RsdtEntries /\ Usable' = Usable
  BY <1>1, FirmwareStays
<1>3. VectorsInv'
  BY <1>1, VectorsEmpty DEF Before, Searching
<1>4. SleptInv'
  BY <1>1 DEF SleptInv, Before, Searching, Slept
<1>5. GlobalRSDT = fw.rsdt /\ GlobalRSDT # NULL /\ fw \in Firmwares
  BY <1>1 DEF SearchInv
<1>6. Len(RsdtEntries) \in Nat
  BY <1>5, FirmwareFacts DEF RsdtEntries, Table
<1>7. NoneIn("FACP", 0) /\ NoneIn("APIC", 0)
  BY DEF NoneIn
<1>8. pc = "found" => TableFound(want, tab)
  <2>1. SUFFICES ASSUME pc = "found" PROVE TableFound(want, tab)
    OBVIOUS
  <2>2. /\ index \in Nat /\ index < Len(RsdtEntries) /\ NoneIn(want, index)
        /\ tab = RsdtEntries[index + 1]
    BY <2>1, <1>5 DEF EntriesInv, Searching, SearchInv
  <2>3. fw.table[RsdtEntries[index + 1]].sig = want
    BY <2>1, <2>2 DEF SearchInv, Table
  <2>. QED
    BY <1>5, <2>2, <2>3, FoundFirst
<1>9. CASE ChecksumRSDT
  <2>1. pc = "rsdt" /\ UNCHANGED << GlobalFADT, GlobalMADT >>
    BY <1>9 DEF ChecksumRSDT
  <2>2. CASE fw.table[fw.rsdt].sum
    <3>1. want' = "FACP" /\ index' = 0 /\ pc' = "entry"
      BY <1>5, <1>9, <2>2 DEF ChecksumRSDT, Table
    <3>2. EntriesInv'
      BY <1>1, <1>2, <1>5, <1>6, <1>7, <2>2, <3>1 DEF EntriesInv, NoneIn
    <3>3. FirstInv'
      BY <3>1 DEF FirstInv, Late
    <3>. QED
      BY <1>3, <1>4, <3>1, <3>2, <3>3
  <2>3. CASE ~fw.table[fw.rsdt].sum
    <3>1. want' = want /\ index' = index /\ pc' = "panic"
      BY <1>5, <1>9, <2>3 DEF ChecksumRSDT, Table
    <3>2. EntriesInv'
      BY <1>1, <1>5, <3>1 DEF EntriesInv, Searching
    <3>3. FirstInv'
      BY <1>1, <2>1, <3>1, FirmwareStays DEF FirstInv, TableFound, Late
    <3>4. ~Usable
      BY <2>3 DEF Usable
    <3>. QED
      BY <1>2, <1>3, <1>4, <3>2, <3>3, <3>4
  <2>. QED
    BY <2>2, <2>3
<1>10. CASE FoundFADT
  <2>1. pc = "found" /\ want = "FACP" /\ GlobalFADT' = tab /\ TableFound("FACP", tab)
        /\ fw.table[fw.rsdt].sum
    BY <1>8, <1>10 DEF FoundFADT, EntriesInv
  <2>2. CASE fw.table[tab].sum
    <3>1. want' = "APIC" /\ index' = 0 /\ pc' = "entry"
      BY <1>10, <2>2 DEF FoundFADT, Table
    <3>2. EntriesInv'
      BY <1>1, <1>2, <1>5, <1>6, <1>7, <2>1, <3>1 DEF EntriesInv, NoneIn
    <3>3. FirstInv'
      BY <1>1, <2>1, <2>2, <3>1, FirmwareStays DEF FirstInv, TableFound, Late
    <3>. QED
      BY <1>3, <1>4, <3>1, <3>2, <3>3
  <2>3. CASE ~fw.table[tab].sum
    <3>1. want' = want /\ index' = index /\ pc' = "panic"
      BY <1>10, <2>3 DEF FoundFADT, Table
    <3>2. EntriesInv'
      BY <1>1, <1>5, <2>1, <3>1 DEF EntriesInv, Searching
    <3>3. FirstInv'
      BY <2>1, <3>1 DEF FirstInv, Late
    <3>4. ~Usable
      BY <2>1, <2>3 DEF Usable, TableFound
    <3>. QED
      BY <1>2, <1>3, <1>4, <3>2, <3>3, <3>4
  <2>. QED
    BY <2>2, <2>3
<1>11. CASE InitializeMADT
  <2>1. /\ pc = "found" /\ want = "APIC" /\ GlobalMADT' = tab /\ TableFound("APIC", tab)
        /\ pc' = "calibrate" /\ UNCHANGED << want, GlobalFADT >>
    BY <1>8, <1>11 DEF InitializeMADT
  <2>2. EntriesInv'
    BY <1>1, <1>5, <2>1 DEF EntriesInv, Searching
  <2>3. FirstInv'
    BY <1>1, <2>1, FirmwareStays DEF FirstInv, TableFound
  <2>. QED
    BY <1>3, <1>4, <2>1, <2>2, <2>3
<1>12. CASE StartCalibration
  <2>1. /\ pc = "calibrate" /\ pc' = "sleep" /\ UNCHANGED << want, GlobalFADT, GlobalMADT >>
    BY <1>12 DEF StartCalibration
  <2>2. EntriesInv'
    BY <1>1, <1>5, <2>1 DEF EntriesInv, Searching
  <2>3. FirstInv'
    BY <1>1, <2>1, FirmwareStays DEF FirstInv, TableFound, Late
  <2>. QED
    BY <1>3, <1>4, <2>1, <2>2, <2>3
<1>. QED
  BY <1>9, <1>10, <1>11, <1>12

(* The scan's place in the list of structures. *)
LEMMA ScanPlace ==
  ASSUME TablesInv, FirstInv, pc = "scan"
  PROVE  /\ Structures = Table(GlobalMADT).ics
         /\ Structures \in Seq(Structure) /\ Len(Structures) \in Nat
         /\ k \in 1 .. Len(Structures) + 1
         /\ length = 0 <=> k = Len(Structures) + 1
<1> DEFINE t == Table(GlobalMADT)
           n == Len(t.ics)
           here == t.offset[k]
           total == t.length
           step == t.ics[k].length
           next == t.offset[k + 1]
<1>1. Structures = t.ics
  BY DEF FirstInv, TableFound, Late, Structures, Table
<1>2. /\ total \in Nat /\ t.ics \in Seq(Structure) /\ n \in Nat /\ MadtHeader \in Nat
      /\ \A i \in 1 .. n + 1 : t.offset[i] \in MadtHeader .. total
      /\ \A i \in 1 .. n :
           t.ics[i].length \in Nat \ {0} /\ t.offset[i + 1] = t.offset[i] + t.ics[i].length
      /\ t.offset[n + 1] = total
  BY StructureFacts
<1>3. k \in 1 .. n + 1 /\ length = total - here
  BY DEF TablesInv, ScanInv
<1>4. here \in MadtHeader .. total
  BY <1>2, <1>3
<1>5. k = n + 1 => here = total
  BY <1>2
<1>6. k \in 1 .. n => step \in Nat \ {0} /\ next = here + step /\ next \in MadtHeader .. total
  <2>1. k \in 1 .. n => k + 1 \in 1 .. n + 1
    BY <1>2
  <2>. QED
    BY <1>2, <2>1
<1> HIDE DEF here, total, step, next, n
<1>7. length = 0 <=> k = n + 1
  BY <1>2, <1>3, <1>4, <1>5, <1>6
<1>. QED
  BY <1>1, <1>2, <1>3, <1>7 DEF n

(* One turn of FindAllInterruptControllers' loop. *)
LEMMA FindTurnRight ==
  ASSUME TablesInv, RightInv, UNCHANGED clock, FindTurn
  PROVE  RightInv'
<1> USE DEF RightInv, tables, clock
<1>1. /\ pc = "scan" /\ length > 0 /\ k' = k + 1
      /\ UNCHANGED << fw, pc, tab, want, index, tables, type, sleep >>
  BY DEF FindTurn
<1>2. EntriesInv' /\ SleptInv'
  BY <1>1 DEF EntriesInv, SleptInv, Searching, Before, Slept
<1>3. FirstInv' /\ Structures' = Structures
  BY <1>1, FirmwareStays DEF FirstInv, TableFound
<1> DEFINE s == Structures
           x == s[k]
           n == k - 1
<1>4. s \in Seq(Structure) /\ Len(s) \in Nat /\ k \in 1 .. Len(s)
  BY <1>1, ScanPlace
<1>5. x = Current
  BY <1>1, ScanPlace DEF Current
<1>6. x \in Controllers /\ Garbage \in Controllers /\ n \in Nat /\ n + 1 = k /\ k' - 1 = k
  BY <1>1, <1>4 DEF Controllers
<1>7. Elements(ioapics, Controllers) /\ Elements(GlobalISOStructures, Controllers)
  BY DEF VectorsInv
<1> HIDE DEF s, x, n
<1>8. x = s[n + 1]
  BY <1>6 DEF x
<1>9. CASE x.type # type
  <2>1. UNCHANGED vectors
    BY <1>5, <1>9 DEF FindTurn
  <2>2. CASE type = 1 /\ Filled(ioapics, s, 1, n) /\ GlobalISOStructures.count = 0
    <3>1. Filled(ioapics, s, 1, k)
      BY <1>6, <1>8, <1>9, <2>2, FilledSkips
    <3>. QED
      BY <1>1, <1>2, <1>3, <1>6, <1>7, <2>1, <2>2, <3>1 DEF VectorsInv, vectors, s
  <2>3. CASE /\ type = 2 /\ ioapics.count # 0
             /\ Filled(ioapics, s, 1, Len(s)) /\ Filled(GlobalISOStructures, s, 2, n)
    <3>1. Filled(GlobalISOStructures, s, 2, k)
      BY <1>6, <1>8, <1>9, <2>3, FilledSkips
    <3>. QED
      BY <1>1, <1>2, <1>3, <1>6, <1>7, <2>1, <2>3, <3>1 DEF VectorsInv, vectors, s
  <2>. QED
    BY <1>1, <2>2, <2>3 DEF VectorsInv, s, n
<1>10. CASE x.type = type /\ type = 1
  <2>1. ioapics' = PushBack(ioapics, x) /\ UNCHANGED GlobalISOStructures
    BY <1>5, <1>10 DEF FindTurn
  <2>2. Filled(ioapics, s, 1, n) /\ GlobalISOStructures.count = 0
    BY <1>1, <1>10 DEF VectorsInv, s, n
  <2>3. Filled(PushBack(ioapics, x), s, 1, k)
    BY <1>6, <1>7, <1>8, <1>10, <2>2, FilledGrows
  <2>4. Elements(PushBack(ioapics, x), Controllers)
    BY <1>6, <1>7, PushBackAdds
  <2>. QED
    BY <1>1, <1>2, <1>3, <1>6, <1>7, <1>10, <2>1, <2>2, <2>3, <2>4 DEF VectorsInv, s
<1>11. CASE x.type = type /\ type # 1
  <2>1. GlobalISOStructures' = PushBack(GlobalISOStructures, x) /\ UNCHANGED ioapics
    BY <1>5, <1>11 DEF FindTurn
  <2>2. /\ type = 2 /\ ioapics.count # 0
        /\ Filled(ioapics, s, 1, Len(s)) /\ Filled(GlobalISOStructures, s, 2, n)
    BY <1>1, <1>11 DEF VectorsInv, s, n
  <2>3. Filled(PushBack(GlobalISOStructures, x), s, 2, k)
    BY <1>6, <1>7, <1>8, <1>11, <2>2, FilledGrows
  <2>4. Elements(PushBack(GlobalISOStructures, x), Controllers)
    BY <1>6, <1>7, PushBackAdds
  <2>. QED
    BY <1>1, <1>2, <1>3, <1>6, <1>7, <2>1, <2>2, <2>3, <2>4 DEF VectorsInv, s
<1>. QED
  BY <1>9, <1>10, <1>11

(* InitializeIOAPIC. *)
LEMMA IOAPICRight ==
  ASSUME TablesInv, RightInv, UNCHANGED clock,
         IOAPICsFound \/ OverridesFound \/ ApplyOverride \/ WriteRedirectionEntry
  PROVE  RightInv'
<1> USE DEF RightInv, Goto, FindAll, tables, vectors, scan, clock
<1>1. /\ pc \in { "scan", "redirect" } /\ pc' \in { "scan", "redirect", "done", "panic" }
      /\ UNCHANGED << fw, tab, want, tables, vectors, sleep >>
  BY DEF IOAPICsFound, OverridesFound, ApplyOverride, WriteRedirectionEntry
<1>2. EntriesInv'
  BY <1>1 DEF EntriesInv, Searching
<1>3. FirstInv' /\ SleptInv'
  BY <1>1, FirmwareStays DEF FirstInv, TableFound, Late, SleptInv, Before, Searching, Slept
<1>4. Structures' = Structures /\ Usable' = Usable
  BY <1>1, FirmwareStays
<1> DEFINE s == Structures
<1>5. pc = "scan" /\ length = 0 => Len(s) \in Nat /\ k - 1 = Len(s)
  BY ScanPlace
<1>6. CASE IOAPICsFound
  <2>1. Filled(ioapics, s, 1, Len(s)) /\ GlobalISOStructures.count = 0 /\ Len(s) \in Nat
    BY <1>5, <1>6 DEF IOAPICsFound, VectorsInv
  <2>2. CASE ioapics.count = 0
    <3>1. pc' = "panic"
      BY <1>6, <2>2 DEF IOAPICsFound
    <3>2. VectorsInv'
      BY <1>1, <3>1 DEF VectorsInv
    <3>3. Cardinality(OfType(s, 1, Len(s))) = 0 /\ IsFiniteSet(OfType(s, 1, Len(s)))
      BY <2>1, <2>2, OfTypeFacts DEF Filled
    <3>4. OfType(s, 1, Len(s)) = {}
      BY <3>3, FS_EmptySet
    <3>5. ~Usable
      BY <3>4 DEF Usable, Of, OfType
    <3>. QED
      BY <1>2, <1>3, <1>4, <3>2, <3>5
  <2>3. CASE ioapics.count # 0
    <3>1. pc' = "scan" /\ type' = 2 /\ k' = 1
      BY <1>6, <2>3 DEF IOAPICsFound
    <3>2. Filled(GlobalISOStructures, s, 2, 0)
      BY <2>1, FilledStarts
    <3>3. VectorsInv'
      BY <1>1, <1>4, <2>1, <2>3, <3>1, <3>2 DEF VectorsInv
    <3>. QED
      BY <1>2, <1>3, <3>1, <3>3
  <2>. QED
    BY <2>2, <2>3
<1>7. CASE OverridesFound
  <2>1. pc = "scan" /\ type = 2 /\ length = 0 /\ pc' = "redirect"
    BY <1>7 DEF OverridesFound
  <2>2. VectorsInv'
    BY <1>1, <1>4, <1>5, <2>1 DEF VectorsInv
  <2>. QED
    BY <1>2, <1>3, <2>1, <2>2
<1>8. CASE ApplyOverride \/ WriteRedirectionEntry
  <2>1. pc = "redirect" /\ pc' \in { "redirect", "done" }
    BY <1>8 DEF ApplyOverride, WriteRedirectionEntry
  <2>2. VectorsInv'
    BY <1>1, <1>4, <2>1 DEF VectorsInv
  <2>. QED
    BY <1>2, <1>3, <2>1, <2>2
<1>. QED
  BY <1>6, <1>7, <1>8

(* PMTMRSleep. *)
LEMMA SleepRight == ASSUME TablesInv, RightInv, Sleep PROVE RightInv'
<1> USE DEF RightInv
<1>1. pc = "sleep" /\ UNCHANGED acpi
  BY DEF Sleep
<1>2. UNCHANGED << fw, pc, tab, want, index, tables, vectors, scan >>
  BY <1>1 DEF acpi, tables, vectors, scan
<1>3. Structures' = Structures /\ Usable' = Usable
  BY <1>2, FirmwareStays
<1>4. EntriesInv' /\ VectorsInv'
  BY <1>1, <1>2, <1>3 DEF EntriesInv, NoneIn, RsdtEntries, VectorsInv, tables, vectors, scan
<1>5. FirstInv'
  BY <1>1, <1>2, FirmwareStays DEF FirstInv, TableFound, tables
<1>6. CASE ~Table(GlobalFADT).timer /\ Timer!Unavailable
  <2>1. sleep' = "failed" /\ ~fw.table[GlobalFADT].timer
    BY <1>6 DEF Timer!Unavailable, Table
  <2>2. SleptInv'
    BY <1>1, <1>2, <2>1 DEF SleptInv, Before, Searching, Slept, tables
  <2>. QED
    BY <1>1, <1>2, <1>4, <1>5, <2>2
<1>7. CASE Table(GlobalFADT).timer /\ (Timer!ReadCount \/ Timer!Poll \/ Timer!Return)
  <2>1. sleep' \in { "poll", "done" } /\ fw.table[GlobalFADT].timer
    BY <1>7 DEF Timer!ReadCount, Timer!Poll, Timer!Return, Table
  <2>2. SleptInv'
    BY <1>1, <1>2, <2>1 DEF SleptInv, Before, Searching, Slept, tables
  <2>. QED
    BY <1>1, <1>2, <1>4, <1>5, <2>2
<1>. QED
  BY <1>6, <1>7 DEF Sleep

(* It has returned. *)
LEMMA WokenRight == ASSUME TablesInv, RightInv, Woken PROVE RightInv'
<1> USE DEF RightInv, Goto, FindAll, tables, vectors, scan, clock
<1>1. /\ pc = "sleep" /\ pc' \in { "scan", "panic" } /\ sleep \in { "done", "failed" }
      /\ UNCHANGED << fw, tab, want, index, tables, vectors, sleep >>
  BY DEF Woken, Calibrated
<1>2. Structures' = Structures /\ Usable' = Usable
  BY <1>1, FirmwareStays
<1>3. EntriesInv'
  BY <1>1 DEF EntriesInv, Searching
<1>4. FirstInv'
  BY <1>1, FirmwareStays DEF FirstInv, TableFound, Late
<1>5. ioapics.count = 0 /\ GlobalISOStructures.count = 0
  BY <1>1 DEF VectorsInv
<1>6. CASE sleep = "done"
  <2>1. pc' = "scan" /\ type' = 1 /\ k' = 1
    BY <1>6 DEF Woken, Calibrated
  <2>2. Filled(ioapics, Structures, 1, 0)
    BY <1>5, FilledStarts
  <2>3. VectorsInv'
    BY <1>1, <1>2, <1>5, <2>1, <2>2 DEF VectorsInv
  <2>4. SleptInv'
    BY <1>1, <1>6, <2>1 DEF SleptInv, Before, Searching, Slept
  <2>. QED
    BY <1>3, <1>4, <2>1, <2>3, <2>4
<1>7. CASE sleep = "failed"
  <2>1. pc' = "panic"
    BY <1>7 DEF Woken, Calibrated
  <2>2. GlobalFADT = Listed("FACP") /\ ~fw.table[GlobalFADT].timer
    BY <1>1, <1>7 DEF TablesInv, FoundInv, Late, FirstInv, TableFound, SleptInv
  <2>3. ~Usable
    BY <2>2 DEF Usable
  <2>4. VectorsInv' /\ SleptInv'
    BY <1>1, <1>7, <2>1 DEF VectorsInv, SleptInv, Before, Searching, Slept
  <2>. QED
    BY <1>2, <1>3, <1>4, <2>3, <2>4
<1>. QED
  BY <1>1, <1>6, <1>7

LEMMA RightNext == TablesInv /\ RightInv /\ [Next]_vars => RightInv'
<1> SUFFICES ASSUME TablesInv, RightInv, [Next]_vars PROVE RightInv'
  OBVIOUS
<1>1. CASE Step
  BY <1>1, MappingRight, SearchRight, InitializeRight, FindTurnRight, IOAPICRight
     DEF Step, AcpiStep
<1>2. CASE Sleep
  BY <1>2, SleepRight
<1>3. CASE Woken
  BY <1>3, WokenRight
<1>4. CASE LoadRamdisk \/ UNCHANGED vars
  <2>1. UNCHANGED << fw, pc, tab, want, index, tables, vectors, scan, sleep >>
    BY <1>4 DEF LoadRamdisk, vars, acpi, clock, tables, vectors, scan
  <2>2. Structures' = Structures /\ Usable' = Usable
    BY <2>1, FirmwareStays
  <2>3. EntriesInv' /\ SleptInv' /\ VectorsInv'
    BY <2>1, <2>2 DEF RightInv, EntriesInv, NoneIn, RsdtEntries, SleptInv, Slept, VectorsInv,
                      tables, vectors, scan
  <2>4. FirstInv'
    BY <2>1, FirmwareStays DEF RightInv, FirstInv, TableFound, tables
  <2>. QED
    BY <2>1, <2>2, <2>3, <2>4 DEF RightInv
<1>. QED
  BY <1>1, <1>2, <1>3, <1>4 DEF Next

LEMMA RightAlways == Spec => [](TablesInv /\ RightInv)
BY TablesInit, TablesNext, RightInit, RightNext, PTL DEF Spec

(* The kernel works with the first table of each kind the RSDT lists, and
   start-up panics only where the firmware lacks one, has a damaged one, or
   has no timer or no I/O APIC the kernel can use: for any number of tables
   and of controller structures.  Whatever GetACPITable has passed is not
   what it looks for, so it stops at the first, and misses none. *)
THEOREM TablesRight == Spec => []RightTables
<1>1. TablesInv /\ RightInv => RightTables
  <2> SUFFICES ASSUME TablesInv, RightInv PROVE RightTables
    OBVIOUS
  <2> USE DEF TablesInv, RightInv
  <2>1. ASSUME pc = "done"
        PROVE  Usable /\ GlobalFADT = Listed("FACP") /\ GlobalMADT = Listed("APIC")
    <3>1. /\ fw.table[fw.rsdt].sum /\ Matching("FACP") # {} /\ Matching("APIC") # {}
          /\ GlobalFADT = Listed("FACP") /\ GlobalMADT = Listed("APIC")
          /\ fw.table[GlobalFADT].sum /\ fw.table[GlobalFADT].timer
      BY <2>1 DEF FoundInv, Late, EntriesInv, FirstInv, TableFound, SleptInv, Slept
    <3>2. Cardinality(OfType(Structures, 1, Len(Structures))) # 0
      BY <2>1 DEF VectorsInv, Filled
    <3>3. OfType(Structures, 1, Len(Structures)) # {}
      BY <3>2, FS_EmptySet
    <3>. QED
      BY <3>1, <3>3 DEF Usable, Of, OfType
  <2>. QED
    BY <2>1 DEF RightTables
<1>. QED
  BY RightAlways, <1>1, PTL

(* The vectors of I/O APICs and of source overrides hold those of the MADT,
   all and in order: for any number of controller structures, of any types
   and lengths, and however often the vectors grow meanwhile. *)
THEOREM AllControllers == Spec => []ControllersFound
<1>1. RightInv => ControllersFound
  BY DEF RightInv, VectorsInv, Filled, OfType, ControllersFound, Holds, Of
<1>. QED
  BY RightAlways, <1>1, PTL

-----------------------------------------------------------------------------
(* Types *)

(* The overrides found so far, and what the loops of the MADT start from. *)
Typed(v) == \A n \in 0 .. v.count - 1 : At(v, n).gsi \in Nat
OverridesTyped == Typed(GlobalISOStructures)
NotScanned == pc \notin { "scan", "redirect", "done", "panic" } => length = 0
TypeInv == TypeOK /\ OverridesTyped /\ NotScanned

LEMMA TypeInit == BootInit => TypeInv
<1> SUFFICES ASSUME BootInit PROVE TypeInv
  OBVIOUS
<1>1. AcpiTypeOK
  BY AcpiAssumption DEF BootInit, Init, AcpiTypeOK, Labels, Place
<1>2. GlobalISOStructures.count = 0
  BY DEF BootInit, Init, NewVector
<1>3. InitCountRegister = 0 /\ length = 0
  BY DEF BootInit, Init
<1>. QED
  BY <1>1, <1>2, <1>3 DEF TypeInv, TypeOK, OverridesTyped, Typed, NotScanned

(* A length of 0 fits any table. *)
LEMMA NoLength ==
  ASSUME fw \in Firmwares, NEW a \in Place
  PROVE  0 \in 0 .. (IF a = NULL THEN 0 ELSE Table(a).length)
<1>1. a # NULL => Table(a).length \in Nat
  BY FirmwareFacts, AcpiAssumption DEF Place
<1>. QED
  BY <1>1

(* MemoryMapACPITable, GetACPITable and what is done with what it finds. *)
LEMMA SearchTyped ==
  ASSUME TypeInv, TablesInv, TablesInv',
         \/ SetRSDP \/ MapHeader \/ HeaderMapped \/ MapTable \/ TableMapped
         \/ NextEntry \/ Compare \/ NotFound
         \/ ChecksumRSDT \/ FoundFADT \/ InitializeMADT \/ StartCalibration
  PROVE  AcpiTypeOK' /\ NotScanned' /\ UNCHANGED vectors
<1>1. /\ UNCHANGED << fw, type, length, k, irq, redirected, vectors >>
      /\ pc \notin { "scan", "redirect", "done", "panic" }
      /\ pc' \in Labels /\ pc' \notin { "scan", "redirect", "done" }
  BY DEF SetRSDP, MapHeader, HeaderMapped, MapTable, TableMapped, NextEntry, Compare, NotFound,
         ChecksumRSDT, FoundFADT, InitializeMADT, StartCalibration, MapFrom, Search, Goto, scan,
         vectors, Labels
<1>2. (at' = at /\ tab' = tab) \/ pc' \in { "header", "table" }
  BY DEF SetRSDP, MapHeader, HeaderMapped, MapTable, TableMapped, NextEntry, Compare, NotFound,
         ChecksumRSDT, FoundFADT, InitializeMADT, StartCalibration, MapFrom, Search, Goto
<1>3. \A g \in { << GlobalRSDT, GlobalRSDT' >>, << GlobalFADT, GlobalFADT' >>,
                 << GlobalMADT, GlobalMADT' >> } : g[2] = g[1] \/ g[2] = tab
  BY DEF SetRSDP, MapHeader, HeaderMapped, MapTable, TableMapped, NextEntry, Compare, NotFound,
         ChecksumRSDT, FoundFADT, InitializeMADT, StartCalibration, tables
<1>4. want' = want \/ want' \in { "FACP", "APIC" }
  BY DEF SetRSDP, MapHeader, HeaderMapped, MapTable, TableMapped, NextEntry, Compare, NotFound,
         ChecksumRSDT, FoundFADT, InitializeMADT, StartCalibration, Search
<1>5. index' \in { index, 0, index + 1 }
  BY DEF SetRSDP, MapHeader, HeaderMapped, MapTable, TableMapped, NextEntry, Compare, NotFound,
         ChecksumRSDT, FoundFADT, InitializeMADT, StartCalibration, Search
<1>6. /\ fw \in Firmwares /\ tab \in Place /\ at \in Nat /\ index \in Nat
      /\ GlobalRSDT \in Place /\ GlobalFADT \in Place /\ GlobalMADT \in Place
      /\ want \in { "RSDT", "FACP", "APIC" } /\ type \in 0 .. 2 /\ k \in Nat
      /\ irq \in Nat /\ redirected \subseteq Nat
  BY DEF TypeInv, TypeOK, AcpiTypeOK
<1>7. Place' = Place
  BY <1>1 DEF Place
<1>8. at' \in Nat /\ tab' \in Place'
  <2>1. pc' \in { "header", "table" } => at' \in Nat /\ tab' \in Place'
    BY DEF TablesInv, LoopInv, Place
  <2>. QED
    BY <1>2, <1>6, <1>7, <2>1
<1>9. GlobalRSDT' \in Place' /\ GlobalFADT' \in Place' /\ GlobalMADT' \in Place'
  BY <1>3, <1>6, <1>7
<1>10. length = 0 /\ NotScanned'
  BY <1>1 DEF TypeInv, NotScanned
<1>11. length' \in 0 .. (IF GlobalMADT' = NULL THEN 0 ELSE Table(GlobalMADT').length)
  BY <1>1, <1>6, <1>7, <1>9, <1>10, NoLength
<1>12. Table(GlobalMADT)' = Table(GlobalMADT')
  BY <1>1 DEF Table
<1>13. index' \in Nat
  BY <1>5, <1>6
<1>. QED
  BY <1>1, <1>4, <1>6, <1>8, <1>9, <1>10, <1>11, <1>12, <1>13 DEF AcpiTypeOK

(* FindAllInterruptControllers begins, or makes a turn. *)
LEMMA ScanTyped ==
  ASSUME TypeInv, TablesInv, TablesInv', pc' = "scan",
         UNCHANGED << fw, tab, want, index, tables, irq, redirected >>, type' \in { 1, 2, type }
  PROVE  AcpiTypeOK' /\ NotScanned'
<1>1. /\ fw \in Firmwares /\ tab \in Place /\ index \in Nat
      /\ GlobalRSDT \in Place /\ GlobalFADT \in Place /\ GlobalMADT \in Place
      /\ want \in { "RSDT", "FACP", "APIC" } /\ type \in 0 .. 2
      /\ irq \in Nat /\ redirected \subseteq Nat
  BY DEF TypeInv, TypeOK, AcpiTypeOK
<1>2. Place' = Place
  BY DEF Place
<1> DEFINE t == Table(GlobalMADT)'
<1>3. /\ GlobalMADT' \in Nat /\ t.length \in Nat /\ MadtHeader \in Nat
      /\ \A i \in 1 .. Len(t.ics) + 1 : t.offset[i] \in MadtHeader .. t.length
      /\ GlobalMADT' \in DOMAIN fw'.table
  <2>1. fw' \in Firmwares /\ GlobalMADT' \in DOMAIN fw'.table /\ t.sig = "APIC"
    BY DEF TablesInv, SearchInv, FoundInv, Late, Known
  <2>2. t = Table(GlobalMADT)
    BY DEF tables, Table
  <2>3. fw' = fw /\ GlobalMADT' = GlobalMADT
    BY DEF tables
  <2>. HIDE DEF t
  <2>4. GlobalMADT \in Nat /\ t.length \in Header .. SizeT - 1 /\ LaidOut(t)
    BY <2>1, <2>2, <2>3, FirmwareFacts
  <2>5. Header \in Nat /\ MadtHeader \in Nat /\ SizeT \in Nat
    BY AcpiAssumption
  <2>6. \A i \in 1 .. Len(t.ics) + 1 : t.offset[i] \in MadtHeader .. t.length
    BY <2>4 DEF LaidOut
  <2>. QED
    BY <2>1, <2>3, <2>4, <2>5, <2>6
<1>4. /\ k' \in 1 .. Len(t.ics) + 1
      /\ at' = GlobalMADT' + t.offset[k'] /\ length' = t.length - t.offset[k']
  BY DEF TablesInv, ScanInv
<1> DEFINE here == t.offset[k']
           total == t.length
<1>5. here \in MadtHeader .. total
  BY <1>3, <1>4
<1>6. k' \in Nat
  BY <1>4
<1>. HIDE DEF t, here
<1>7. at' \in Nat /\ length' \in 0 .. total
  <2> DEFINE g == GlobalMADT'
  <2>1. at' = g + here /\ length' = total - here
    BY <1>4 DEF here
  <2>2. g \in Nat /\ total \in Nat /\ MadtHeader \in Nat
    BY <1>3
  <2>. HIDE DEF total, g
  <2>3. here \in Nat /\ here <= total
    BY <1>5, <2>2
  <2>. QED
    BY <2>1, <2>2, <2>3
<1>8. /\ GlobalMADT' # NULL /\ GlobalMADT' = GlobalMADT
      /\ GlobalRSDT' = GlobalRSDT /\ GlobalFADT' = GlobalFADT
  BY <1>3, FirmwareFacts, AcpiAssumption DEF tables, TablesInv, SearchInv, FirmwareOK
<1>9. length' \in 0 .. (IF GlobalMADT' = NULL THEN 0 ELSE Table(GlobalMADT)'.length)
  BY <1>7, <1>8 DEF t
<1>. QED
  BY <1>1, <1>2, <1>6, <1>7, <1>8, <1>9 DEF AcpiTypeOK, NotScanned, Labels

(* One turn of its loop. *)
LEMMA FindTurnTyped ==
  ASSUME TypeInv, TablesInv, TablesInv', RightInv, RightInv', FindTurn
  PROVE  AcpiTypeOK' /\ NotScanned' /\ OverridesTyped'
<1>1. /\ pc = "scan" /\ pc' = "scan" /\ length > 0 /\ k' = k + 1
      /\ UNCHANGED << fw, tab, want, index, tables, type, irq, redirected >>
  BY DEF FindTurn
<1>2. AcpiTypeOK' /\ NotScanned'
  BY <1>1, ScanTyped
<1>3. k \in 1 .. Len(Structures) /\ Current = Structures[k] /\ Structures \in Seq(Structure)
  <2>1. TablesInv /\ FirstInv
    BY DEF RightInv
  <2>2. /\ Structures = Table(GlobalMADT).ics /\ Structures \in Seq(Structure)
        /\ Len(Structures) \in Nat /\ k \in 1 .. Len(Structures) + 1
        /\ length = 0 <=> k = Len(Structures) + 1
    BY <1>1, <2>1, ScanPlace
  <2>3. k \in 1 .. Len(Structures)
    BY <1>1, <2>2
  <2>. QED
    BY <2>2, <2>3 DEF Current
<1>4. Current \in Structure
  BY <1>3
<1>5. CASE UNCHANGED GlobalISOStructures
  BY <1>2, <1>5 DEF TypeInv, OverridesTyped, Typed, At
<1>6. CASE GlobalISOStructures' = PushBack(GlobalISOStructures, Current)
  <2> DEFINE v == GlobalISOStructures
             c == v.count
             w == PushBack(v, Current)
  <2>1. Elements(v, Controllers) /\ Garbage \in Controllers /\ Current \in Controllers
    BY <1>4 DEF RightInv, VectorsInv, Controllers
  <2>2. w.count = c + 1 /\ At(w, c) = Current /\ Kept(v, w) /\ c \in Nat
    <3>1. w.count = c + 1 /\ At(w, c) = Current /\ Kept(v, w)
      BY <2>1, PushBackAdds
    <3>2. c \in 0 .. Len(v.array) /\ Len(v.array) \in Nat
      BY <2>1 DEF Elements
    <3>. QED
      BY <3>1, <3>2
  <2>3. \A n \in 0 .. c - 1 : At(v, n).gsi \in Nat
    BY DEF TypeInv, OverridesTyped, Typed
  <2>4. Current.gsi \in Nat
    BY <1>4 DEF Structure
  <2>5. \A n \in 0 .. c - 1 : At(w, n) = At(v, n)
    BY <2>2 DEF Kept
  <2>6. GlobalISOStructures' = w
    BY <1>6
  <2>. HIDE DEF c, w
  <2>7. \A n \in 0 .. w.count - 1 : At(w, n).gsi \in Nat
    BY <2>2, <2>3, <2>4, <2>5
  <2>. QED
    BY <1>2, <2>6, <2>7 DEF OverridesTyped, Typed, At
<1>7. UNCHANGED GlobalISOStructures \/ GlobalISOStructures' = PushBack(GlobalISOStructures, Current)
  BY DEF FindTurn, vectors
<1>. QED
  BY <1>2, <1>5, <1>6, <1>7

(* Nothing typed is written but where the boot processor is. *)
LEMMA StaysTyped ==
  ASSUME TypeInv, pc' \in Labels,
         UNCHANGED << fw, tab, at, want, tables, scan, vectors >>,
         index' \in Nat, irq' \in Nat, redirected' \subseteq Nat,
         pc' \notin { "scan", "redirect", "done", "panic" } => pc' = pc
  PROVE  AcpiTypeOK' /\ NotScanned' /\ OverridesTyped'
<1>1. OverridesTyped'
  BY DEF vectors, TypeInv, OverridesTyped
<1>2. NotScanned'
  BY DEF scan, TypeInv, NotScanned
<1>3. Place' = Place /\ Table(GlobalMADT)' = Table(GlobalMADT)
  BY DEF Place, Table, tables
<1>4. AcpiTypeOK'
  BY <1>3 DEF TypeInv, TypeOK, AcpiTypeOK, tables, scan
<1>. QED
  BY <1>1, <1>2, <1>4

(* InitializeIOAPIC. *)
LEMMA IOAPICTyped ==
  ASSUME TypeInv, TablesInv, TablesInv', RightInv,
         IOAPICsFound \/ OverridesFound \/ ApplyOverride \/ WriteRedirectionEntry
  PROVE  AcpiTypeOK' /\ NotScanned' /\ OverridesTyped'
<1>1. index \in Nat /\ irq \in Nat /\ redirected \subseteq Nat
  BY DEF TypeInv, TypeOK, AcpiTypeOK
<1>2. CASE IOAPICsFound
  <2>1. UNCHANGED << fw, tab, want, index, tables, vectors, irq, redirected >>
    BY <1>2 DEF IOAPICsFound
  <2>2. CASE ioapics.count = 0
    BY <1>1, <1>2, <2>1, <2>2, StaysTyped DEF IOAPICsFound, Goto, Labels
  <2>3. CASE ioapics.count # 0
    <3>1. pc' = "scan" /\ type' = 2
      BY <1>2, <2>3 DEF IOAPICsFound, FindAll, Goto
    <3>2. AcpiTypeOK' /\ NotScanned'
      BY <2>1, <3>1, ScanTyped
    <3>. QED
      BY <2>1, <3>2 DEF vectors, TypeInv, OverridesTyped
  <2>. QED
    BY <2>2, <2>3
<1>3. CASE OverridesFound
  BY <1>1, <1>3, StaysTyped DEF OverridesFound, Goto, Labels
<1>4. CASE ApplyOverride
  <2>1. index < GlobalISOStructures.count /\ index' = index + 1 /\ pc' = pc /\ pc = "redirect"
        /\ UNCHANGED << fw, tab, at, want, tables, scan, vectors, redirected >>
        /\ irq' \in { irq, At(GlobalISOStructures, index).gsi }
    BY <1>4 DEF ApplyOverride
  <2>2. At(GlobalISOStructures, index).gsi \in Nat
    <3> DEFINE c == GlobalISOStructures.count
    <3>1. c \in Nat
      <4>1. c \in 0 .. Len(GlobalISOStructures.array) /\ Len(GlobalISOStructures.array) \in Nat
        BY DEF RightInv, VectorsInv, Elements
      <4>. QED
        BY <4>1
    <3>2. \A n \in 0 .. c - 1 : At(GlobalISOStructures, n).gsi \in Nat
      BY DEF TypeInv, OverridesTyped, Typed
    <3>3. index < c
      BY <2>1
    <3>. HIDE DEF c
    <3>4. index \in 0 .. c - 1
      BY <1>1, <3>1, <3>3
    <3>. QED
      BY <3>2, <3>4
  <2>. QED
    BY <1>1, <2>1, <2>2, StaysTyped DEF Labels
<1>5. CASE WriteRedirectionEntry
  BY <1>1, <1>5, StaysTyped DEF WriteRedirectionEntry, Goto, Labels
<1>. QED
  BY <1>2, <1>3, <1>4, <1>5

LEMMA TypeNext ==
  TypeInv /\ TablesInv /\ TablesInv' /\ RightInv /\ RightInv' /\ ClockInv /\ [Next]_vars => TypeInv'
<1> SUFFICES ASSUME TypeInv, TablesInv, TablesInv', RightInv, RightInv', ClockInv, [Next]_vars
             PROVE  TypeInv'
  OBVIOUS
<1>1. InitCountRegister \in Nat
  BY DEF TypeInv, TypeOK
<1>2. CASE Step
  <2>1. InitCountRegister' \in Nat
    BY <1>1, <1>2 DEF Step
  <2>2. CASE \/ SetRSDP \/ MapHeader \/ HeaderMapped \/ MapTable \/ TableMapped
             \/ NextEntry \/ Compare \/ NotFound
             \/ ChecksumRSDT \/ FoundFADT \/ InitializeMADT \/ StartCalibration
    <3>1. AcpiTypeOK' /\ NotScanned' /\ UNCHANGED vectors
      BY <2>2, SearchTyped
    <3>. QED
      BY <2>1, <3>1 DEF vectors, TypeInv, TypeOK, OverridesTyped
  <2>3. CASE FindTurn
    BY <2>1, <2>3, FindTurnTyped DEF TypeInv, TypeOK
  <2>4. CASE IOAPICsFound \/ OverridesFound \/ ApplyOverride \/ WriteRedirectionEntry
    BY <2>1, <2>4, IOAPICTyped DEF TypeInv, TypeOK
  <2>. QED
    BY <1>2, <2>2, <2>3, <2>4 DEF Step, AcpiStep
<1>3. CASE Woken
  <2>1. InitCountRegister' \in Nat
    BY <1>3, ClockConstants DEF Woken, ClockInv, ClockTypeOK
  <2>2. UNCHANGED << fw, tab, want, index, tables, vectors, irq, redirected >>
    BY <1>3 DEF Woken, Calibrated
  <2>3. CASE sleep = "done"
    <3>1. pc' = "scan" /\ type' = 1
      BY <1>3, <2>3 DEF Woken, Calibrated, FindAll, Goto
    <3>2. AcpiTypeOK' /\ NotScanned'
      BY <2>2, <3>1, ScanTyped
    <3>. QED
      BY <2>1, <2>2, <3>2 DEF vectors, TypeInv, TypeOK, OverridesTyped
  <2>4. CASE sleep # "done"
    <3>1. pc' = "panic" /\ UNCHANGED << at, scan >>
      BY <1>3, <2>4 DEF Woken, Calibrated, Goto
    <3>2. index' \in Nat /\ irq' \in Nat /\ redirected' \subseteq Nat
      BY <2>2 DEF TypeInv, TypeOK, AcpiTypeOK
    <3>3. AcpiTypeOK' /\ NotScanned' /\ OverridesTyped'
      BY <2>2, <3>1, <3>2, StaysTyped DEF Labels
    <3>. QED
      BY <2>1, <3>3 DEF TypeInv, TypeOK
  <2>. QED
    BY <2>3, <2>4
<1>4. CASE Sleep \/ LoadRamdisk \/ UNCHANGED vars
  <2>1. UNCHANGED << acpi, InitCountRegister >>
    BY <1>4 DEF Sleep, LoadRamdisk, vars
  <2>2. /\ pc' = pc /\ UNCHANGED << fw, tab, at, want, tables, scan, vectors >>
        /\ UNCHANGED << index, irq, redirected >>
    BY <2>1 DEF acpi
  <2>3. pc' \in Labels /\ index' \in Nat /\ irq' \in Nat /\ redirected' \subseteq Nat
    BY <2>2 DEF TypeInv, TypeOK, AcpiTypeOK
  <2>4. AcpiTypeOK' /\ NotScanned' /\ OverridesTyped'
    BY <2>2, <2>3, StaysTyped
  <2>. QED
    BY <1>1, <2>1, <2>4 DEF TypeInv, TypeOK
<1>. QED
  BY <1>2, <1>3, <1>4 DEF Next

(* Every variable of the search for the interrupt controllers has its type,
   and what FindAllInterruptControllers has left never passes the table's
   length nor goes below 0, where the code's size_t would wrap and its loop
   would run on: for any structures a MADT may hold. *)
THEOREM TypeCorrect == Spec => []TypeOK
<1>1. TypeInv => TypeOK
  BY DEF TypeInv
<1>. QED
  BY <1>1, TypeInit, TypeNext, ClockInit, ClockNext, TablesInit, TablesNext, RightInit, RightNext,
     PTL DEF Spec

-----------------------------------------------------------------------------
(* Overrides *)

(* The n-th source override found, and those that name the interrupt. *)
Iso(n) == At(GlobalISOStructures, n)
Nths == 0 .. GlobalISOStructures.count - 1
FirstIso(n) == Iso(n).source = IRQ /\ \A m \in Nths : m < n => Iso(m).source # IRQ

(* No later override names the interrupt which the first leads to. *)
NthsApart == \A n, m \in Nths : FirstIso(n) /\ n < m => Iso(m).source # Iso(n).gsi

(* What the first n of them make of the interrupt. *)
Leads(n, to) ==
  \/ to = IRQ /\ \A m \in Nths : m < n => Iso(m).source # IRQ
  \/ \E m \in Nths : m < n /\ FirstIso(m) /\ to = Iso(m).gsi

IrqInv ==
  /\ pc # "redirect" => irq = IRQ \/ pc = "done"
  /\ pc # "done" => redirected = {}
  /\ pc = "redirect" /\ NthsApart => index \in Nat /\ Leads(index, irq)
  /\ pc = "done" /\ NthsApart =>
       \E to : redirected = {to} /\ Leads(GlobalISOStructures.count, to)

LEMMA IrqInit == BootInit => IrqInv
BY DEF BootInit, Init, IrqInv

(* The overrides stay when the loop over them begins. *)
LEMMA IrqStays ==
  ASSUME UNCHANGED GlobalISOStructures
  PROVE  /\ NthsApart' = NthsApart
         /\ \A n, to : Leads(n, to)' = Leads(n, to)
         /\ Nths' = Nths /\ \A n : Iso(n)' = Iso(n)
BY DEF NthsApart, Leads, FirstIso, Iso, Nths, At

(* One turn of CreateRedirectionEntry's loop. *)
LEMMA LeadsOn ==
  ASSUME NEW n \in Nths, GlobalISOStructures.count \in Nat, NthsApart,
         NEW to, Leads(n, to)
  PROVE  Leads(n + 1, IF Iso(n).source = to THEN Iso(n).gsi ELSE to)
<1> DEFINE c == GlobalISOStructures.count
<1>1. Nths = 0 .. c - 1 /\ c \in Nat
  BY DEF Nths
<1> HIDE DEF c
<1>2. n \in Nat /\ \A m \in Nths : m \in Nat /\ (m < n + 1 <=> m < n \/ m = n)
  BY <1>1
<1>3. CASE to = IRQ /\ \A m \in Nths : m < n => Iso(m).source # IRQ
  <2>1. CASE Iso(n).source = IRQ
    <3>1. FirstIso(n)
      BY <1>3, <2>1 DEF FirstIso
    <3>. QED
      BY <1>2, <1>3, <2>1, <3>1 DEF Leads
  <2>2. CASE Iso(n).source # IRQ
    <3>1. \A m \in Nths : m < n + 1 => Iso(m).source # IRQ
      BY <1>2, <1>3, <2>2
    <3>. QED
      BY <1>3, <2>2, <3>1 DEF Leads
  <2>. QED
    BY <2>1, <2>2
<1>4. CASE \E m \in Nths : m < n /\ FirstIso(m) /\ to = Iso(m).gsi
  <2>1. PICK m \in Nths : m < n /\ FirstIso(m) /\ to = Iso(m).gsi
    BY <1>4
  <2>2. Iso(n).source # to
    BY <2>1 DEF NthsApart
  <2>3. m < n + 1
    BY <1>2, <2>1
  <2>. QED
    BY <2>1, <2>2, <2>3 DEF Leads
<1>. QED
  BY <1>3, <1>4 DEF Leads

LEMMA IrqNext == RightInv /\ IrqInv /\ [Next]_vars => IrqInv'
<1> SUFFICES ASSUME RightInv, IrqInv, [Next]_vars PROVE IrqInv'
  OBVIOUS
<1> DEFINE c == GlobalISOStructures.count
<1>1. c \in Nat
  <2>1. c \in 0 .. Len(GlobalISOStructures.array) /\ Len(GlobalISOStructures.array) \in Nat
    BY DEF RightInv, VectorsInv, Elements
  <2>. QED
    BY <2>1
<1> HIDE DEF c
<1>2. CASE /\ pc \notin { "redirect", "done" } /\ pc' \notin { "redirect", "done" }
           /\ UNCHANGED << irq, redirected >>
  BY <1>2 DEF IrqInv
<1>3. CASE Step
  <2>1. CASE \/ SetRSDP \/ MapHeader \/ HeaderMapped \/ MapTable \/ TableMapped
             \/ NextEntry \/ Compare \/ NotFound
             \/ ChecksumRSDT \/ FoundFADT \/ InitializeMADT \/ StartCalibration
             \/ FindTurn \/ IOAPICsFound
    BY <1>2, <2>1
       DEF SetRSDP, MapHeader, HeaderMapped, MapTable, TableMapped, NextEntry, Compare, NotFound,
           ChecksumRSDT, FoundFADT, InitializeMADT, StartCalibration, MapFrom, Search, Goto,
           FindTurn, IOAPICsFound, FindAll
  <2>2. CASE OverridesFound
    <3>1. /\ pc = "scan" /\ pc' = "redirect" /\ index' = 0
          /\ UNCHANGED << irq, redirected, GlobalISOStructures >>
      BY <2>2 DEF OverridesFound, Goto, vectors
    <3>2. irq = IRQ /\ redirected = {}
      BY <3>1 DEF IrqInv
    <3>3. Leads(0, IRQ)
      BY <1>1 DEF Leads, Nths, c
    <3>. QED
      BY <3>1, <3>2, <3>3, IrqStays DEF IrqInv
  <2>3. CASE ApplyOverride
    <3>1. /\ pc = "redirect" /\ pc' = "redirect" /\ index < c /\ index' = index + 1
          /\ irq' = IF Iso(index).source = irq THEN Iso(index).gsi ELSE irq
          /\ UNCHANGED << redirected, GlobalISOStructures >>
      BY <2>3 DEF ApplyOverride, vectors, Iso, c
    <3>2. ASSUME NthsApart PROVE index' \in Nat /\ Leads(index', irq')
      <4>1. index \in Nat /\ Leads(index, irq)
        BY <3>1, <3>2 DEF IrqInv
      <4>2. index \in Nths
        BY <1>1, <3>1, <4>1 DEF Nths, c
      <4>. QED
        BY <1>1, <3>1, <3>2, <4>1, <4>2, LeadsOn DEF c
    <3>. QED
      BY <3>1, <3>2, IrqStays DEF IrqInv
  <2>4. CASE WriteRedirectionEntry
    <3>1. /\ pc = "redirect" /\ pc' = "done" /\ index >= c
          /\ redirected' = redirected \union {irq}
          /\ UNCHANGED GlobalISOStructures
      BY <2>4 DEF WriteRedirectionEntry, Goto, vectors, c
    <3>2. redirected' = {irq}
      BY <3>1 DEF IrqInv
    <3>3. ASSUME NthsApart PROVE Leads(c, irq)
      <4>1. index \in Nat /\ Leads(index, irq)
        BY <3>1, <3>3 DEF IrqInv
      <4>2. \A m \in Nths : m < c <=> m < index
        BY <1>1, <3>1, <4>1 DEF Nths, c
      <4>. QED
        BY <4>1, <4>2 DEF Leads
    <3>. QED
      BY <3>1, <3>2, <3>3, IrqStays DEF IrqInv, c
  <2>. QED
    BY <1>3, <2>1, <2>2, <2>3, <2>4 DEF Step, AcpiStep
<1>4. CASE Woken
  BY <1>2, <1>4 DEF Woken, Calibrated, FindAll, Goto
<1>5. CASE Sleep \/ LoadRamdisk \/ UNCHANGED vars
  <2>1. UNCHANGED << pc, index, irq, redirected, GlobalISOStructures >>
    BY <1>5 DEF Sleep, LoadRamdisk, vars, acpi, vectors
  <2>. QED
    BY <2>1, IrqStays DEF IrqInv
<1>. QED
  BY <1>3, <1>4, <1>5 DEF Next

(* The structures of a type are counted in order, from 0. *)
Rank(s, t, i) == Cardinality(OfType(s, t, i)) - 1

LEMMA Ranks ==
  ASSUME NEW s, NEW t, NEW n \in Nat
  PROVE  LET T == OfType(s, t, n) IN
         /\ \A i \in T : Rank(s, t, i) \in 0 .. Cardinality(T) - 1
         /\ \A i, j \in T : i < j => Rank(s, t, i) < Rank(s, t, j)
         /\ \A m \in 0 .. Cardinality(T) - 1 : \E i \in T : Rank(s, t, i) = m
<1> DEFINE T == OfType(s, t, n)
           c(i) == Cardinality(OfType(s, t, i))
           u == Cardinality(T)
<1>1. T \subseteq Nat /\ IsFiniteSet(T) /\ u \in Nat
  <2>1. T \subseteq Nat
    BY DEF OfType
  <2>. QED
    BY <2>1, OfTypeFacts
<1>2. ASSUME NEW i \in T PROVE c(i) \in 1 .. u
  <2>1. i \in Nat /\ i \in OfType(s, t, i) /\ OfType(s, t, i) \in SUBSET T
    BY DEF OfType
  <2>2. c(i) \in Nat /\ c(i) # 0
    BY <2>1, OfTypeFacts, FS_EmptySet
  <2>3. c(i) <= u
    BY <2>1, OfTypeFacts, FS_Subset
  <2>. QED
    BY <1>1, <2>2, <2>3
<1>3. ASSUME NEW i \in T, NEW j \in T, i < j PROVE c(i) < c(j)
  <2>1. i \in Nat /\ j \in Nat
    BY <1>1
  <2>2. OfType(s, t, i) \in SUBSET OfType(s, t, j) /\ j \in OfType(s, t, j) \ OfType(s, t, i)
    BY <1>3, <2>1 DEF OfType
  <2>3. c(i) <= c(j) /\ c(i) # c(j)
    BY <2>1, <2>2, OfTypeFacts, FS_Subset
  <2>. QED
    BY <2>1, <2>3, OfTypeFacts
<1> DEFINE R == 0 .. u - 1
           f == [i \in T |-> c(i) - 1]
<1> HIDE DEF T, c, u
<1>4. \A i \in T : c(i) - 1 \in R
  BY <1>1, <1>2
<1>5. \A i, j \in T : i < j => c(i) - 1 < c(j) - 1
  BY <1>1, <1>2, <1>3
<1>6. f \in Injection(T, R)
  <2>1. f \in [T -> R]
    BY <1>4
  <2>2. ASSUME NEW i \in T, NEW j \in T, i # j PROVE f[i] # f[j]
    <3>1. i < j \/ j < i
      BY <1>1, <2>2
    <3>2. f[i] \in Int /\ f[j] \in Int /\ f[i] = c(i) - 1 /\ f[j] = c(j) - 1
      BY <1>2, <1>1
    <3>3. f[i] < f[j] \/ f[j] < f[i]
      BY <1>5, <3>1, <3>2
    <3>. QED
      BY <3>2, <3>3
  <2> HIDE DEF f
  <2>. QED
    BY <2>1, <2>2 DEF Injection, IsInjective
<1>7. IsFiniteSet(R) /\ Cardinality(R) = u
  BY <1>1, FS_Interval
<1>8. f \in Surjection(T, R)
  <2> HIDE DEF f, R
  <2>. QED
    BY <1>6, <1>7, FS_Injection DEF u
<1>9. \A m \in R : \E i \in T : c(i) - 1 = m
  BY <1>8 DEF Surjection
<1>. QED
  BY <1>4, <1>5, <1>9 DEF T, c, u, Rank

(* The firmware's overrides of this kind: none that comes later names the
   interrupt the first one for IRQ leads to. *)
Isos == Of(2, Len(Structures))
FirstOf(i) ==
  i \in Isos /\ Structures[i].source = IRQ
  /\ \A l \in Isos : l < i => Structures[l].source # IRQ
NoChain == \A i, j \in Isos : FirstOf(i) /\ i < j => Structures[j].source # Structures[i].gsi

(* The overrides found are the firmware's, in order. *)
LEMMA IsoOrder ==
  ASSUME RightInv, pc \in { "redirect", "done" }, Len(Structures) \in Nat
  PROVE  /\ Isos \subseteq Nat /\ Nths \subseteq Nat
         /\ \A i \in Isos : Rank(Structures, 2, i) \in Nths
                            /\ Iso(Rank(Structures, 2, i)) = Structures[i]
         /\ \A i, j \in Isos : i < j => Rank(Structures, 2, i) < Rank(Structures, 2, j)
         /\ \A n \in Nths : \E i \in Isos : Rank(Structures, 2, i) = n
<1> DEFINE all == Len(Structures)
<1>1. Filled(GlobalISOStructures, Structures, 2, all)
  BY DEF RightInv, VectorsInv
<1>2. Isos = OfType(Structures, 2, all) /\ Isos \subseteq Nat
  BY DEF Isos, Of, OfType
<1>3. Cardinality(Isos) \in Nat /\ Nths = 0 .. Cardinality(Isos) - 1
  BY <1>1, <1>2, OfTypeFacts DEF Filled, Nths
<1>4. \A i \in Isos : Iso(Rank(Structures, 2, i)) = Structures[i]
  BY <1>1, <1>2 DEF Filled, Iso, Rank
<1> HIDE DEF all
<1>. QED
  BY <1>2, <1>3, <1>4, Ranks DEF all

LEMMA FirstIsFirst ==
  ASSUME NEW i, FirstOf(i), Isos \subseteq Nat
  PROVE  Override = Structures[i].gsi
<1> DEFINE S == { l \in Isos : Structures[l].source = IRQ }
<1>1. i \in S /\ S \subseteq Nat
  BY DEF FirstOf
<1>2. \A l \in S : ~(l < i)
  BY DEF FirstOf
<1> HIDE DEF S
<1>3. \A l \in S : i <= l
  BY <1>1, <1>2
<1>4. \A n \in S : (\A l \in S : n <= l) => n = i
  BY <1>1, <1>3
<1>5. First(S) = i
  BY <1>1, <1>3, <1>4, Zenon DEF First
<1>6. Override = IF S = {} THEN IRQ ELSE Structures[First(S)].gsi
  BY DEF Override, S, Isos
<1>. QED
  BY <1>1, <1>5, <1>6

LEMMA ChainsAgree ==
  ASSUME RightInv, pc = "done", Len(Structures) \in Nat, NoChain
  PROVE  /\ NthsApart
         /\ \A to : Leads(GlobalISOStructures.count, to) => to = Override
<1> DEFINE r(i) == Rank(Structures, 2, i)
           s(i) == Structures[i]
<1>1. /\ Isos \subseteq Nat /\ Nths \subseteq Nat
      /\ \A i \in Isos : r(i) \in Nths /\ Iso(r(i)) = s(i)
      /\ \A i, j \in Isos : i < j => r(i) < r(j)
      /\ \A n \in Nths : \E i \in Isos : r(i) = n
  BY IsoOrder
<1> HIDE DEF r
<1>2. ASSUME NEW i \in Isos, FirstIso(r(i)) PROVE FirstOf(i)
  <2>1. s(i).source = IRQ
    BY <1>1, <1>2 DEF FirstIso
  <2>2. ASSUME NEW l \in Isos, l < i PROVE s(l).source # IRQ
    <3>1. r(l) \in Nths /\ r(l) < r(i) /\ Iso(r(l)) = s(l)
      BY <1>1, <2>2
    <3>. QED
      BY <1>2, <3>1 DEF FirstIso
  <2>. QED
    BY <2>1, <2>2 DEF FirstOf
<1>3. ASSUME NEW i \in Isos, NEW j \in Isos, r(i) < r(j) PROVE i < j
  <2>1. i \in Nat /\ j \in Nat /\ r(i) \in Nat /\ r(j) \in Nat
    BY <1>1
  <2>2. i # j /\ ~(j < i)
    BY <1>1, <1>3, <2>1
  <2>. QED
    BY <2>1, <2>2
<1>4. NthsApart
  <2> SUFFICES ASSUME NEW n \in Nths, NEW m \in Nths, FirstIso(n), n < m
               PROVE  Iso(m).source # Iso(n).gsi
    BY DEF NthsApart
  <2>1. PICK i \in Isos : r(i) = n
    BY <1>1
  <2>2. PICK j \in Isos : r(j) = m
    BY <1>1
  <2>3. FirstOf(i) /\ i < j
    BY <1>2, <1>3, <2>1, <2>2
  <2>4. Structures[j].source # Structures[i].gsi
    BY <2>3 DEF NoChain
  <2>. QED
    BY <1>1, <2>1, <2>2, <2>4
<1>5. ASSUME NEW to, Leads(GlobalISOStructures.count, to) PROVE to = Override
  <2>1. \A m \in Nths : m < GlobalISOStructures.count
    <3> DEFINE c == GlobalISOStructures.count
    <3>1. c \in 0 .. Len(GlobalISOStructures.array) /\ Len(GlobalISOStructures.array) \in Nat
      BY DEF RightInv, VectorsInv, Elements
    <3>2. Nths = 0 .. c - 1
      BY DEF Nths
    <3> HIDE DEF c
    <3>3. \A m \in Nths : m < c
      BY <3>1, <3>2
    <3>. QED
      BY <3>3 DEF c
  <2>2. CASE to = IRQ /\ \A m \in Nths : Iso(m).source # IRQ
    <3>1. \A i \in Isos : s(i).source # IRQ
      BY <1>1, <2>2
    <3>2. { i \in Isos : Structures[i].source = IRQ } = {}
      BY <3>1
    <3>. QED
      BY <2>2, <3>2 DEF Override, Isos
  <2>3. CASE \E m \in Nths : FirstIso(m) /\ to = Iso(m).gsi
    <3>1. PICK m \in Nths : FirstIso(m) /\ to = Iso(m).gsi
      BY <2>3
    <3>2. PICK i \in Isos : r(i) = m
      BY <1>1
    <3>3. FirstOf(i) /\ to = Structures[i].gsi
      BY <1>1, <1>2, <3>1, <3>2
    <3>. QED
      BY <1>1, <3>3, FirstIsFirst
  <2>. QED
    BY <1>5, <2>1, <2>2, <2>3 DEF Leads
<1>. QED
  BY <1>4, <1>5

(* The keyboard's interrupt is redirected where the first source override for
   it says, or, without one, where it is, unless an override behind that one
   is for the very interrupt the first leads to: for any number of overrides
   and any order of them in the MADT.  With such a chain CreateRedirectionEntry
   goes on to the override of the override. *)
THEOREM OverrideRight == Spec => [](NoChain => OverrideUsed)
<1>1. TablesInv /\ RightInv /\ IrqInv => (NoChain => OverrideUsed)
  <2> SUFFICES ASSUME TablesInv, RightInv, IrqInv, NoChain, pc = "done"
               PROVE  redirected = {Override}
    BY DEF OverrideUsed
  <2>1. Len(Structures) \in Nat
    <3>1. fw \in Firmwares /\ GlobalMADT \in DOMAIN fw.table /\ Table(GlobalMADT).sig = "APIC"
      BY DEF TablesInv, SearchInv, FoundInv, Late, Known
    <3>2. LaidOut(Table(GlobalMADT))
      BY <3>1, FirmwareFacts
    <3>3. Structures = Table(GlobalMADT).ics
      BY DEF RightInv, FirstInv, TableFound, Late, Structures, Table
    <3>. QED
      BY <3>2, <3>3 DEF LaidOut
  <2>2. NthsApart /\ \A to : Leads(GlobalISOStructures.count, to) => to = Override
    BY <2>1, ChainsAgree
  <2>3. \E to : redirected = {to} /\ Leads(GlobalISOStructures.count, to)
    BY <2>2 DEF IrqInv
  <2>. QED
    BY <2>2, <2>3
<1>. QED
  BY <1>1, RightAlways, RightInit, TablesInit, TablesNext, RightNext, IrqInit, IrqNext, PTL DEF Spec

-----------------------------------------------------------------------------
(* Induction along an archive and along a string: a set of numbers has a
   least element. *)
LEMMA LessThan ==
  \E R : IsWellFoundedOn(R, Nat) /\ \A x, y \in Nat : x < y => << x, y >> \in R
<1>1. \A x, y \in Nat : x < y => << x, y >> \in OpToRel(<, Nat)
  BY DEF OpToRel
<1>. QED
  BY <1>1, NatLessThanWellFounded, Zenon

LEMMA Least ==
  ASSUME NEW T, T \subseteq Nat, T # {}
  PROVE  \E x \in T : \A y \in T : x <= y
<1>1. PICK R : IsWellFoundedOn(R, Nat) /\ \A x, y \in Nat : x < y => << x, y >> \in R
  BY LessThan
<1>2. IsWellFoundedOn(R, Nat)
  BY <1>1
<1>3. PICK x \in T : \A y \in T : ~(<< y, x >> \in R)
  BY <1>2, WFMin, Zenon
<1>4. \A y \in T : ~(y < x)
  BY <1>1, <1>3
<1>. QED
  BY <1>3, <1>4

LEMMA Induction ==
  ASSUME NEW S, 0 \in S, \A n \in Nat : n \in S => n + 1 \in S
  PROVE  Nat \subseteq S
<1>1. ASSUME Nat \ S # {} PROVE FALSE
  <2>1. PICK x \in Nat \ S : \A y \in Nat \ S : x <= y
    BY <1>1, Least
  <2>2. x # 0 /\ x - 1 \in Nat
    BY <2>1
  <2>3. x - 1 \in S
    BY <2>1, <2>2
  <2>. QED
    BY <2>1, <2>2, <2>3
<1>. QED
  BY <1>1

-----------------------------------------------------------------------------
(* The list of files is a vector (PushBackAdds). *)
LEMMA FilePushed ==
  ASSUME NEW S, Disk!Garbage \in S, NEW v, Elements(v, S), NEW x \in S
  PROVE  /\ Elements(Disk!PushBack(v, x), S)
         /\ Disk!PushBack(v, x).count = v.count + 1
         /\ Disk!At(Disk!PushBack(v, x), v.count) = x
         /\ \A n \in 0 .. v.count - 1 : Disk!At(Disk!PushBack(v, x), n) = Disk!At(v, n)
<1>1. Garbage \in S
  BY DEF Disk!Garbage, Garbage
<1>2. Disk!PushBack(v, x) = PushBack(v, x)
  BY DEF Disk!Garbage, Garbage, Disk!Grown, Grown, Disk!PushBack, PushBack
<1>3. /\ Elements(PushBack(v, x), S) /\ PushBack(v, x).count = v.count + 1
      /\ At(PushBack(v, x), v.count) = x /\ Kept(v, PushBack(v, x))
  BY <1>1, PushBackAdds
<1>. QED
  BY <1>2, <1>3 DEF Disk!At, At, Kept

LEMMA NewVectorIsOne == ASSUME NEW S, Disk!Garbage \in S
                        PROVE Elements(Disk!NewVector, S) /\ Disk!NewVector.count = 0
BY DEF Disk!NewVector, Elements

-----------------------------------------------------------------------------
(* Strings *)

Chars == Nat \ {Disk!NUL}
Name(str) == Disk!NameField(str)

LEMMA Constants ==
  /\ Block \in Nat \ {0} /\ PageBytes \in Nat \ {0} /\ PageBytes % Block = 0
  /\ NameMax \in Nat \ {0} /\ Digits \in Nat
  /\ \A r \in Responses : /\ r \in Seq({ r[n] : n \in DOMAIN r })
                          /\ \A n \in 1 .. Len(r) : Disk!ModuleOK(r[n])
  /\ \A p \in Paths : p \in Seq(Chars) /\ Len(p) <= NameMax
BY RamdiskAssumption DEF Disk!RamdiskOK, Chars

LEMMA NameFacts ==
  ASSUME NEW str \in Seq(Chars), Len(str) <= NameMax
  PROVE  /\ \A u \in 0 .. Len(str) - 1 : Name(str)[u + 1] = str[u + 1] /\ str[u + 1] \in Chars
         /\ \A u \in Len(str) .. NameMax - 1 : Name(str)[u + 1] = 0
         /\ DOMAIN Name(str) = 1 .. NameMax
<1> DEFINE n == Len(str)
<1>1. n \in Nat /\ n <= NameMax /\ NameMax \in Nat
  BY Constants
<1>2. \A u \in 1 .. n : str[u] \in Chars
  OBVIOUS
<1>3. \A u \in 1 .. NameMax : Name(str)[u] = IF u <= n THEN str[u] ELSE 0
  BY DEF Name, Disk!NameField, Disk!NUL
<1>4. DOMAIN Name(str) = 1 .. NameMax
  BY DEF Name, Disk!NameField
<1> HIDE DEF n
<1>5. ASSUME NEW u \in 0 .. n - 1
      PROVE  Name(str)[u + 1] = str[u + 1] /\ str[u + 1] \in Chars
  <2>1. u + 1 \in 1 .. NameMax /\ u + 1 \in 1 .. n
    BY <1>1, <1>5
  <2>. QED
    BY <1>1, <1>2, <1>3, <2>1
<1>6. ASSUME NEW u \in n .. NameMax - 1
      PROVE  Name(str)[u + 1] = 0
  <2>1. u + 1 \in 1 .. NameMax /\ ~(u + 1 <= n)
    BY <1>1, <1>6
  <2>. QED
    BY <1>3, <2>1
<1>. QED
  BY <1>4, <1>5, <1>6 DEF n

(* strnlen of a name is the number of its characters, also of a name that
   fills its field. *)
LEMMA NameLength ==
  ASSUME NEW str \in Seq(Chars), Len(str) <= NameMax
  PROVE  Disk!strnlen(Name(str), NameMax) = Len(str)
<1> DEFINE n == Len(str)
           P(u) == /\ u = NameMax \/ Name(str)[u + 1] = 0
                   /\ \A l \in 0 .. u - 1 : Name(str)[l + 1] # 0
<1>1. n \in Nat /\ n <= NameMax /\ NameMax \in Nat
  BY Constants
<1>2. /\ \A u \in 0 .. n - 1 : Name(str)[u + 1] # 0
      /\ \A u \in n .. NameMax - 1 : Name(str)[u + 1] = 0
  BY NameFacts DEF Chars, Disk!NUL
<1>3. Disk!strnlen(Name(str), NameMax) = CHOOSE u \in 0 .. NameMax : P(u)
  BY DEF Disk!strnlen, Disk!NUL
<1> HIDE DEF n
<1>4. n \in 0 .. NameMax /\ P(n)
  BY <1>1, <1>2
<1>5. ASSUME NEW u \in 0 .. NameMax, P(u)
      PROVE  u = n
  <2>1. CASE u < n
    BY <1>1, <1>2, <1>5, <2>1
  <2>2. CASE u > n
    <3>1. n \in 0 .. u - 1 /\ n \in n .. NameMax - 1
      BY <1>1, <1>5, <2>2
    <3>. QED
      BY <1>2, <1>5, <3>1
  <2>. QED
    BY <1>1, <1>5, <2>1, <2>2
<1> HIDE DEF P
<1>6. (CHOOSE u \in 0 .. NameMax : P(u)) = n
  BY <1>4, <1>5
<1>. QED
  BY <1>3, <1>6 DEF n

(* A name that tar has written, with the slash of a directory behind it,
   becomes the path, which is never empty. *)
LEMMA SlashRemoved ==
  ASSUME NEW f \in Disk!File, NEW h, Disk!Written(f, h)
  PROVE  /\ Disk!WithoutSlash(Name(Disk!Recorded(f))) = Name(f.path)
         /\ Name(Disk!Recorded(f))[1] # 0 /\ Name(f.path)[1] # 0
         /\ f.path \in Seq(Chars) /\ Len(f.path) <= NameMax
<1> DEFINE path == f.path
           rec == Disk!Recorded(f)
           n == Len(path)
<1>1. path \in Seq(Chars) /\ f.slash \in BOOLEAN /\ n \in Nat \ {0} /\ NameMax \in Nat
      /\ path[n] # 47 /\ Len(rec) <= NameMax
  <2>1. path \in Seq(Chars) /\ f.slash \in BOOLEAN /\ NameMax \in Nat
    BY Constants DEF Disk!File, Chars
  <2>2. path # << >> /\ path[n] # 47 /\ Len(rec) <= NameMax
    BY DEF Disk!Written, Disk!Slash
  <2> HIDE DEF path
  <2>3. n \in Nat \ {0}
    BY <2>1, <2>2
  <2>. QED
    BY <2>1, <2>2, <2>3
<1>2. CASE f.slash
  <2>1. rec = Append(path, 47)
    BY <1>2 DEF Disk!Recorded, Disk!Slash
  <2>2. rec \in Seq(Chars) /\ Len(rec) = n + 1 /\ rec[n + 1] = 47
        /\ \A u \in 1 .. n : rec[u] = path[u]
    <3>1. 47 \in Chars
      BY DEF Chars, Disk!NUL
    <3> HIDE DEF path
    <3>. QED
      BY <1>1, <2>1, <3>1
  <2> HIDE DEF rec
  <2>3. \A u \in 0 .. n : Name(rec)[u + 1] = rec[u + 1] /\ rec[u + 1] \in Chars
    BY <1>1, <2>2, NameFacts
  <2>4. DOMAIN Name(rec) = 1 .. NameMax /\ DOMAIN Name(path) = 1 .. NameMax
    BY DEF Name, Disk!NameField
  <2>5. Disk!strnlen(Name(rec), NameMax) = n + 1
    BY <1>1, <2>2, NameLength
  <2>6. Name(rec)[n + 1] = 47
    BY <1>1, <2>2, <2>3
  <2>7. Disk!WithoutSlash(Name(rec)) = [Name(rec) EXCEPT ![n + 1] = 0]
    BY <2>5, <2>6 DEF Disk!WithoutSlash, Disk!Slash, Disk!NUL
  <2>8. \A u \in 1 .. NameMax : Name(rec)[u] = (IF u <= n + 1 THEN rec[u] ELSE 0)
                               /\ Name(path)[u] = (IF u <= n THEN path[u] ELSE 0)
    BY <2>2 DEF Name, Disk!NameField, Disk!NUL
  <2> HIDE DEF n, path
  <2>9. [Name(rec) EXCEPT ![n + 1] = 0] = [u \in 1 .. NameMax |-> IF u <= n THEN path[u] ELSE 0]
    <3> DEFINE N == Name(rec)
               g == [N EXCEPT ![n + 1] = 0]
    <3>1. n + 1 \in 1 .. NameMax
      BY <1>1, <2>2
    <3> HIDE DEF N
    <3>2. \A l \in 1 .. NameMax : g[l] = IF l <= n THEN path[l] ELSE 0
      <4>1. TAKE l \in 1 .. NameMax
      <4>2. N[l] = IF l <= n + 1 THEN rec[l] ELSE 0
        BY <2>8 DEF N
      <4>3. l <= n => rec[l] = path[l]
        BY <1>1, <2>2
      <4>. QED
        BY <1>1, <2>4, <3>1, <4>2, <4>3 DEF N
    <3>3. g = [l \in 1 .. NameMax |-> g[l]]
      BY <2>4 DEF N
    <3>. QED
      BY <3>2, <3>3 DEF N
  <2>10. Name(path) = [u \in 1 .. NameMax |-> IF u <= n THEN path[u] ELSE 0]
    BY DEF Name, Disk!NameField, Disk!NUL, n
  <2>11. Name(rec)[1] # 0 /\ Name(path)[1] # 0
    <3>1. 1 \in 1 .. NameMax /\ 1 <= n
      BY <1>1, <2>2
    <3>2. path[1] \in Chars
      BY <1>1, <3>1 DEF n
    <3>. QED
      BY <1>1, <2>2, <2>8, <3>1, <3>2 DEF Chars, Disk!NUL
  <2>. QED
    BY <1>1, <2>2, <2>7, <2>9, <2>10, <2>11 DEF n, path, rec
<1>3. CASE ~f.slash
  <2>1. rec = path
    BY <1>3 DEF Disk!Recorded
  <2>2. Disk!strnlen(Name(path), NameMax) = n
    BY <1>1, <2>1, NameLength
  <2>3. \A u \in 0 .. n - 1 : Name(path)[u + 1] = path[u + 1] /\ path[u + 1] \in Chars
    BY <1>1, <2>1, NameFacts
  <2> HIDE DEF n
  <2>4. Name(path)[(n - 1) + 1] = path[(n - 1) + 1] /\ Name(path)[0 + 1] = path[0 + 1]
        /\ path[0 + 1] \in Chars
    <3>1. n - 1 \in 0 .. n - 1 /\ 0 \in 0 .. n - 1
      BY <1>1
    <3>. QED
      BY <2>3, <3>1, Zenon
  <2>5. Name(path)[n] = path[n] /\ Name(path)[1] # 0
    BY <1>1, <2>4 DEF Chars, Disk!NUL
  <2>6. Disk!WithoutSlash(Name(path)) = Name(path)
    BY <1>1, <2>2, <2>5 DEF Disk!WithoutSlash, Disk!Slash
  <2>. QED
    BY <1>1, <2>1, <2>5, <2>6 DEF n
<1>. QED
  BY <1>1, <1>2, <1>3

(* Comparing the name of a file with a path is comparing the paths. *)
LEMMA Compares ==
  ASSUME NEW str \in Seq(Chars), Len(str) <= NameMax,
         NEW p \in Seq(Chars), Len(p) <= NameMax
  PROVE  Disk!strncmp(Name(str), Append(p, Disk!NUL), NameMax) = 0 <=> str = p
<1> DEFINE s == Name(str)
           t == Append(p, Disk!NUL)
           a == Len(str)
           b == Len(p)
           Stops(u) == u = NameMax \/ s[u + 1] = 0 \/ s[u + 1] # t[u + 1]
           T == { u \in 0 .. NameMax : Stops(u) }
           P(u) == Stops(u) /\ \A l \in 0 .. u - 1 : ~Stops(l)
<1>1. a \in Nat /\ b \in Nat /\ a <= NameMax /\ b <= NameMax /\ NameMax \in Nat
  BY Constants
<1>2. /\ \A u \in 0 .. a - 1 : s[u + 1] = str[u + 1] /\ s[u + 1] # 0 /\ s[u + 1] \in Nat
      /\ \A u \in a .. NameMax - 1 : s[u + 1] = 0
  BY NameFacts DEF Chars, Disk!NUL
<1>3. /\ \A u \in 0 .. b - 1 : t[u + 1] = p[u + 1] /\ t[u + 1] # 0 /\ t[u + 1] \in Nat
      /\ t[b + 1] = 0
  <2>1. \A u \in 1 .. b : p[u] \in Nat /\ p[u] # 0
    BY DEF Chars, Disk!NUL
  <2>2. t[b + 1] = 0 /\ \A u \in 1 .. b : t[u] = p[u]
    BY DEF Disk!NUL
  <2> HIDE DEF b, t
  <2>3. \A u \in 0 .. b - 1 : u + 1 \in 1 .. b
    BY <1>1
  <2>. QED
    BY <2>1, <2>2, <2>3
<1>4. Disk!strncmp(s, t, NameMax)
        = LET stop == CHOOSE u \in 0 .. NameMax : P(u)
          IN IF stop = NameMax THEN 0 ELSE s[stop + 1] - t[stop + 1]
  BY DEF Disk!strncmp, Disk!NUL
<1> HIDE DEF s, t, Stops
<1>5. PICK x \in T : \A y \in T : x <= y
  <2>1. NameMax \in T /\ T \subseteq Nat
    BY <1>1 DEF Stops
  <2>. QED
    BY <2>1, Least
<1>6. x \in 0 .. NameMax /\ P(x)
  <2>1. \A l \in 0 .. x - 1 : l \in 0 .. NameMax /\ ~(x <= l)
    BY <1>1, <1>5
  <2>. QED
    BY <1>5, <2>1
<1>7. ASSUME NEW u \in 0 .. NameMax, P(u)
      PROVE  u = x
  <2>1. CASE u < x
    <3>1. u \in 0 .. x - 1
      BY <1>6, <1>7, <2>1
    <3>. QED
      BY <1>6, <1>7, <3>1
  <2>2. CASE x < u
    <3>1. x \in 0 .. u - 1
      BY <1>6, <1>7, <2>2
    <3>. QED
      BY <1>6, <1>7, <3>1
  <2>. QED
    BY <1>1, <1>6, <1>7, <2>1, <2>2
<1>8. (CHOOSE u \in 0 .. NameMax : P(u)) = x
  <2> HIDE DEF P
  <2>. QED
    BY <1>6, <1>7
<1>9. Disk!strncmp(s, t, NameMax) = IF x = NameMax THEN 0 ELSE s[x + 1] - t[x + 1]
  BY <1>4, <1>8
<1>10. \A l \in 0 .. x - 1 : s[l + 1] # 0 /\ s[l + 1] = t[l + 1]
  BY <1>6 DEF Stops
<1>11. x <= a /\ x <= b
  <2>1. ASSUME x > a PROVE FALSE
    <3>1. a \in 0 .. x - 1 /\ a \in a .. NameMax - 1
      BY <1>1, <1>6, <2>1
    <3>. QED
      BY <1>2, <1>10, <3>1
  <2>2. ASSUME x > b PROVE FALSE
    <3>1. b \in 0 .. x - 1
      BY <1>1, <1>6, <2>2
    <3>. QED
      BY <1>3, <1>10, <3>1
  <2>. QED
    BY <1>1, <1>6, <2>1, <2>2
<1>12. ASSUME str = p
       PROVE  Disk!strncmp(s, t, NameMax) = 0
  <2>1. a = b
    BY <1>12
  <2>2. CASE x < a
    <3>1. x \in 0 .. a - 1 /\ x \in 0 .. b - 1 /\ x # NameMax
      BY <1>1, <1>6, <2>1, <2>2
    <3>2. s[x + 1] # 0 /\ s[x + 1] = t[x + 1]
      BY <1>2, <1>3, <1>12, <3>1
    <3>. QED
      BY <1>6, <3>1, <3>2 DEF Stops
  <2>3. CASE x = a /\ a < NameMax
    <3>1. s[x + 1] = 0 /\ t[x + 1] = 0
      <4>1. x \in a .. NameMax - 1
        BY <1>1, <2>3
      <4>. QED
        BY <1>2, <1>3, <2>1, <2>3, <4>1
    <3>. QED
      BY <1>1, <1>9, <2>3, <3>1
  <2>4. CASE x = NameMax
    BY <1>9, <2>4
  <2>. QED
    BY <1>1, <1>6, <1>11, <2>2, <2>3, <2>4
<1>13. ASSUME Disk!strncmp(s, t, NameMax) = 0
       PROVE  str = p
  <2>1. a = x /\ b = x
    <3>1. CASE x = NameMax
      BY <1>1, <1>11, <3>1
    <3>2. CASE x # NameMax
      <4>1. s[x + 1] \in Nat /\ t[x + 1] \in Nat
        <5>1. x \in 0 .. a - 1 \/ x \in a .. NameMax - 1
          BY <1>1, <1>6, <3>2
        <5>2. x \in 0 .. b - 1 \/ x = b
          BY <1>1, <1>6, <1>11
        <5>. QED
          BY <1>2, <1>3, <5>1, <5>2
      <4>2. s[x + 1] - t[x + 1] = 0
        BY <1>9, <1>13, <3>2
      <4>3. s[x + 1] = t[x + 1]
        BY <4>1, <4>2
      <4>4. s[x + 1] = 0 /\ t[x + 1] = 0
        BY <1>6, <3>2, <4>3 DEF Stops
      <4>5. ~(x \in 0 .. a - 1) /\ ~(x \in 0 .. b - 1)
        BY <1>2, <1>3, <4>4
      <4>. QED
        BY <1>1, <1>6, <1>11, <4>5
    <3>. QED
      BY <3>1, <3>2
  <2>2. \A u \in 1 .. a : str[u] = p[u]
    <3>1. TAKE u \in 1 .. a
    <3>2. u - 1 \in 0 .. a - 1 /\ u - 1 \in 0 .. b - 1 /\ u - 1 \in 0 .. x - 1 /\ (u - 1) + 1 = u
      BY <1>1, <2>1
    <3>3. s[(u - 1) + 1] = str[(u - 1) + 1] /\ t[(u - 1) + 1] = p[(u - 1) + 1]
          /\ s[(u - 1) + 1] = t[(u - 1) + 1]
      BY <1>2, <1>3, <1>10, <3>2
    <3>. QED
      BY <3>2, <3>3
  <2>3. a = b
    BY <2>1
  <2>. QED
    BY <2>2, <2>3
<1>. QED
  BY <1>12, <1>13 DEF s, t

-----------------------------------------------------------------------------
(* Archives *)

(* The walk's step is the header's block and the contents in whole blocks. *)
LEMMA StepIsBlocks ==
  ASSUME NEW s \in Nat
  PROVE  /\ Disk!Blocks(s) \in Nat
         /\ Disk!AlignUp(s + Block, Block) = Block * (1 + Disk!Blocks(s))
<1> DEFINE b == Block
           q == s \div b
           r == s % b
<1>1. b \in Nat \ {0} /\ q \in Nat /\ r \in 0 .. b - 1 /\ s = b * q + r
  <2>1. b \in Nat \ {0} /\ s \in Int
    BY Constants
  <2> HIDE DEF b
  <2>2. /\ s % b \in 0 .. b - 1
        /\ s = b * (s \div b) + (s % b)
    BY <2>1, DivMod
  <2>3. s \div b \in Nat
    BY <2>1, DivNat
  <2>. QED
    BY <2>1, <2>2, <2>3
<1>2. Disk!Blocks(s) = q + (IF r = 0 THEN 0 ELSE 1)
  BY DEF Disk!Blocks
<1>3. Disk!AlignUp(s + b, b) = (((s + b) + (b - 1)) \div b) * b
  BY DEF Disk!AlignUp
<1> HIDE DEF b, q, r
<1>4. CASE r = 0
  <2>1. b - 1 \in 0 .. b - 1 /\ q + 1 \in Int /\ (s + b) + (b - 1) = b * (q + 1) + (b - 1)
    BY <1>1, <1>4
  <2>2. (b * (q + 1) + (b - 1)) \div b = q + 1
    BY <1>1, <2>1, DivModUnique
  <2>3. Disk!AlignUp(s + b, b) = (q + 1) * b
    BY <1>3, <2>1, <2>2
  <2>4. (q + 1) * b = b * (1 + q) /\ Disk!Blocks(s) = q
    BY <1>1, <1>2, <1>4
  <2>. QED
    BY <1>1, <2>3, <2>4 DEF b
<1>5. CASE r # 0
  <2>1. r - 1 \in 0 .. b - 1 /\ q + 2 \in Int /\ (s + b) + (b - 1) = b * (q + 2) + (r - 1)
    BY <1>1, <1>5
  <2>2. (b * (q + 2) + (r - 1)) \div b = q + 2
    BY <1>1, <2>1, DivModUnique
  <2>3. Disk!AlignUp(s + b, b) = (q + 2) * b
    BY <1>3, <2>1, <2>2
  <2>4. (q + 2) * b = b * (1 + (q + 1)) /\ Disk!Blocks(s) = q + 1
    BY <1>1, <1>2, <1>5
  <2>. QED
    BY <1>1, <2>3, <2>4 DEF b
<1>. QED
  BY <1>4, <1>5

LEMMA FileFacts ==
  ASSUME NEW mod, mod.files \in Seq(Disk!File)
  PROVE  /\ Len(mod.files) \in Nat /\ DOMAIN mod.files = 1 .. Len(mod.files)
         /\ \A n \in 1 .. Len(mod.files) :
              mod.files[n] \in Disk!File /\ mod.files[n].size \in Nat /\ mod.files[n].type \in Nat
<1> DEFINE F == Disk!File
           fs == mod.files
<1>1. \A f \in F : f.size \in Nat /\ f.type \in Nat
  BY DEF Disk!File
<1>2. fs \in Seq(F)
  OBVIOUS
<1> HIDE DEF F, fs
<1>3. Len(fs) \in Nat /\ DOMAIN fs = 1 .. Len(fs) /\ \A n \in 1 .. Len(fs) : fs[n] \in F
  BY <1>2
<1>. QED
  BY <1>1, <1>3 DEF F, fs

(* Headers lie inside the archive, one behind the other, and the end is not
   where one of them is. *)
LEMMA Layout ==
  ASSUME NEW mod, Disk!LaidOut(mod), mod.files \in Seq(Disk!File),
         mod.base \in Nat \ {0}, mod.size \in Nat
  PROVE  LET last == Len(mod.files) + 1 IN
         /\ \A n \in 1 .. last : /\ mod.place[n] \in Nat /\ mod.place[n] >= mod.base
                                 /\ mod.place[n] + Block <= mod.base + mod.size
         /\ \A m, n \in 1 .. last : m < n => mod.place[m] < mod.place[n]
         /\ \A n \in 1 .. last - 1 : mod.place[n] \in DOMAIN mod.header
         /\ mod.place[last] \notin DOMAIN mod.header
<1> DEFINE L == Len(mod.files)
           p == mod.place
<1>1. L \in Nat /\ Block \in Nat \ {0}
  BY Constants, FileFacts
<1>2. p \in [1 .. L + 1 -> Nat] /\ p[1] = mod.base /\ p[L + 1] + Block <= mod.base + mod.size
      /\ DOMAIN mod.header = { p[n] : n \in 1 .. (L + 1) - 1 }
  BY DEF Disk!LaidOut
<1>3. \A n \in 1 .. L : p[n] < p[n + 1]
  <2>1. TAKE n \in 1 .. L
  <2>2. p[n + 1] = p[n] + Block * (1 + Disk!Blocks(mod.files[n].size))
    BY DEF Disk!LaidOut
  <2>3. Disk!Blocks(mod.files[n].size) \in Nat
    BY FileFacts, StepIsBlocks
  <2> DEFINE c == Disk!Blocks(mod.files[n].size)
  <2>6. c \in Nat
    BY <2>3
  <2> HIDE DEF c
  <2>4. Block * (1 + c) > 0 /\ Block * (1 + c) \in Nat
    BY <1>1, <2>6
  <2> HIDE DEF p, L
  <2>5. p[n] \in Nat
    BY <1>1, <1>2
  <2>. QED
    BY <2>2, <2>4, <2>5 DEF c
<1> HIDE DEF p, L
<1>4. \A m, n \in 1 .. L + 1 : m < n => p[m] < p[n]
  <2> DEFINE S == { d \in Nat : \A m \in 1 .. L + 1 :
                       m + (d + 1) \in 1 .. L + 1 => p[m] < p[m + (d + 1)] }
  <2>1. 0 \in S
    <3>1. ASSUME NEW m \in 1 .. L + 1, m + (0 + 1) \in 1 .. L + 1
          PROVE  p[m] < p[m + (0 + 1)]
      <4>1. m \in 1 .. L /\ m + (0 + 1) = m + 1
        BY <1>1, <3>1
      <4>. QED
        BY <1>3, <4>1
    <3>. QED
      BY <3>1
  <2>2. ASSUME NEW d \in Nat, d \in S
        PROVE  d + 1 \in S
    <3>1. ASSUME NEW m \in 1 .. L + 1, m + ((d + 1) + 1) \in 1 .. L + 1
          PROVE  p[m] < p[m + ((d + 1) + 1)]
      <4>1. m + (d + 1) \in 1 .. L /\ m + (d + 1) \in 1 .. L + 1
            /\ m + ((d + 1) + 1) = (m + (d + 1)) + 1
        BY <1>1, <3>1
      <4>2. p[m] < p[m + (d + 1)]
        BY <2>2, <4>1
      <4>3. p[m + (d + 1)] < p[(m + (d + 1)) + 1]
        BY <1>3, <4>1
      <4>4. p[m] \in Nat /\ p[m + (d + 1)] \in Nat /\ p[m + ((d + 1) + 1)] \in Nat
        BY <1>2, <3>1, <4>1
      <4>. QED
        BY <4>1, <4>2, <4>3, <4>4
    <3>. QED
      BY <3>1
  <2> HIDE DEF S
  <2>3. Nat \subseteq S
    BY <2>1, <2>2, Induction
  <2>4. ASSUME NEW m \in 1 .. L + 1, NEW n \in 1 .. L + 1, m < n
        PROVE  p[m] < p[n]
    <3>1. n - (m + 1) \in Nat /\ m + ((n - (m + 1)) + 1) = n
      BY <1>1, <2>4
    <3>2. n - (m + 1) \in S
      BY <2>3, <3>1
    <3>3. m + ((n - (m + 1)) + 1) \in 1 .. L + 1
      BY <3>1
    <3>4. p[m] < p[m + ((n - (m + 1)) + 1)]
      BY <3>2, <3>3 DEF S
    <3>. QED
      BY <3>1, <3>4
  <2>. QED
    BY <2>4
<1>5. \A n \in 1 .. L + 1 : p[n] \in Nat /\ p[n] >= mod.base /\ p[n] + Block <= mod.base + mod.size
  <2>1. TAKE n \in 1 .. L + 1
  <2>2. 1 \in 1 .. L + 1 /\ L + 1 \in 1 .. L + 1
    BY <1>1
  <2>3. p[n] \in Nat /\ p[1] \in Nat /\ p[L + 1] \in Nat
    BY <1>2, <2>2
  <2>5. mod.base \in Nat /\ mod.size \in Nat
    OBVIOUS
  <2>4. (n = 1 \/ p[1] < p[n]) /\ (n = L + 1 \/ p[n] < p[L + 1])
    BY <1>1, <1>4, <2>2
  <2>. QED
    BY <1>1, <1>2, <2>3, <2>4
<1>6. \A n \in 1 .. (L + 1) - 1 : p[n] \in DOMAIN mod.header
  BY <1>2
<1>7. p[L + 1] \notin DOMAIN mod.header
  <2>1. ASSUME NEW n \in 1 .. (L + 1) - 1
        PROVE  p[n] < p[L + 1] /\ p[n] \in Nat /\ p[L + 1] \in Nat
    <3>1. n \in 1 .. L + 1 /\ n < L + 1 /\ L + 1 \in 1 .. L + 1
      BY <1>1
    <3>. QED
      BY <1>2, <1>4, <3>1
  <2>2. ASSUME NEW n \in 1 .. (L + 1) - 1
        PROVE  p[n] # p[L + 1]
    BY <2>1
  <2>. QED
    BY <1>2, <2>2
<1>. QED
  BY <1>4, <1>5, <1>6, <1>7 DEF p, L

LEMMA ResponseFacts ==
  ASSUME NEW r \in Responses, r # << >>
  PROVE  /\ Len(r) \in Nat \ {0}
         /\ \A n \in 1 .. Len(r) :
              /\ Disk!ModuleOK(r[n]) /\ r[n].base \in Nat \ {0} /\ r[n].base % PageBytes = 0
              /\ r[n].size \in Nat \ {0} /\ r[n].ustar \in BOOLEAN
<1> DEFINE S == { r[n] : n \in DOMAIN r }
<1>1. r \in Seq(S) /\ \A n \in 1 .. Len(r) : Disk!ModuleOK(r[n])
  BY Constants
<1> HIDE DEF S
<1>2. Len(r) \in Nat \ {0}
  BY <1>1
<1>3. ASSUME NEW mod, Disk!ModuleOK(mod)
      PROVE  /\ mod.base \in Nat \ {0} /\ mod.base % PageBytes = 0
             /\ mod.size \in Nat \ {0} /\ mod.ustar \in BOOLEAN
  BY <1>3 DEF Disk!ModuleOK, Disk!NULL
<1>. QED
  BY <1>1, <1>2, <1>3

LEMMA ArchiveFacts ==
  ASSUME NEW mod, Disk!ModuleOK(mod), mod.ustar
  PROVE  /\ Disk!LaidOut(mod) /\ mod.files \in Seq(Disk!File)
         /\ mod.base \in Nat \ {0} /\ mod.size \in Nat
         /\ \A n \in 1 .. Len(mod.files) : Disk!Written(mod.files[n], mod.header[mod.place[n]])
<1>1. mod.files \in Seq(Disk!File) /\ \A n \in DOMAIN mod.files :
        Disk!Written(mod.files[n], mod.header[mod.place[n]])
  BY DEF Disk!ModuleOK
<1>2. DOMAIN mod.files = 1 .. Len(mod.files)
  BY <1>1, FileFacts
<1>. QED
  BY <1>1, <1>2 DEF Disk!ModuleOK, Disk!NULL

(* Bytes that are less than a page behind one that begins a page. *)
LEMMA SamePage ==
  ASSUME NEW a \in Nat, a % PageBytes = 0, NEW q \in Nat, NEW x \in Nat,
         PageBytes * q <= x, x < PageBytes * q + PageBytes
  PROVE  Disk!Page(a + x) = Disk!Page(a + PageBytes * q)
<1> DEFINE b == PageBytes
           u == a \div b
<1>1. b \in Nat \ {0}
  BY Constants
<1>2. u \in Int /\ a = b * u
  <2> HIDE DEF b
  <2>1. a = b * (a \div b) + (a % b) /\ a \div b \in Int
    BY <1>1, DivMod
  <2>2. a % b = 0
    BY DEF b
  <2>. QED
    BY <1>1, <2>1, <2>2
<1> HIDE DEF u
<1> DEFINE c == u + q
           d == x - b * q
<1>3. c \in Int /\ d \in 0 .. b - 1 /\ 0 \in 0 .. b - 1
      /\ a + x = b * c + d /\ a + b * q = b * c + 0
  <2>1. b * q \in Nat /\ b * q <= x /\ x < b * q + b
    BY <1>1
  <2> HIDE DEF b
  <2>. QED
    BY <1>1, <1>2, <2>1
<1> HIDE DEF b, c, d
<1>4. (b * c + d) \div b = c /\ (b * c + 0) \div b = c
  BY <1>1, <1>3, DivModUnique
<1>. QED
  BY <1>3, <1>4 DEF Disk!Page, b

-----------------------------------------------------------------------------
(* The invariant *)

Ram == response[1]
IsArchive == response # << >> /\ Ram.ustar
FileCount == Len(Ram.files)

Walking == stage \in { "header", "size", "next" }
Decoding == stage \in { "size", "next" }

(* Which file the walk is at, and how many names are without their slash. *)
Nth == IF stage = "next" THEN Files.count ELSE Files.count + 1
Stripped == IF stage = "size" THEN Files.count + 1 ELSE Files.count

Addresses == Nat \union {Disk!Garbage}
Entries == [Path : Nat, LinksTo : Nat, FileSize : Nat, Type : Nat, FileAddress : Nat]
             \union {Disk!Garbage}

StageInv ==
  /\ stage \in { "wait", "map", "header", "size", "next", "end" }
  /\ stage = "wait" => response = << >> /\ nth = 0 /\ offset = 0
  /\ stage # "wait" => response \in Responses
  /\ response = << >> => stage \in { "wait", "end" }

(* The pages of the first module are mapped when it is in the list. *)
MapInv ==
  /\ nth \in Nat /\ \E q \in Nat : offset = PageBytes * q
  /\ Elements(Modules, Addresses) /\ Modules.count = nth
  /\ stage = "map" => \A x \in Nat : x < offset /\ x < Ram.size /\ nth = 0 =>
                                       Disk!Page(Ram.base + x) \in modMapped
  /\ nth > 0 => /\ response # << >> /\ Disk!At(Modules, 0) = Ram.base
                /\ \A x \in Nat : x < Ram.size => Disk!Page(Ram.base + x) \in modMapped
  /\ modTouched \subseteq modMapped

(* The walk is at a header, or behind the last. *)
WalkInv ==
  Walking => /\ IsArchive /\ nth > 0
             /\ Nth \in 1 .. FileCount + 1 /\ header = Ram.place[Nth]
             /\ Decoding => Nth <= FileCount

(* The headers are as they were, but for the slashes. *)
HeaderOf(n, stripped) ==
  [name |-> Name(IF stripped THEN Ram.files[n].path ELSE Disk!Recorded(Ram.files[n])),
   numeral |-> Ram.header[Ram.place[n]].numeral, type |-> Ram.files[n].type]

NamesInv ==
  IsArchive => /\ DOMAIN ram = DOMAIN Ram.header
               /\ \A n \in 1 .. FileCount : ram[Ram.place[n]] = HeaderOf(n, n <= Stripped)

(* What is decoded and what the digits left are worth add up to the size. *)
Remainder(size, numeral) ==
  \E part \in [0 .. Digits -> 0 .. size] :
    /\ part[0] = 0 /\ \A n \in 1 .. Digits : part[n] = 8 * part[n - 1] + numeral[n]
    /\ size = ret + weight * part[digit]

DecodeInv ==
  Decoding => /\ digit \in 0 .. Digits /\ weight \in Nat /\ ret \in Nat
              /\ Remainder(Ram.files[Nth].size, Ram.header[Ram.place[Nth]].numeral)

EntryOf(n) == [Path |-> Ram.place[n], LinksTo |-> 0, FileSize |-> Ram.files[n].size,
               Type |-> Ram.files[n].type, FileAddress |-> Ram.place[n] + Block]

ListInv ==
  /\ Elements(Files, Entries)
  /\ IsArchive => Files.count <= FileCount
  /\ ~IsArchive \/ stage = "map" => Files.count = 0
  /\ \A n \in 1 .. Files.count : Disk!At(Files, n - 1) = EntryOf(n)
  /\ stage = "end" => Files.count = Len(Disk!Archived)

RamInv == StageInv /\ MapInv /\ WalkInv /\ NamesInv /\ DecodeInv /\ ListInv

LEMMA RamInit == BootInit => RamInv
<1> SUFFICES ASSUME BootInit PROVE RamInv
  OBVIOUS
<1> USE DEF BootInit, Disk!Init
<1>1. Elements(Modules, Addresses) /\ Elements(Files, Entries) /\ Modules.count = 0 /\ Files.count = 0
  BY NewVectorIsOne DEF Addresses, Entries
<1>2. StageInv
  BY DEF StageInv
<1>3. MapInv
  <2>1. offset = PageBytes * 0
    BY Constants
  <2>. QED
    BY <1>1, <2>1 DEF MapInv
<1>4. WalkInv /\ NamesInv /\ DecodeInv
  BY DEF WalkInv, NamesInv, DecodeInv, Walking, Decoding, IsArchive
<1>5. ListInv
  <2>1. 1 .. Files.count = {} /\ stage = "wait" /\ ~IsArchive
    BY <1>1 DEF IsArchive
  <2>. QED
    BY <1>1, <2>1 DEF ListInv
<1>. QED
  BY <1>2, <1>3, <1>4, <1>5 DEF RamInv

-----------------------------------------------------------------------------
(* Before the walk *)

LEMMA BeginStep == ASSUME RamInv, Disk!Begin PROVE RamInv'
<1>1. /\ stage = "wait" /\ response = << >> /\ nth = 0 /\ offset = 0
      /\ response' \in Responses
      /\ stage' = IF response' = << >> THEN "end" ELSE "map"
      /\ ram' = IF response' # << >> /\ response'[1].ustar THEN response'[1].header ELSE << >>
      /\ UNCHANGED << nth, offset, modMapped, modTouched, Modules, Files >>
  BY DEF Disk!Begin, Disk!Goto, RamInv, StageInv
<1>2. Files.count = 0
  BY <1>1 DEF RamInv, ListInv, IsArchive
<1>3. StageInv'
  BY <1>1 DEF StageInv
<1>4. MapInv'
  <2>1. offset = PageBytes * 0
    BY <1>1, Constants
  <2>. QED
    BY <1>1, <2>1 DEF RamInv, MapInv
<1>5. WalkInv' /\ DecodeInv'
  BY <1>1 DEF WalkInv, DecodeInv, Walking, Decoding
<1>6. NamesInv'
  <2> SUFFICES ASSUME IsArchive' PROVE NamesInv'
    BY DEF NamesInv
  <2> DEFINE mod == response'[1]
  <2>1. response' # << >> /\ mod.ustar /\ ram' = mod.header /\ Stripped' = 0 /\ Files'.count = 0
    BY <1>1, <1>2 DEF IsArchive, Ram, Stripped
  <2>2. Disk!ModuleOK(mod)
    BY <1>1, <2>1, ResponseFacts
  <2> HIDE DEF mod
  <2>3. ASSUME NEW n \in 1 .. Len(mod.files)
        PROVE  ram'[mod.place[n]] =
                 [name |-> Name(IF n <= 0 THEN mod.files[n].path ELSE Disk!Recorded(mod.files[n])),
                  numeral |-> mod.header[mod.place[n]].numeral, type |-> mod.files[n].type]
    <3>1. Disk!Written(mod.files[n], mod.header[mod.place[n]])
      BY <2>1, <2>2, <2>3, ArchiveFacts
    <3>2. ~(n <= 0)
      BY <2>3
    <3>. QED
      BY <2>1, <3>1, <3>2 DEF Disk!Written, Name
  <2>. QED
    BY <2>1, <2>3 DEF NamesInv, HeaderOf, FileCount, Ram, mod
<1>7. ListInv'
  <2>1. 1 .. Files'.count = {} /\ Files'.count = 0 /\ Elements(Files', Entries)
    BY <1>1, <1>2 DEF RamInv, ListInv
  <2>2. IsArchive' => FileCount' \in Nat
    <3>1. ASSUME IsArchive' PROVE FileCount' \in Nat
      <4>1. response' # << >> /\ response'[1].ustar
        BY <3>1 DEF IsArchive, Ram
      <4>2. Disk!ModuleOK(response'[1])
        BY <1>1, <4>1, ResponseFacts
      <4> DEFINE mod == response'[1]
      <4>3. mod.files \in Seq(Disk!File)
        BY <4>1, <4>2, ArchiveFacts
      <4>4. Len(mod.files) \in Nat
        BY <4>3, FileFacts
      <4>. QED
        BY <4>4 DEF FileCount, Ram
    <3>. QED
      BY <3>1
  <2>3. stage' = "end" => Disk!Archived' = << >>
    BY <1>1 DEF Disk!Archived
  <2>. QED
    BY <2>1, <2>2, <2>3 DEF ListInv
<1>. QED
  BY <1>3, <1>4, <1>5, <1>6, <1>7 DEF RamInv

(* What does not change when only the mapping goes on. *)
LEMMA ArchiveUnmoved ==
  ASSUME NamesInv, ListInv, UNCHANGED << response, ram, Files >>,
         stage = "map", stage' \in { "map", "header" }
  PROVE  NamesInv' /\ ListInv'
<1>1. Stripped' = Stripped /\ IsArchive' = IsArchive
  BY DEF Stripped, IsArchive, Ram
<1>2. NamesInv'
  BY <1>1 DEF NamesInv, HeaderOf, FileCount, Ram
<1>3. ListInv'
  <2>1. Files.count = 0 /\ stage' # "end"
    BY DEF ListInv
  <2>. QED
    BY <1>1, <2>1 DEF ListInv, EntryOf, FileCount, Ram
<1>. QED
  BY <1>2, <1>3

LEMMA MapPageStep == ASSUME RamInv, Disk!MapPage PROVE RamInv'
<1>1. /\ stage = "map" /\ stage' = "map" /\ nth < Len(response) /\ response # << >>
      /\ offset < response[nth + 1].size
      /\ modMapped' = modMapped \union { Disk!Page(response[nth + 1].base + offset) }
      /\ offset' = offset + PageBytes
      /\ UNCHANGED << response, nth, modTouched, Modules, Files, ram >>
  BY DEF Disk!MapPage, Disk!Current, RamInv, StageInv
<1>2. StageInv' /\ WalkInv' /\ DecodeInv'
  BY <1>1 DEF RamInv, StageInv, WalkInv, DecodeInv, Walking, Decoding
<1>3. NamesInv' /\ ListInv'
  BY <1>1, ArchiveUnmoved DEF RamInv
<1>4. MapInv'
  <2>1. PICK q \in Nat : offset = PageBytes * q
    BY DEF RamInv, MapInv
  <2>2. PageBytes \in Nat \ {0}
    BY Constants
  <2>3. q + 1 \in Nat /\ offset' = PageBytes * (q + 1)
    BY <1>1, <2>1, <2>2
  <2>4. ASSUME NEW x \in Nat, x < offset', x < Ram'.size, nth' = 0
        PROVE  Disk!Page(Ram'.base + x) \in modMapped'
    <3>1. Ram' = Ram /\ response \in Responses /\ nth = 0 /\ Ram = response[nth + 1]
      BY <1>1, <2>4 DEF Ram, RamInv, StageInv
    <3>2. CASE x < offset
      BY <1>1, <2>4, <3>1, <3>2 DEF RamInv, MapInv
    <3>3. CASE ~(x < offset)
      <4>1. Ram.base \in Nat /\ Ram.base % PageBytes = 0
        BY <1>1, <3>1, ResponseFacts DEF Ram
      <4>2. PageBytes * q <= x /\ x < PageBytes * q + PageBytes
        BY <1>1, <2>1, <2>2, <2>4, <3>3
      <4>3. Disk!Page(Ram.base + x) = Disk!Page(Ram.base + PageBytes * q)
        BY <4>1, <4>2, SamePage
      <4>. QED
        BY <1>1, <2>1, <3>1, <4>3
    <3>. QED
      BY <3>2, <3>3
  <2>. QED
    BY <1>1, <2>3, <2>4 DEF RamInv, MapInv, Ram
<1>. QED
  BY <1>2, <1>3, <1>4 DEF RamInv

LEMMA ModuleMappedStep == ASSUME RamInv, Disk!ModuleMapped PROVE RamInv'
<1> DEFINE b == response[nth + 1].base
<1>1. /\ stage = "map" /\ stage' = "map" /\ nth < Len(response) /\ response # << >>
      /\ response \in Responses /\ offset >= response[nth + 1].size
      /\ Modules' = Disk!PushBack(Modules, b)
      /\ nth' = nth + 1 /\ offset' = 0
      /\ UNCHANGED << response, modMapped, modTouched, Files, ram >>
  BY DEF Disk!ModuleMapped, Disk!Current, RamInv, StageInv
<1>2. StageInv' /\ WalkInv' /\ DecodeInv'
  BY <1>1 DEF RamInv, StageInv, WalkInv, DecodeInv, Walking, Decoding
<1>3. NamesInv' /\ ListInv'
  BY <1>1, ArchiveUnmoved DEF RamInv
<1>4. nth \in Nat /\ Elements(Modules, Addresses) /\ Modules.count = nth
  BY DEF RamInv, MapInv
<1>5. nth + 1 \in 1 .. Len(response) /\ Len(response) \in Nat
  BY <1>1, <1>4, ResponseFacts
<1>6. b \in Addresses /\ Disk!Garbage \in Addresses /\ response[nth + 1].size \in Nat
  BY <1>1, <1>5, ResponseFacts DEF Addresses
<1>7. /\ Elements(Modules', Addresses) /\ Modules'.count = nth + 1
      /\ Disk!At(Modules', nth) = b
      /\ \A n \in 0 .. nth - 1 : Disk!At(Modules', n) = Disk!At(Modules, n)
  <2> HIDE DEF b
  <2>. QED
    BY <1>1, <1>4, <1>6, FilePushed
<1>8. MapInv'
  <2>1. 0 = PageBytes * 0
    BY Constants
  <2>2. Ram' = Ram
    BY <1>1 DEF Ram
  <2>3. Disk!At(Modules', 0) = Ram.base
    <3>1. CASE nth = 0
      BY <1>7, <3>1 DEF Ram
    <3>2. CASE nth > 0
      BY <1>4, <1>7, <3>2 DEF RamInv, MapInv
    <3>. QED
      BY <1>4, <3>1, <3>2
  <2>4. ASSUME NEW x \in Nat, x < Ram.size
        PROVE  Disk!Page(Ram.base + x) \in modMapped
    <3>1. CASE nth = 0
      <4>1. Ram = response[nth + 1] /\ Ram.size \in Nat
        BY <1>6, <3>1 DEF Ram
      <4>2. PICK q \in Nat : offset = PageBytes * q
        BY DEF RamInv, MapInv
      <4>3. offset \in Nat
        BY <4>2, Constants
      <4>4. x < offset
        BY <1>1, <2>4, <4>1, <4>3
      <4>. QED
        BY <1>1, <2>4, <3>1, <4>4 DEF RamInv, MapInv
    <3>2. CASE nth > 0
      BY <2>4, <3>2 DEF RamInv, MapInv
    <3>. QED
      BY <1>4, <3>1, <3>2
  <2>5. \A x \in Nat : ~(x < offset')
    BY <1>1
  <2>6. modTouched \subseteq modMapped
    BY DEF RamInv, MapInv
  <2>7. nth' \in Nat /\ offset' = PageBytes * 0 /\ response' # << >> /\ Modules'.count = nth'
    BY <1>1, <1>4, <1>7, <2>1
  <2>. QED
    BY <1>1, <1>7, <2>2, <2>3, <2>4, <2>5, <2>6, <2>7 DEF MapInv
<1>. QED
  BY <1>2, <1>3, <1>8 DEF RamInv

(* A block of a module that is mapped. *)
LEMMA BlockMapped ==
  ASSUME NEW a \in Nat, NEW size \in Nat,
         \A x \in Nat : x < size => Disk!Page(a + x) \in modMapped,
         NEW h \in Nat, h >= a, h + Block <= a + size
  PROVE  Disk!Pages(h, Block) \subseteq modMapped
<1>1. Block \in Nat
  BY Constants
<1>2. ASSUME NEW y \in h .. h + Block - 1
      PROVE  Disk!Page(y) \in modMapped
  <2>1. y - a \in Nat /\ y - a < size /\ a + (y - a) = y
    BY <1>1, <1>2
  <2>2. Disk!Page(a + (y - a)) \in modMapped
    BY <2>1
  <2>. QED
    BY <2>1, <2>2
<1>. QED
  BY <1>2 DEF Disk!Pages

(* The first block of any module, however short. *)
LEMMA FirstBlockMapped ==
  ASSUME NEW a \in Nat, a % PageBytes = 0, Disk!Page(a + 0) \in modMapped
  PROVE  Disk!Pages(a, Block) \subseteq modMapped
<1>1. Block \in Nat \ {0} /\ PageBytes \in Nat \ {0} /\ PageBytes % Block = 0
  BY Constants
<1>2. Block <= PageBytes
  <2>1. PageBytes = Block * (PageBytes \div Block) + (PageBytes % Block)
        /\ PageBytes \div Block \in Nat
    BY <1>1, DivMod, DivNat
  <2> DEFINE q == PageBytes \div Block
  <2>2. PageBytes = Block * q /\ q \in Nat
    BY <1>1, <2>1
  <2> HIDE DEF q
  <2>3. q >= 1
    BY <1>1, <2>2
  <2>. QED
    BY <1>1, <2>2, <2>3
<1>3. ASSUME NEW y \in a .. a + Block - 1
      PROVE  Disk!Page(y) \in modMapped
  <2>1. y - a \in Nat /\ a + (y - a) = y /\ PageBytes * 0 = 0
        /\ PageBytes * 0 <= y - a /\ y - a < PageBytes * 0 + PageBytes
    BY <1>1, <1>2, <1>3
  <2>2. Disk!Page(a + (y - a)) = Disk!Page(a + PageBytes * 0)
    BY <2>1, SamePage
  <2>. QED
    BY <2>1, <2>2
<1>. QED
  BY <1>3 DEF Disk!Pages

LEMMA OpenRamdiskStep == ASSUME RamInv, Disk!OpenRamdisk PROVE RamInv'
<1>1. /\ stage = "map" /\ nth = Len(response) /\ response # << >> /\ response \in Responses
      /\ UNCHANGED << response, nth, offset, modMapped, Modules, Files, ram >>
  BY DEF Disk!OpenRamdisk, RamInv, StageInv
<1>2. nth \in Nat \ {0} /\ Disk!ModuleOK(Ram) /\ Ram.base \in Nat \ {0}
      /\ Ram.base % PageBytes = 0 /\ Ram.size \in Nat \ {0} /\ Ram.ustar \in BOOLEAN
  BY <1>1, ResponseFacts DEF Ram
<1>3. /\ Disk!At(Modules, 0) = Ram.base
      /\ \A x \in Nat : x < Ram.size => Disk!Page(Ram.base + x) \in modMapped
  BY <1>2 DEF RamInv, MapInv
<1>4. /\ header' = Ram.base /\ modTouched' = modTouched \union Disk!Pages(Ram.base, Block)
      /\ stage' = IF Ram.ustar THEN "header" ELSE "end"
  BY <1>2, <1>3 DEF Disk!OpenRamdisk, Disk!Access, Disk!Goto, Disk!NULL, Ram
<1>5. StageInv'
  BY <1>1, <1>4 DEF RamInv, StageInv
<1>6. MapInv'
  <2>1. Disk!Page(Ram.base + 0) \in modMapped
    BY <1>2, <1>3
  <2>2. Disk!Pages(Ram.base, Block) \subseteq modMapped
    BY <1>2, <2>1, FirstBlockMapped
  <2>. QED
    BY <1>1, <1>2, <1>4, <2>2 DEF RamInv, MapInv, Ram
<1>7. NamesInv'
  <2>1. Stripped' = Stripped /\ IsArchive' = IsArchive
    BY <1>1, <1>4 DEF Stripped, IsArchive, Ram
  <2>. QED
    BY <1>1, <2>1 DEF RamInv, NamesInv, HeaderOf, FileCount, Ram
<1>8. Files.count = 0
  BY <1>1 DEF RamInv, ListInv
<1>9. ListInv'
  <2>1. stage' = "end" => Disk!Archived' = << >>
    BY <1>1, <1>4 DEF Disk!Archived, Ram
  <2>2. IsArchive' = IsArchive /\ stage' # "map"
    BY <1>1, <1>4 DEF IsArchive, Ram
  <2>. QED
    BY <1>1, <1>8, <2>1, <2>2 DEF RamInv, ListInv, EntryOf, FileCount, Ram
<1>10. WalkInv' /\ DecodeInv'
  <2>1. ~Decoding'
    BY <1>4 DEF Decoding
  <2>2. Walking' => Ram.ustar /\ Nth' = 1
    BY <1>1, <1>4, <1>8 DEF Walking, Nth
  <2>3. ASSUME Ram.ustar
        PROVE  FileCount \in Nat /\ Ram.place[1] = Ram.base
    <3>1. Ram.files \in Seq(Disk!File) /\ Disk!LaidOut(Ram)
      BY <1>2, <2>3, ArchiveFacts
    <3>. QED
      BY <3>1, FileFacts DEF FileCount, Disk!LaidOut
  <2>4. Ram' = Ram /\ FileCount' = FileCount
    BY <1>1 DEF Ram, FileCount
  <2>5. Walking' => 1 \in 1 .. FileCount + 1
    BY <2>2, <2>3
  <2>. QED
    BY <1>1, <1>2, <1>4, <2>1, <2>2, <2>3, <2>4, <2>5 DEF WalkInv, DecodeInv, IsArchive
<1>. QED
  BY <1>5, <1>6, <1>7, <1>9, <1>10 DEF RamInv

-----------------------------------------------------------------------------
(* The walk *)

LEMMA WalkFacts ==
  ASSUME RamInv, Walking
  PROVE  /\ response \in Responses /\ response # << >> /\ IsArchive /\ Disk!ModuleOK(Ram)
         /\ Disk!LaidOut(Ram) /\ Ram.files \in Seq(Disk!File)
         /\ FileCount \in Nat /\ Files.count \in Nat /\ Nth \in 1 .. FileCount + 1
         /\ header \in Nat /\ header = Ram.place[Nth]
         /\ Disk!Pages(header, Block) \subseteq modMapped
<1>1. /\ response \in Responses /\ response # << >> /\ IsArchive /\ Ram.ustar /\ nth > 0
      /\ Nth \in 1 .. FileCount + 1 /\ header = Ram.place[Nth]
  BY DEF RamInv, WalkInv, StageInv, Walking, IsArchive
<1>2. Disk!ModuleOK(Ram)
  BY <1>1, ResponseFacts DEF Ram
<1>3. /\ Disk!LaidOut(Ram) /\ Ram.files \in Seq(Disk!File)
      /\ Ram.base \in Nat \ {0} /\ Ram.size \in Nat
  BY <1>1, <1>2, ArchiveFacts
<1>4. FileCount \in Nat
  BY <1>3, FileFacts DEF FileCount
<1>5. /\ header \in Nat /\ header >= Ram.base /\ header + Block <= Ram.base + Ram.size
  BY <1>1, <1>3, Layout DEF FileCount
<1>6. \A x \in Nat : x < Ram.size => Disk!Page(Ram.base + x) \in modMapped
  BY <1>1 DEF RamInv, MapInv
<1>7. Disk!Pages(header, Block) \subseteq modMapped
  BY <1>3, <1>5, <1>6, BlockMapped
<1>8. Files.count \in Nat
  <2> DEFINE S == Entries
  <2>1. Files.array \in Seq(S) /\ Files.count \in 0 .. Len(Files.array)
    BY DEF RamInv, ListInv, Elements
  <2> HIDE DEF S
  <2>2. Len(Files.array) \in Nat
    BY <2>1
  <2>. QED
    BY <2>1, <2>2
<1>. QED
  BY <1>1, <1>2, <1>3, <1>4, <1>5, <1>7, <1>8

(* The header of a file, and the name in it, before and after its turn. *)
LEMMA AtFile ==
  ASSUME RamInv, Walking, NEW n \in 1 .. FileCount
  PROVE  /\ Ram.place[n] \in DOMAIN ram /\ Ram.place[n] \in Nat
         /\ ram[Ram.place[n]] = HeaderOf(n, n <= Stripped)
         /\ \A s \in BOOLEAN : HeaderOf(n, s).name[1] # 0
         /\ Disk!WithoutSlash(HeaderOf(n, FALSE).name) = HeaderOf(n, TRUE).name
         /\ Ram.files[n].size \in Nat /\ Ram.files[n].type \in Nat
         /\ Disk!IsOctal(Ram.header[Ram.place[n]].numeral, Ram.files[n].size)
         /\ Ram.header[Ram.place[n]].numeral \in [1 .. Digits -> 0 .. 7]
         /\ \A l \in 1 .. FileCount + 1 : l # n => Ram.place[l] # Ram.place[n]
<1>1. /\ Disk!ModuleOK(Ram) /\ Disk!LaidOut(Ram) /\ Ram.ustar /\ FileCount \in Nat /\ IsArchive
      /\ Ram.files \in Seq(Disk!File) /\ Ram.base \in Nat \ {0} /\ Ram.size \in Nat
  BY WalkFacts, ArchiveFacts DEF IsArchive
<1>2. DOMAIN ram = DOMAIN Ram.header /\ ram[Ram.place[n]] = HeaderOf(n, n <= Stripped)
  BY <1>1 DEF RamInv, NamesInv
<1>3. /\ Ram.place[n] \in DOMAIN Ram.header /\ Ram.place[n] \in Nat
      /\ \A l \in 1 .. FileCount + 1 : l # n => Ram.place[l] # Ram.place[n]
  <2>1. n \in 1 .. (Len(Ram.files) + 1) - 1 /\ n \in 1 .. Len(Ram.files) + 1
    BY <1>1 DEF FileCount
  <2>2. /\ \A l \in 1 .. Len(Ram.files) + 1 : Ram.place[l] \in Nat
        /\ \A m, l \in 1 .. Len(Ram.files) + 1 : m < l => Ram.place[m] < Ram.place[l]
        /\ \A l \in 1 .. (Len(Ram.files) + 1) - 1 : Ram.place[l] \in DOMAIN Ram.header
    BY <1>1, Layout
  <2>3. \A l \in 1 .. FileCount + 1 : l # n => Ram.place[l] # Ram.place[n]
    <3>1. TAKE l \in 1 .. FileCount + 1
    <3>2. l \in 1 .. Len(Ram.files) + 1 /\ l \in Nat /\ n \in Nat
      BY <1>1 DEF FileCount
    <3>3. Ram.place[l] \in Nat /\ Ram.place[n] \in Nat
          /\ (n < l => Ram.place[n] < Ram.place[l]) /\ (l < n => Ram.place[l] < Ram.place[n])
      BY <2>1, <2>2, <3>2
    <3>4. l # n => n < l \/ l < n
      BY <3>2
    <3>. QED
      BY <3>3, <3>4
  <2>. QED
    BY <2>1, <2>2, <2>3
<1>4. Ram.files[n] \in Disk!File /\ Ram.files[n].size \in Nat /\ Ram.files[n].type \in Nat
  BY <1>1, FileFacts DEF FileCount
<1>5. Disk!Written(Ram.files[n], Ram.header[Ram.place[n]])
  BY <1>1, ArchiveFacts DEF FileCount
<1>6. /\ Disk!WithoutSlash(Name(Disk!Recorded(Ram.files[n]))) = Name(Ram.files[n].path)
      /\ Name(Disk!Recorded(Ram.files[n]))[1] # 0 /\ Name(Ram.files[n].path)[1] # 0
  BY <1>4, <1>5, SlashRemoved
<1>7. /\ Disk!WithoutSlash(HeaderOf(n, FALSE).name) = HeaderOf(n, TRUE).name
      /\ \A s \in BOOLEAN : HeaderOf(n, s).name[1] # 0
  BY <1>6 DEF HeaderOf
<1>8. /\ Disk!IsOctal(Ram.header[Ram.place[n]].numeral, Ram.files[n].size)
      /\ Ram.header[Ram.place[n]].numeral \in [1 .. Digits -> 0 .. 7]
  BY <1>5 DEF Disk!Written
<1>. QED
  BY <1>2, <1>3, <1>4, <1>7, <1>8

(* DecodeTarNumeral begins. *)
LEMMA DecodingStarts ==
  ASSUME RamInv, Walking, NEW n \in 1 .. FileCount,
         UNCHANGED response, Disk!NextNumeral
  PROVE  /\ digit' \in 0 .. Digits /\ weight' \in Nat /\ ret' \in Nat
         /\ Remainder(Ram.files[n].size, Ram.header[Ram.place[n]].numeral)'
<1>1. digit' = Digits /\ weight' = 1 /\ ret' = 0 /\ Ram' = Ram
  BY DEF Disk!NextNumeral, Ram
<1>2. Digits \in Nat /\ Ram.files[n].size \in Nat
  BY Constants, AtFile
<1> DEFINE size == Ram.files[n].size
           numeral == Ram.header[Ram.place[n]].numeral
<1>3. PICK part \in [0 .. Digits -> 0 .. size] :
        /\ part[0] = 0 /\ part[Digits] = size
        /\ \A l \in 1 .. Digits : part[l] = 8 * part[l - 1] + numeral[l]
  BY AtFile DEF Disk!IsOctal
<1> HIDE DEF size, numeral
<1>4. size = 0 + 1 * part[Digits]
  BY <1>2, <1>3 DEF size
<1>5. Remainder(size, numeral)'
  BY <1>1, <1>3, <1>4 DEF Remainder, size, numeral
<1>. QED
  BY <1>1, <1>2, <1>5 DEF size, numeral

(* What no step of the walk changes. *)
LEMMA WalkGoesOn ==
  ASSUME RamInv, Walking, UNCHANGED << response, nth, offset, modMapped, Modules >>,
         stage' \in { "header", "size", "next", "end" },
         modTouched' \subseteq modTouched \union Disk!Pages(header, Block)
  PROVE  /\ StageInv' /\ MapInv'
         /\ Ram' = Ram /\ FileCount' = FileCount /\ IsArchive' /\ IsArchive
         /\ \A l : EntryOf(l)' = EntryOf(l) /\ Disk!Archived' = Ram.files
         /\ \A l, s : HeaderOf(l, s)' = HeaderOf(l, s)
<1>1. response \in Responses /\ response # << >> /\ Disk!Pages(header, Block) \subseteq modMapped
      /\ IsArchive
  BY WalkFacts
<1>2. Ram' = Ram /\ FileCount' = FileCount /\ IsArchive' /\ Disk!Archived' = Ram.files
  BY <1>1 DEF Ram, FileCount, IsArchive, Disk!Archived
<1>3. StageInv'
  BY <1>1 DEF StageInv
<1>4. MapInv'
  BY <1>1, <1>2 DEF RamInv, MapInv
<1>5. \A l : EntryOf(l)' = EntryOf(l)
  BY <1>2 DEF EntryOf
<1>6. \A l, s : HeaderOf(l, s)' = HeaderOf(l, s)
  BY <1>2 DEF HeaderOf
<1>. QED
  BY <1>1, <1>2, <1>3, <1>4, <1>5, <1>6

LEMMA ReadHeaderStep == ASSUME RamInv, Disk!ReadHeader PROVE RamInv'
<1>1. /\ stage = "header" /\ Walking /\ stage' \in { "size", "end" }
      /\ modTouched' = modTouched \union Disk!Pages(header, Block)
      /\ UNCHANGED << response, nth, offset, modMapped, Modules, Files, header >>
  BY DEF Disk!ReadHeader, Disk!Access, Disk!Goto, Walking
<1>2. /\ FileCount \in Nat /\ Files.count \in Nat /\ Nth = Files.count + 1 /\ IsArchive
      /\ Nth \in 1 .. FileCount + 1 /\ header = Ram.place[Nth] /\ Stripped = Files.count
  BY <1>1, WalkFacts DEF Nth, Stripped
<1>3. /\ StageInv' /\ MapInv'
      /\ Ram' = Ram /\ FileCount' = FileCount /\ IsArchive'
      /\ \A l : EntryOf(l)' = EntryOf(l) /\ Disk!Archived' = Ram.files
      /\ \A l, s : HeaderOf(l, s)' = HeaderOf(l, s)
  BY <1>1, WalkGoesOn
<1>4. /\ Elements(Files', Entries) /\ Files'.count = Files.count /\ Files.count <= FileCount
      /\ \A l \in 1 .. Files'.count : Disk!At(Files', l - 1) = EntryOf(l)'
  BY <1>1, <1>2, <1>3 DEF RamInv, ListInv
<1>5. CASE Disk!FirstByte(header) = Disk!NUL
  <2>1. stage' = "end" /\ ram' = ram
    BY <1>5 DEF Disk!ReadHeader, Disk!Goto
  <2>2. Files.count = FileCount
    <3>1. ASSUME Nth \in 1 .. FileCount PROVE FALSE
      <4>1. /\ header \in DOMAIN ram /\ ram[header] = HeaderOf(Nth, Nth <= Stripped)
            /\ \A s \in BOOLEAN : HeaderOf(Nth, s).name[1] # 0
        BY <1>1, <1>2, <3>1, AtFile
      <4>2. (Nth <= Stripped) \in BOOLEAN
        OBVIOUS
      <4>3. ram[header].name[1] # 0
        BY <4>1, <4>2
      <4>. QED
        BY <1>5, <4>1, <4>3 DEF Disk!FirstByte, Disk!NUL
    <3>. QED
      BY <1>2, <3>1
  <2>3. WalkInv' /\ DecodeInv'
    BY <2>1 DEF WalkInv, DecodeInv, Walking, Decoding
  <2>4. NamesInv'
    <3>1. Stripped' = Files.count
      BY <1>1, <2>1 DEF Stripped
    <3>. QED
      BY <1>2, <1>3, <2>1, <3>1 DEF RamInv, NamesInv
  <2>5. ListInv'
    <3>1. Len(Disk!Archived') = FileCount
      BY <1>3 DEF FileCount
    <3>. QED
      BY <1>2, <1>3, <1>4, <2>1, <2>2, <3>1 DEF ListInv
  <2>. QED
    BY <1>3, <2>3, <2>4, <2>5 DEF RamInv
<1>6. CASE Disk!FirstByte(header) # Disk!NUL
  <2>1. /\ stage' = "size" /\ Disk!NextNumeral /\ header \in DOMAIN ram
        /\ ram' = [ram EXCEPT ![header].name = Disk!WithoutSlash(@)]
    BY <1>6 DEF Disk!ReadHeader, Disk!Goto, Disk!FirstByte
  <2>2. PICK n : n = Nth
    OBVIOUS
  <2>3. n \in 1 .. FileCount
    <3>1. ASSUME n = FileCount + 1 PROVE FALSE
      <4>1. Disk!LaidOut(Ram) /\ Ram.files \in Seq(Disk!File) /\ Ram.base \in Nat \ {0}
            /\ Ram.size \in Nat /\ DOMAIN ram = DOMAIN Ram.header
        <5>1. Disk!ModuleOK(Ram) /\ Ram.ustar
          BY <1>1, WalkFacts DEF IsArchive
        <5>. QED
          BY <1>2, <5>1, ArchiveFacts DEF RamInv, NamesInv
      <4>2. Ram.place[Len(Ram.files) + 1] \notin DOMAIN Ram.header
        BY <4>1, Layout
      <4>. QED
        BY <1>2, <2>1, <2>2, <3>1, <4>1, <4>2 DEF FileCount
    <3>. QED
      BY <1>2, <2>2, <3>1
  <2>4. Nth' = n /\ Stripped' = n /\ n = Files.count + 1 /\ ~(n <= Stripped)
    BY <1>1, <1>2, <2>1, <2>2 DEF Nth, Stripped
  <2>5. /\ ram[header] = HeaderOf(n, FALSE) /\ DOMAIN ram = DOMAIN Ram.header
        /\ Disk!WithoutSlash(HeaderOf(n, FALSE).name) = HeaderOf(n, TRUE).name
        /\ \A l \in 1 .. FileCount + 1 : l # n => Ram.place[l] # header
    <3>1. (n <= Stripped) = FALSE
      BY <1>2, <2>4
    <3>2. ram[Ram.place[n]] = HeaderOf(n, n <= Stripped)
      BY <1>1, <2>3, AtFile
    <3>3. ram[header] = HeaderOf(n, FALSE)
      BY <1>2, <2>2, <3>1, <3>2
    <3>. QED
      BY <1>1, <1>2, <2>2, <2>3, <3>3, AtFile DEF RamInv, NamesInv
  <2>6. NamesInv'
    <3>1. DOMAIN ram' = DOMAIN Ram.header
      BY <2>1, <2>5
    <3>2. ram'[header] = HeaderOf(n, TRUE)
      <4>1. ram'[header] = [ram[header] EXCEPT !.name = Disk!WithoutSlash(@)]
        BY <2>1
      <4>. QED
        BY <2>5, <4>1 DEF HeaderOf
    <3>3. ASSUME NEW l \in 1 .. FileCount
          PROVE  ram'[Ram.place[l]] = HeaderOf(l, l <= n)
      <4>1. CASE l = n
        <5>1. (l <= n) = TRUE
          BY <1>2, <4>1
        <5>. QED
          BY <1>2, <2>2, <3>2, <4>1, <5>1
      <4>2. CASE l # n
        <5>1. Ram.place[l] # header /\ (l <= n) = (l <= Stripped)
          BY <1>2, <2>4, <2>5, <4>2
        <5>2. ram[Ram.place[l]] = HeaderOf(l, l <= Stripped) /\ Ram.place[l] \in DOMAIN ram
          BY <1>1, <1>2, AtFile
        <5>. QED
          BY <2>1, <5>1, <5>2
      <4>. QED
        BY <4>1, <4>2
    <3>. QED
      BY <1>3, <2>4, <3>1, <3>3 DEF NamesInv
  <2>7. WalkInv'
    <3>1. nth > 0
      BY <1>1 DEF RamInv, WalkInv
    <3>. QED
      BY <1>1, <1>2, <1>3, <2>2, <2>3, <2>4, <3>1 DEF WalkInv
  <2>8. DecodeInv'
    <3>1. /\ digit' \in 0 .. Digits /\ weight' \in Nat /\ ret' \in Nat
          /\ Remainder(Ram.files[n].size, Ram.header[Ram.place[n]].numeral)'
      BY <1>1, <2>1, <2>3, DecodingStarts
    <3>. QED
      BY <2>4, <3>1 DEF DecodeInv
  <2>9. ListInv'
    BY <1>2, <1>3, <1>4, <2>1 DEF ListInv
  <2>. QED
    BY <1>3, <2>6, <2>7, <2>8, <2>9 DEF RamInv
<1>. QED
  BY <1>5, <1>6

LEMMA DigitAdds ==
  ASSUME NEW r \in Nat, NEW w \in Nat, NEW d \in Nat, NEW p \in Nat
  PROVE  /\ r + w * (8 * p + d) = (r + d * w) + (w * 8) * p
         /\ r + d * w \in Nat /\ w * 8 \in Nat
<1>1. w * (8 * p + d) = (w * 8) * p + d * w
  OBVIOUS
<1>2. w * (8 * p + d) \in Nat /\ d * w \in Nat /\ (w * 8) * p \in Nat /\ w * 8 \in Nat
  OBVIOUS
<1>. QED
  BY <1>1, <1>2

LEMMA DecodeStep == ASSUME RamInv, Disk!DecodeTarNumeral PROVE RamInv'
<1>1. /\ Walking /\ Decoding /\ digit > 0 /\ stage \in { "size", "next" }
      /\ ret' = ret + ram[header].numeral[digit] * weight
      /\ weight' = weight * 8
      /\ digit' = digit - 1
      /\ UNCHANGED << response, stage, nth, offset, modMapped, modTouched, Modules, Files,
                      ram, header >>
  BY DEF Disk!DecodeTarNumeral, Walking, Decoding
<1>2. PICK n : n = Nth
  OBVIOUS
<1>3. n \in 1 .. FileCount /\ header = Ram.place[n] /\ IsArchive
  <2>1. Nth \in 1 .. FileCount + 1 /\ header = Ram.place[Nth] /\ FileCount \in Nat /\ IsArchive
    BY <1>1, WalkFacts
  <2>2. Nth <= FileCount
    BY <1>1 DEF RamInv, WalkInv
  <2>. QED
    BY <1>2, <2>1, <2>2
<1>4. /\ StageInv' /\ MapInv'
      /\ Ram' = Ram /\ FileCount' = FileCount /\ IsArchive'
      /\ \A l : EntryOf(l)' = EntryOf(l) /\ Disk!Archived' = Ram.files
      /\ \A l, s : HeaderOf(l, s)' = HeaderOf(l, s)
  BY <1>1, WalkGoesOn
<1>5. Nth' = n /\ Stripped' = Stripped /\ Walking' = Walking /\ Decoding' = Decoding
  BY <1>1, <1>2 DEF Nth, Stripped, Walking, Decoding
<1>6. WalkInv'
  BY <1>1, <1>2, <1>4, <1>5 DEF RamInv, WalkInv
<1>7. NamesInv'
  BY <1>1, <1>3, <1>4, <1>5 DEF RamInv, NamesInv
<1>8. ListInv'
  BY <1>1, <1>3, <1>4 DEF RamInv, ListInv
<1>9. DecodeInv'
  <2> DEFINE size == Ram.files[n].size
             numeral == Ram.header[Ram.place[n]].numeral
             d == digit
             w == weight
             r == ret
  <2>1. ram[header].numeral = numeral /\ numeral \in [1 .. Digits -> 0 .. 7] /\ size \in Nat
    <3>1. ram[header] = HeaderOf(n, n <= Stripped)
      BY <1>1, <1>3, AtFile
    <3>. QED
      BY <1>1, <1>3, <3>1, AtFile, SMTT(60) DEF HeaderOf
  <2>2. d \in 1 .. Digits /\ w \in Nat /\ r \in Nat /\ Remainder(size, numeral)
    BY <1>1, <1>2 DEF RamInv, DecodeInv
  <2>3. PICK part \in [0 .. Digits -> 0 .. size] :
          /\ part[0] = 0 /\ \A l \in 1 .. Digits : part[l] = 8 * part[l - 1] + numeral[l]
          /\ size = r + w * part[d]
    BY <2>2 DEF Remainder
  <2>4. r' = r + numeral[d] * w /\ w' = w * 8 /\ d' = d - 1
    BY <1>1, <2>1
  <2>10. size' = size /\ numeral' = numeral
    BY <1>4
  <2> HIDE DEF size, numeral, d, w, r
  <2>5. Digits \in Nat /\ d - 1 \in 0 .. Digits
    BY <2>2, Constants
  <2>6. part[d - 1] \in Nat /\ numeral[d] \in Nat
    <3>1. part[d - 1] \in 0 .. size
      BY <2>3, <2>5
    <3>2. numeral[d] \in 0 .. 7
      BY <2>1, <2>2
    <3>. QED
      BY <2>1, <3>1, <3>2
  <2>7. part[d] = 8 * part[d - 1] + numeral[d]
    BY <2>2, <2>3
  <2>8. /\ size = (r + numeral[d] * w) + (w * 8) * part[d - 1]
        /\ r + numeral[d] * w \in Nat /\ w * 8 \in Nat
    <3> DEFINE q == part[d - 1]
               c == numeral[d]
    <3>1. size = r + w * (8 * q + c)
      BY <2>3, <2>7
    <3>2. q \in Nat /\ c \in Nat /\ r \in Nat /\ w \in Nat
      BY <2>2, <2>6
    <3> HIDE DEF q, c
    <3>3. /\ r + w * (8 * q + c) = (r + c * w) + (w * 8) * q
          /\ r + c * w \in Nat /\ w * 8 \in Nat
      BY <3>2, DigitAdds
    <3>. QED
      BY <3>1, <3>3 DEF q, c
  <2>9. /\ d' \in 0 .. Digits /\ w' \in Nat /\ r' \in Nat
        /\ size = r' + w' * part[d']
    BY <2>4, <2>5, <2>8
  <2>11. Remainder(size, numeral)'
    BY <2>3, <2>9, <2>10 DEF Remainder, d, w, r
  <2>. QED
    BY <1>4, <1>5, <2>9, <2>11 DEF DecodeInv, d, w, r, size, numeral
<1>. QED
  BY <1>4, <1>6, <1>7, <1>8, <1>9 DEF RamInv

(* With no digits left, the number is the size. *)
LEMMA Decoded ==
  ASSUME RamInv, Decoding, digit = 0
  PROVE  ret = Ram.files[Nth].size /\ ret \in Nat
<1>1. PICK part \in [0 .. Digits -> 0 .. Ram.files[Nth].size] :
        part[0] = 0 /\ Ram.files[Nth].size = ret + weight * part[digit]
  BY DEF RamInv, DecodeInv, Remainder
<1>2. ret \in Nat /\ weight \in Nat
  BY DEF RamInv, DecodeInv
<1>3. Ram.files[Nth].size = ret + weight * 0
  BY <1>1
<1>. QED
  BY <1>2, <1>3

LEMMA PushFileStep == ASSUME RamInv, Disk!PushFile PROVE RamInv'
<1> DEFINE e == [Path |-> header, LinksTo |-> 0, FileSize |-> ret,
                 Type |-> ram[header].type, FileAddress |-> header + Block]
<1>1. /\ Walking /\ Decoding /\ digit = 0 /\ stage = "size" /\ stage' = "next"
      /\ Files' = Disk!PushBack(Files, e) /\ Disk!NextNumeral
      /\ UNCHANGED << response, nth, offset, modMapped, modTouched, Modules, ram, header >>
  BY DEF Disk!PushFile, Disk!Goto, Disk!NULL, Walking, Decoding
<1>2. PICK n : n = Nth
  OBVIOUS
<1>3. /\ FileCount \in Nat /\ n \in 1 .. FileCount /\ header = Ram.place[n] /\ IsArchive
      /\ header \in Nat /\ Files.count \in Nat /\ n = Files.count + 1 /\ Stripped = n
  <2>1. /\ Nth \in 1 .. FileCount + 1 /\ header = Ram.place[Nth] /\ FileCount \in Nat /\ IsArchive
        /\ header \in Nat /\ Files.count \in Nat
    BY <1>1, WalkFacts
  <2>2. Nth <= FileCount
    BY <1>1 DEF RamInv, WalkInv
  <2>. QED
    BY <1>1, <1>2, <2>1, <2>2 DEF Nth, Stripped
<1>4. /\ StageInv' /\ MapInv'
      /\ Ram' = Ram /\ FileCount' = FileCount /\ IsArchive'
      /\ \A l : EntryOf(l)' = EntryOf(l) /\ Disk!Archived' = Ram.files
      /\ \A l, s : HeaderOf(l, s)' = HeaderOf(l, s)
  BY <1>1, WalkGoesOn
<1>5. e = EntryOf(n) /\ e \in Entries /\ Disk!Garbage \in Entries
  <2>1. ret = Ram.files[n].size /\ ret \in Nat
    BY <1>1, <1>2, Decoded
  <2>2. ram[header] = HeaderOf(n, n <= Stripped) /\ Ram.files[n].type \in Nat
    BY <1>1, <1>3, AtFile
  <2>3. ram[header].type = Ram.files[n].type
    BY <2>2 DEF HeaderOf
  <2>4. e = EntryOf(n)
    BY <1>3, <2>1, <2>3 DEF EntryOf
  <2>5. header + Block \in Nat
    BY <1>3, Constants
  <2>. QED
    BY <1>3, <2>1, <2>2, <2>3, <2>4, <2>5 DEF Entries
<1>6. /\ Elements(Files', Entries) /\ Files'.count = n
      /\ \A l \in 1 .. n : Disk!At(Files', l - 1) = EntryOf(l)
  <2> HIDE DEF e
  <2>1. Elements(Files, Entries) /\ \A l \in 1 .. Files.count : Disk!At(Files, l - 1) = EntryOf(l)
    BY DEF RamInv, ListInv
  <2>2. /\ Elements(Files', Entries) /\ Files'.count = Files.count + 1
        /\ Disk!At(Files', Files.count) = e
        /\ \A l \in 0 .. Files.count - 1 : Disk!At(Files', l) = Disk!At(Files, l)
    <3> DEFINE S == Entries
    <3>1. Elements(Files, S) /\ e \in S /\ Disk!Garbage \in S
      BY <1>5, <2>1
    <3> HIDE DEF S
    <3>2. /\ Elements(Disk!PushBack(Files, e), S)
          /\ Disk!PushBack(Files, e).count = Files.count + 1
          /\ Disk!At(Disk!PushBack(Files, e), Files.count) = e
          /\ \A l \in 0 .. Files.count - 1 : Disk!At(Disk!PushBack(Files, e), l) = Disk!At(Files, l)
      BY <3>1, FilePushed
    <3>. QED
      BY <1>1, <3>2 DEF S
  <2>3. ASSUME NEW l \in 1 .. n
        PROVE  Disk!At(Files', l - 1) = EntryOf(l)
    <3>1. CASE l = n
      <4>1. l - 1 = Files.count
        BY <1>3, <3>1
      <4>. QED
        BY <1>5, <2>2, <3>1, <4>1
    <3>2. CASE l # n
      <4>1. l \in 1 .. Files.count /\ l - 1 \in 0 .. Files.count - 1
        BY <1>3, <3>2
      <4>. QED
        BY <2>1, <2>2, <4>1
    <3>. QED
      BY <3>1, <3>2
  <2>. QED
    BY <1>3, <2>2, <2>3
<1>7. Nth' = n /\ Stripped' = n
  BY <1>1, <1>6 DEF Nth, Stripped
<1>8. WalkInv'
  <2>1. nth' > 0
    BY <1>1 DEF RamInv, WalkInv
  <2>. QED
    BY <1>1, <1>3, <1>4, <1>7, <2>1 DEF WalkInv
<1>9. NamesInv'
  BY <1>1, <1>3, <1>4, <1>7 DEF RamInv, NamesInv
<1>10. DecodeInv'
  <2>1. /\ digit' \in 0 .. Digits /\ weight' \in Nat /\ ret' \in Nat
        /\ Remainder(Ram.files[n].size, Ram.header[Ram.place[n]].numeral)'
    BY <1>1, <1>3, DecodingStarts
  <2>. QED
    BY <1>7, <2>1 DEF DecodeInv
<1>11. ListInv'
  <2>1. Files'.count <= FileCount' /\ stage' # "map" /\ stage' # "end" /\ IsArchive'
    BY <1>1, <1>3, <1>4, <1>6, SMTT(30)
  <2>2. \A l \in 1 .. Files'.count : Disk!At(Files', l - 1) = EntryOf(l)'
    BY <1>4, <1>6
  <2>. QED
    BY <1>6, <2>1, <2>2 DEF ListInv
<1>. QED
  BY <1>4, <1>8, <1>9, <1>10, <1>11 DEF RamInv

LEMMA NextHeaderStep == ASSUME RamInv, Disk!NextHeader PROVE RamInv'
<1>1. /\ Walking /\ Decoding /\ digit = 0 /\ stage = "next" /\ stage' = "header"
      /\ header' = header + Disk!AlignUp(ret + Block, Block)
      /\ UNCHANGED << response, nth, offset, modMapped, modTouched, Modules, Files, ram >>
  BY DEF Disk!NextHeader, Disk!Goto, Walking, Decoding
<1>2. PICK n : n = Nth
  OBVIOUS
<1>3. /\ FileCount \in Nat /\ n \in 1 .. FileCount /\ header = Ram.place[n] /\ IsArchive
      /\ n = Files.count /\ Stripped = n /\ Disk!LaidOut(Ram)
  <2>1. /\ Nth \in 1 .. FileCount + 1 /\ header = Ram.place[Nth] /\ FileCount \in Nat /\ IsArchive
        /\ Disk!LaidOut(Ram)
    BY <1>1, WalkFacts
  <2>2. Nth <= FileCount
    BY <1>1 DEF RamInv, WalkInv
  <2>. QED
    BY <1>1, <1>2, <2>1, <2>2 DEF Nth, Stripped
<1>4. /\ StageInv' /\ MapInv'
      /\ Ram' = Ram /\ FileCount' = FileCount /\ IsArchive'
      /\ \A l : EntryOf(l)' = EntryOf(l) /\ Disk!Archived' = Ram.files
      /\ \A l, s : HeaderOf(l, s)' = HeaderOf(l, s)
  BY <1>1, WalkGoesOn
<1>5. Nth' = n + 1 /\ Stripped' = n /\ ~Decoding'
  BY <1>1, <1>3 DEF Nth, Stripped, Decoding
<1>6. header' = Ram.place[n + 1]
  <2>1. ret = Ram.files[n].size /\ ret \in Nat
    BY <1>1, <1>2, Decoded
  <2>2. Disk!AlignUp(ret + Block, Block) = Block * (1 + Disk!Blocks(ret))
    BY <2>1, StepIsBlocks
  <2>3. Ram.place[n + 1] = Ram.place[n] + Block * (1 + Disk!Blocks(Ram.files[n].size))
    BY <1>3, SMTT(30) DEF Disk!LaidOut, FileCount
  <2>. QED
    BY <1>1, <1>3, <2>1, <2>2, <2>3
<1>7. WalkInv'
  <2>1. nth' > 0 /\ n + 1 \in 1 .. FileCount + 1
    BY <1>1, <1>3 DEF RamInv, WalkInv
  <2>. QED
    BY <1>4, <1>5, <1>6, <2>1 DEF WalkInv
<1>8. NamesInv'
  BY <1>1, <1>3, <1>4, <1>5 DEF RamInv, NamesInv
<1>9. DecodeInv'
  BY <1>5 DEF DecodeInv
<1>10. ListInv'
  BY <1>1, <1>3, <1>4 DEF RamInv, ListInv
<1>. QED
  BY <1>4, <1>7, <1>8, <1>9, <1>10 DEF RamInv

LEMMA RamNext == RamInv /\ [Next]_vars => RamInv'
<1> SUFFICES ASSUME RamInv, [Next]_vars PROVE RamInv'
  OBVIOUS
<1>1. CASE LoadRamdisk
  BY <1>1, BeginStep, MapPageStep, ModuleMappedStep, OpenRamdiskStep, ReadHeaderStep, DecodeStep,
     PushFileStep, NextHeaderStep DEF LoadRamdisk, Disk!Next
<1>2. CASE Step \/ Sleep \/ Woken \/ UNCHANGED vars
  <2>1. UNCHANGED ramdisk
    BY <1>2 DEF Step, Sleep, Woken, vars
  <2>2. UNCHANGED << response, stage, nth, offset, modMapped, modTouched, Modules, Files, ram,
                     header, digit, weight, ret >>
    BY <2>1 DEF ramdisk
  <2>3. StageInv' /\ MapInv' /\ WalkInv'
    BY <2>2 DEF RamInv, StageInv, MapInv, WalkInv, Walking, Decoding, Nth, IsArchive, FileCount,
                Ram
  <2>4. NamesInv'
    BY <2>2 DEF RamInv, NamesInv, HeaderOf, Stripped, IsArchive, FileCount, Ram
  <2>5. DecodeInv'
    BY <2>2 DEF RamInv, DecodeInv, Remainder, Decoding, Nth, Ram
  <2>6. ListInv'
    BY <2>2 DEF RamInv, ListInv, EntryOf, IsArchive, FileCount, Ram, Disk!Archived
  <2>. QED
    BY <2>3, <2>4, <2>5, <2>6 DEF RamInv
<1>. QED
  BY <1>1, <1>2 DEF Next

LEMMA RamAlways == Spec => []RamInv
BY RamInit, RamNext, PTL DEF Spec

-----------------------------------------------------------------------------
(* The kernel reads modules through pages that HandleModuleObjects has
   mapped, also a module that is shorter than a header, and the walk through
   the archive stays inside it and its last step does.  For any number of
   modules and files of any sizes, and any page size. *)
THEOREM RamdiskMapped == Spec => []ModulesMapped
<1>1. RamInv => ModulesMapped
  BY DEF RamInv, MapInv, ModulesMapped, Disk!ModulesMapped
<1>. QED
  BY RamAlways, <1>1, PTL

LEMMA EndFacts ==
  ASSUME RamInv, stage = "end", NEW n \in 1 .. Len(Disk!Archived)
  PROVE  /\ IsArchive /\ Disk!Archived = Ram.files /\ FileCount \in Nat
         /\ Disk!At(Files, n - 1) = EntryOf(n)
         /\ ram[Ram.place[n]].name = Name(Ram.files[n].path)
         /\ Ram.files[n].path \in Seq(Chars) /\ Len(Ram.files[n].path) <= NameMax
         /\ Disk!ContentsOf(n) = Ram.place[n] + Block
<1>1. IsArchive /\ Disk!Archived = Ram.files
  BY DEF Disk!Archived, IsArchive, Ram
<1>2. Disk!ModuleOK(Ram)
  BY <1>1, ResponseFacts DEF RamInv, StageInv, IsArchive, Ram
<1>3. /\ Ram.files \in Seq(Disk!File) /\ n \in 1 .. Len(Ram.files)
      /\ Disk!Written(Ram.files[n], Ram.header[Ram.place[n]])
  BY <1>1, <1>2, ArchiveFacts DEF IsArchive
<1>4. Ram.files[n] \in Disk!File /\ FileCount \in Nat
  BY <1>3, FileFacts DEF FileCount
<1>5. Ram.files[n].path \in Seq(Chars) /\ Len(Ram.files[n].path) <= NameMax
  BY <1>3, <1>4, SlashRemoved
<1>6. Files.count = FileCount /\ Stripped = FileCount
  BY <1>1 DEF RamInv, ListInv, FileCount, Stripped
<1>7. Disk!At(Files, n - 1) = EntryOf(n)
  BY <1>3, <1>6 DEF RamInv, ListInv, FileCount
<1>8. ram[Ram.place[n]].name = Name(Ram.files[n].path)
  <2>1. ram[Ram.place[n]] = HeaderOf(n, n <= Stripped)
    BY <1>1, <1>3 DEF RamInv, NamesInv, FileCount
  <2>2. (n <= Stripped) = TRUE
    BY <1>3, <1>4, <1>6 DEF FileCount
  <2>. QED
    BY <2>1, <2>2 DEF HeaderOf
<1>. QED
  BY <1>1, <1>4, <1>5, <1>7, <1>8 DEF Disk!ContentsOf, Ram

(* The list that TarObject makes is the archive's: every file, in order, with
   its path, without the slash of a directory, its size, decoded digit by
   digit, its type and where its contents are. *)
THEOREM ListOfFiles == Spec => []FilesRight
<1>1. ASSUME RamInv, stage = "end"
      PROVE  Disk!FilesRight
  <2>1. Files.count = Len(Disk!Archived)
    BY <1>1 DEF RamInv, ListInv
  <2>2. ASSUME NEW n \in 1 .. Len(Disk!Archived)
        PROVE  LET f == Disk!Archived[n]
                   file == Disk!At(Files, n - 1)
               IN /\ ram[file.Path].name = Disk!NameField(f.path)
                  /\ file.FileSize = f.size /\ file.Type = f.type
                  /\ file.FileAddress = Disk!ContentsOf(n)
    <3>1. /\ Disk!Archived = Ram.files
          /\ Disk!At(Files, n - 1) = EntryOf(n)
          /\ ram[Ram.place[n]].name = Disk!NameField(Ram.files[n].path)
          /\ Disk!ContentsOf(n) = Ram.place[n] + Block
      BY <1>1, <2>2, EndFacts DEF Name
    <3>2. /\ EntryOf(n).Path = Ram.place[n] /\ EntryOf(n).FileSize = Ram.files[n].size
          /\ EntryOf(n).Type = Ram.files[n].type /\ EntryOf(n).FileAddress = Ram.place[n] + Block
      BY DEF EntryOf
    <3>. QED
      BY <3>1, <3>2
  <2>. QED
    BY <2>1, <2>2 DEF Disk!FilesRight
<1>2. RamInv => FilesRight
  BY <1>1 DEF FilesRight, Disk!FilesRight
<1>. QED
  BY RamAlways, <1>2, PTL

LEMMA GetRight ==
  ASSUME RamInv, stage = "end", NEW p \in Paths
  PROVE  LET same == { n \in 1 .. Len(Disk!Archived) : Disk!Archived[n].path = p }
         IN Disk!Get(p).FileAddress = IF same = {} THEN Disk!NULL
              ELSE Disk!ContentsOf(CHOOSE n \in same : \A l \in same : n <= l)
<1> DEFINE N == Len(Disk!Archived)
           S == { n \in 1 .. N : Disk!Archived[n].path = p }
           Found(n) == Disk!strncmp(ram[Disk!At(Files, n).Path].name, Append(p, Disk!NUL), NameMax) = 0
           F == { n \in 0 .. Disk!Size(Files) - 1 : Found(n) }
<1>1. N \in Nat /\ Disk!Size(Files) = N
  <2>1. N \in Nat /\ N < 65536
    <3>1. CASE IsArchive
      <4>1. Disk!Archived = Ram.files
        BY <3>1 DEF Disk!Archived, IsArchive, Ram
      <4>2. Disk!ModuleOK(Ram) /\ Ram.ustar
        BY <3>1, ResponseFacts DEF RamInv, StageInv, IsArchive, Ram
      <4>3. Disk!LaidOut(Ram) /\ Ram.files \in Seq(Disk!File)
        BY <4>2, ArchiveFacts
      <4>4. Len(Ram.files) \in Nat /\ Len(Ram.files) < 65536
        BY <4>3, FileFacts DEF Disk!LaidOut
      <4>. QED
        BY <4>1, <4>4
    <3>2. CASE ~IsArchive
      BY <3>2 DEF Disk!Archived, IsArchive, Ram
    <3>. QED
      BY <3>1, <3>2
  <2>2. Files.count = N
    BY DEF RamInv, ListInv
  <2> HIDE DEF N
  <2>. QED
    BY <2>1, <2>2 DEF Disk!Size
<1>2. ASSUME NEW n \in 1 .. N
      PROVE  /\ Found(n - 1) <=> Disk!Archived[n].path = p
             /\ Disk!At(Files, n - 1).FileAddress = Disk!ContentsOf(n)
  <2>1. /\ Disk!Archived = Ram.files
        /\ Disk!At(Files, n - 1) = EntryOf(n)
        /\ ram[Ram.place[n]].name = Name(Ram.files[n].path)
        /\ Ram.files[n].path \in Seq(Chars) /\ Len(Ram.files[n].path) <= NameMax
        /\ Disk!ContentsOf(n) = Ram.place[n] + Block
    BY <1>2, EndFacts
  <2>2. Disk!At(Files, n - 1).Path = Ram.place[n]
        /\ Disk!At(Files, n - 1).FileAddress = Disk!ContentsOf(n)
    BY <2>1 DEF EntryOf
  <2>3. p \in Seq(Chars) /\ Len(p) <= NameMax
    BY Constants
  <2>4. Disk!strncmp(Name(Ram.files[n].path), Append(p, Disk!NUL), NameMax) = 0
          <=> Ram.files[n].path = p
    BY <2>1, <2>3, Compares
  <2>. QED
    BY <2>1, <2>2, <2>4
<1>3. Disk!Get(p) = IF F = {} THEN Disk!NoFile ELSE Disk!At(Files, First(F))
  BY DEF Disk!Get, First
<1> HIDE DEF N, Found
<1>4. /\ \A n \in S : n \in 1 .. N /\ n - 1 \in F
      /\ \A n \in F : n \in 0 .. N - 1 /\ n + 1 \in S
  <2>1. ASSUME NEW n \in S PROVE n \in 1 .. N /\ n - 1 \in F
    BY <1>1, <1>2, <2>1
  <2>2. ASSUME NEW n \in F PROVE n \in 0 .. N - 1 /\ n + 1 \in S
    <3>1. n \in 0 .. N - 1 /\ Found(n) /\ n + 1 \in 1 .. N /\ (n + 1) - 1 = n
      BY <1>1, <2>2
    <3>2. Found((n + 1) - 1)
      BY <3>1
    <3>. QED
      BY <1>2, <3>1, <3>2
  <2>. QED
    BY <2>1, <2>2
<1> HIDE DEF S, F
<1>5. CASE S = {}
  <2>1. F = {}
    BY <1>4, <1>5
  <2>2. Disk!Get(p).FileAddress = Disk!NULL
    BY <1>3, <2>1 DEF Disk!NoFile
  <2>. QED
    BY <1>5, <2>2 DEF S, N
<1>6. CASE S # {}
  <2>1. F # {} /\ F \subseteq Nat /\ S \subseteq Nat
    BY <1>1, <1>4, <1>6
  <2>2. PICK b \in S : \A l \in S : b <= l
    BY <1>6, <2>1, Least
  <2>3. First(S) = b
    <3>1. ASSUME NEW c \in S, \A l \in S : c <= l
          PROVE  c = b
      <4>1. c \in Nat /\ b \in Nat /\ c <= b /\ b <= c
        BY <2>1, <2>2, <3>1
      <4>. QED
        BY <4>1
    <3>. QED
      BY <2>2, <3>1 DEF First
  <2>4. b \in 1 .. N /\ b - 1 \in F
    BY <1>4, <2>2
  <2>5. \A l \in F : b - 1 <= l
    <3>1. TAKE l \in F
    <3>2. l + 1 \in S /\ l \in 0 .. N - 1 /\ b <= l + 1
      BY <1>4, <2>2
    <3>. QED
      BY <1>1, <2>4, <3>2
  <2>6. First(F) = b - 1
    <3>1. ASSUME NEW c \in F, \A l \in F : c <= l
          PROVE  c = b - 1
      <4>1. c \in Nat /\ c <= b - 1 /\ b - 1 <= c
        BY <2>1, <2>4, <2>5, <3>1
      <4>. QED
        BY <1>1, <2>4, <4>1
    <3>. QED
      BY <2>4, <2>5, <3>1 DEF First
  <2>7. Disk!Get(p).FileAddress = Disk!ContentsOf(b)
    BY <1>2, <1>3, <2>1, <2>4, <2>6
  <2>. QED
    BY <1>6, <2>3, <2>7 DEF S, N, First
<1>. QED
  BY <1>5, <1>6

(* Get finds a file of the archive by its path and by nothing else, the
   first if there are several, and says so when there is none: comparing the
   name in a header, padded or filling its field, with the path asked for is
   comparing the paths. *)
THEOREM GetByPath == Spec => []GetFindsFirst
<1>1. RamInv => GetFindsFirst
  BY GetRight DEF GetFindsFirst, Disk!GetFindsFirst
<1>. QED
  BY RamAlways, <1>1, PTL
=============================================================================
