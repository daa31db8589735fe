-------------------------------- MODULE Acpi --------------------------------
(***************************************************************************)
(* How start-up finds the interrupt controllers: InitializeACPI and        *)
(* GetACPITable of kernel/src/hal/acpi.cpp, InitializeMADT, CalibrateTimer *)
(* and InitializeIOAPIC of hal/cpu/interrupt/apic.cpp, in the order the    *)
(* boot processor runs them.                                               *)
(*                                                                         *)
(* The firmware's tables lie anywhere in physical memory, across pages, in *)
(* memory the bootloader need not have listed: nothing of them is mapped   *)
(* until MemoryMapACPITable has mapped it.  Memory is counted in units of  *)
(* an RSDT entry.                                                          *)
(***************************************************************************)
EXTENDS Vectors, Integers, FiniteSets

CONSTANTS
  PageSize,    \* units of a page
  Header,      \* units of an SDTHeader
  MadtHeader,  \* units of a MADT before its first controller structure
  SizeT,       \* size_t wraps at this
  Firmwares,   \* the machines: where their tables are and what is in them
  IRQ          \* the interrupt to be redirected, the keyboard's

NULL == 0

Page(a) == a \div PageSize
Pages(a, n) == { Page(x) : x \in a .. a + n - 1 }
AlignDown(a) == PageSize * Page(a)

Structure == [type : Nat, length : Nat \ {0}, base : Nat, source : Nat, gsi : Nat]

(* A MADT's controller structures follow one another from its header to its
   end; `offset` says where each begins. *)
LaidOut(t) ==
  /\ t.ics \in Seq(Structure)
  /\ t.offset \in [1 .. Len(t.ics) + 1 -> MadtHeader .. t.length]
  /\ t.offset[1] = MadtHeader /\ t.offset[Len(t.ics) + 1] = t.length
  /\ \A i \in 1 .. Len(t.ics) : t.offset[i + 1] = t.offset[i] + t.ics[i].length

(* A table: its signature, its length, whether its bytes add up to 0, and
   by its kind the RSDT's entries, whether the FADT has a timer that may be
   used, or the MADT's controller structures. *)
TableOK(t) ==
  /\ t.length \in Header .. SizeT - 1
  /\ t.sig = "RSDT" => t.length = Header + Len(t.entries)
  /\ t.sig = "APIC" => LaidOut(t)

FirmwareOK(f) ==
  /\ f.rsdt \in DOMAIN f.table /\ f.table[f.rsdt].sig = "RSDT"
  /\ \A a \in DOMAIN f.table :
        /\ a \in Nat \ {NULL} /\ TableOK(f.table[a])
        /\ f.table[a].entries \in Seq(DOMAIN f.table)

ASSUME AcpiAssumption ==
  /\ PageSize \in Nat \ {0} /\ Header \in Nat \ {0}
  /\ MadtHeader \in Nat /\ MadtHeader >= Header
  /\ SizeT \in Nat \ {0}
  /\ IRQ \in Nat
  /\ \A f \in Firmwares : FirmwareOK(f)

VARIABLES
  fw,          \* the firmware of this machine
  mapped,      \* physical pages mapped at the higher half
  touched,     \* pages the code has accessed there
  pc,          \* where the boot processor is
  tab,         \* tableHeader: the table being mapped
  at,          \* the address a loop is at
  want,        \* Signature of GetACPITable
  index,       \* i of GetACPITable and of CreateRedirectionEntry
  GlobalRSDT, GlobalFADT, GlobalMADT,
  type,        \* Type of FindAllInterruptControllers
  length,      \* what it has left
  k,           \* which structure `current` points to
  ioapics,     \* ioapic_vec
  GlobalISOStructures,
  irq,         \* irq of CreateRedirectionEntry
  redirected   \* entries of the I/O APIC that lead to the keyboard's vector

tables == << GlobalRSDT, GlobalFADT, GlobalMADT >>
vectors == << ioapics, GlobalISOStructures >>
scan == << type, length, k >>
acpi == << fw, mapped, touched, pc, tab, at, want, index, tables, scan, vectors,
           irq, redirected >>

Table(a) == fw.table[a]
EntryCount == Table(GlobalRSDT).length - Header

Init ==
  /\ fw \in Firmwares
  /\ mapped = {} /\ touched = {}
  /\ pc = "start"
  /\ tab = NULL /\ at = 0
  /\ want = "RSDT" /\ index = 0
  /\ GlobalRSDT = NULL /\ GlobalFADT = NULL /\ GlobalMADT = NULL
  /\ type = 0 /\ length = 0 /\ k = 0
  /\ ioapics = NewVector /\ GlobalISOStructures = NewVector
  /\ irq = IRQ /\ redirected = {}

Goto(label) == pc' = label
Access(ps) == touched' = touched \union ps
Map(ps) == mapped' = mapped \union ps

-----------------------------------------------------------------------------
(* MemoryMapACPITable: the header's pages, then those of the whole table *)

(* Mutant: the loops start at the table instead of at its page. *)
MapFrom_Unaligned(a) == tab' = a /\ at' = a /\ Goto("header")

MapFrom(a) == tab' = a /\ at' = AlignDown(a) /\ Goto("header")

SetRSDP ==
  /\ pc = "start"
  /\ MapFrom(fw.rsdt)
  /\ UNCHANGED << fw, mapped, touched, want, index, tables, scan, vectors, irq, redirected >>

MapHeader ==
  /\ pc = "header"
  /\ at < tab + Header
  /\ Map({Page(at)})
  /\ at' = at + PageSize
  /\ UNCHANGED << fw, touched, pc, tab, want, index, tables, scan, vectors, irq, redirected >>

HeaderMapped ==
  /\ pc = "header"
  /\ at >= tab + Header
  /\ Access(Pages(tab, Header))
  /\ at' = AlignDown(tab)
  /\ Goto("table")
  /\ UNCHANGED << fw, mapped, tab, want, index, tables, scan, vectors, irq, redirected >>

MapTable ==
  /\ pc = "table"
  /\ at < tab + Table(tab).length
  /\ Map({Page(at)})
  /\ at' = at + PageSize
  /\ UNCHANGED << fw, touched, pc, tab, want, index, tables, scan, vectors, irq, redirected >>

TableMapped ==
  /\ pc = "table"
  /\ at >= tab + Table(tab).length
  /\ Goto(IF GlobalRSDT = NULL THEN "rsdt" ELSE "compare")
  /\ GlobalRSDT' = IF GlobalRSDT = NULL THEN tab ELSE GlobalRSDT
  /\ UNCHANGED << fw, mapped, touched, tab, at, want, index, GlobalFADT, GlobalMADT, scan,
                  vectors, irq, redirected >>

-----------------------------------------------------------------------------
(* GetACPITable *)

Search(sig) == want' = sig /\ index' = 0 /\ Goto("entry")

NextEntry ==
  /\ pc = "entry"
  /\ index < EntryCount
  /\ Access(Pages(GlobalRSDT + Header + index, 1))
  /\ MapFrom(Table(GlobalRSDT).entries[index + 1])
  /\ UNCHANGED << fw, mapped, want, index, tables, scan, vectors, irq, redirected >>

(* Mutant: an entry that does not match is looked at again. *)
Compare_Stays ==
  /\ pc = "compare"
  /\ Access(Pages(tab, Header))
  /\ Goto(IF Table(tab).sig = want THEN "found" ELSE "entry")
  /\ UNCHANGED << fw, mapped, tab, at, want, index, tables, scan, vectors, irq, redirected >>

Compare ==
  /\ pc = "compare"
  /\ Access(Pages(tab, Header))
  /\ IF Table(tab).sig = want
     THEN Goto("found") /\ UNCHANGED index
     ELSE Goto("entry") /\ index' = index + 1
  /\ UNCHANGED << fw, mapped, tab, at, want, tables, scan, vectors, irq, redirected >>

(* There is no such table: InitializeACPI and InitializeMADT panic. *)
NotFound ==
  /\ pc = "entry"
  /\ index >= EntryCount
  /\ Goto("panic")
  /\ UNCHANGED << fw, mapped, touched, tab, at, want, index, tables, scan, vectors, irq,
                  redirected >>

-----------------------------------------------------------------------------
(* InitializeACPI, InitializeMADT, CalibrateTimer *)

(* SDTChecksum reads the whole table. *)
ChecksumRSDT ==
  /\ pc = "rsdt"
  /\ Access(Pages(GlobalRSDT, Table(GlobalRSDT).length))
  /\ IF Table(GlobalRSDT).sum
     THEN Search("FACP")
     ELSE Goto("panic") /\ UNCHANGED << want, index >>
  /\ UNCHANGED << fw, mapped, tab, at, tables, scan, vectors, irq, redirected >>

(* Mutant: the FADT's checksum is not looked at. *)
FoundFADT_NoChecksum ==
  /\ pc = "found" /\ want = "FACP"
  /\ GlobalFADT' = tab
  /\ Access(Pages(tab, Table(tab).length))
  /\ Search("APIC")
  /\ UNCHANGED << fw, mapped, tab, at, GlobalRSDT, GlobalMADT, scan, vectors, irq, redirected >>

FoundFADT ==
  /\ pc = "found" /\ want = "FACP"
  /\ GlobalFADT' = tab
  /\ Access(Pages(tab, Table(tab).length))
  /\ IF Table(tab).sum
     THEN Search("APIC")
     ELSE Goto("panic") /\ UNCHANGED << want, index >>
  /\ UNCHANGED << fw, mapped, tab, at, GlobalRSDT, GlobalMADT, scan, vectors, irq, redirected >>

(* The local APIC's registers are mapped. *)
InitializeMADT ==
  /\ pc = "found" /\ want = "APIC"
  /\ GlobalMADT' = tab
  /\ Access(Pages(tab, MadtHeader))
  /\ Map({Page(fw.lapic)})
  /\ Goto("calibrate")
  /\ UNCHANGED << fw, tab, at, want, index, GlobalRSDT, GlobalFADT, scan, vectors, irq,
                  redirected >>

(* CalibrateTimer starts the local APIC's timer and calls PMTMRSleep. *)
StartCalibration ==
  /\ pc = "calibrate"
  /\ Access({Page(fw.lapic)} \union Pages(GlobalFADT, Table(GlobalFADT).length))
  /\ Goto("sleep")
  /\ UNCHANGED << fw, mapped, tab, at, want, index, tables, scan, vectors, irq, redirected >>

(* Mutant: the first structure, which MADTHeader contains, is forgotten. *)
FindAll_Short(t) ==
  /\ type' = t
  /\ length' = Table(GlobalMADT).length - MadtHeader - 1
  /\ at' = GlobalMADT + MadtHeader
  /\ k' = 1
  /\ Goto("scan")

(* FindAllInterruptControllers starts at the first structure. *)
FindAll(t) ==
  /\ type' = t
  /\ length' = Table(GlobalMADT).length - MadtHeader
  /\ at' = GlobalMADT + MadtHeader
  /\ k' = 1
  /\ Goto("scan")

(* PMTMRSleep has returned.  SetupAllCPUs panics if it failed, and goes on
   to InitializeIOAPIC, which looks for I/O APICs first. *)
Calibrated(slept) ==
  /\ pc = "sleep"
  /\ IF slept THEN FindAll(1) ELSE Goto("panic") /\ UNCHANGED << at, scan >>
  /\ UNCHANGED << fw, mapped, touched, tab, want, index, tables, vectors, irq, redirected >>

-----------------------------------------------------------------------------
(* InitializeIOAPIC *)

Current == Table(GlobalMADT).ics[k]

(* Mutant: the loop stops before the last structure. *)
FindTurn_OneShort ==
  /\ pc = "scan" /\ length > 0
  /\ Access(Pages(at, 1))
  /\ IF Current.type # type \/ length = Current.length
     THEN UNCHANGED vectors
     ELSE IF type = 1
     THEN ioapics' = PushBack(ioapics, Current) /\ UNCHANGED GlobalISOStructures
     ELSE GlobalISOStructures' = PushBack(GlobalISOStructures, Current) /\ UNCHANGED ioapics
  /\ length' = (length - Current.length) % SizeT
  /\ at' = at + Current.length
  /\ k' = k + 1
  /\ UNCHANGED << fw, mapped, pc, tab, want, index, tables, type, irq, redirected >>

(* One turn of FindAllInterruptControllers' loop. *)
FindTurn ==
  /\ pc = "scan" /\ length > 0
  /\ Access(Pages(at, 1))
  /\ IF Current.type # type
     THEN UNCHANGED vectors
     ELSE IF type = 1
     THEN ioapics' = PushBack(ioapics, Current) /\ UNCHANGED GlobalISOStructures
     ELSE GlobalISOStructures' = PushBack(GlobalISOStructures, Current) /\ UNCHANGED ioapics
  /\ length' = (length - Current.length) % SizeT
  /\ at' = at + Current.length
  /\ k' = k + 1
  /\ UNCHANGED << fw, mapped, pc, tab, want, index, tables, type, irq, redirected >>

(* The I/O APICs are found; without one the kernel panics. *)
IOAPICsFound ==
  /\ pc = "scan" /\ length = 0 /\ type = 1
  /\ IF ioapics.count = 0 THEN Goto("panic") /\ UNCHANGED << at, scan >> ELSE FindAll(2)
  /\ UNCHANGED << fw, mapped, touched, tab, want, index, tables, vectors, irq, redirected >>

(* The overrides are found; the first I/O APIC is mapped. *)
OverridesFound ==
  /\ pc = "scan" /\ length = 0 /\ type = 2
  /\ Map({Page(At(ioapics, 0).base)})
  /\ index' = 0
  /\ Goto("redirect")
  /\ UNCHANGED << fw, touched, tab, at, want, tables, scan, vectors, irq, redirected >>

(* Mutant: the override's place in the list is taken for its GSI. *)
ApplyOverride_Index ==
  /\ pc = "redirect"
  /\ index < GlobalISOStructures.count
  /\ irq' = IF At(GlobalISOStructures, index).source = irq THEN index ELSE irq
  /\ index' = index + 1
  /\ UNCHANGED << fw, mapped, touched, pc, tab, at, want, tables, scan, vectors, redirected >>

(* One turn of CreateRedirectionEntry's loop over the overrides. *)
ApplyOverride ==
  /\ pc = "redirect"
  /\ index < GlobalISOStructures.count
  /\ LET iso == At(GlobalISOStructures, index)
     IN irq' = IF iso.source = irq THEN iso.gsi ELSE irq
  /\ index' = index + 1
  /\ UNCHANGED << fw, mapped, touched, pc, tab, at, want, tables, scan, vectors, redirected >>

(* WriteRedirectionEntry, both halves of the entry. *)
WriteRedirectionEntry ==
  /\ pc = "redirect"
  /\ index >= GlobalISOStructures.count
  /\ Access({Page(At(ioapics, 0).base)})
  /\ redirected' = redirected \union {irq}
  /\ Goto("done")
  /\ UNCHANGED << fw, mapped, tab, at, want, index, tables, scan, vectors, irq >>

-----------------------------------------------------------------------------
(* Every step but the return from PMTMRSleep, which the timer decides. *)
AcpiStep ==
  \/ SetRSDP \/ MapHeader \/ HeaderMapped \/ MapTable \/ TableMapped
  \/ NextEntry \/ Compare \/ NotFound
  \/ ChecksumRSDT \/ FoundFADT \/ InitializeMADT \/ StartCalibration
  \/ FindTurn \/ IOAPICsFound \/ OverridesFound
  \/ ApplyOverride \/ WriteRedirectionEntry
-----------------------------------------------------------------------------
Labels == { "start", "header", "table", "rsdt", "entry", "compare", "found", "calibrate",
            "sleep", "scan", "redirect", "done", "panic" }
Place == DOMAIN fw.table \union {NULL}

AcpiTypeOK ==
  /\ fw \in Firmwares
  /\ pc \in Labels
  /\ tab \in Place /\ at \in Nat
  /\ GlobalRSDT \in Place /\ GlobalFADT \in Place /\ GlobalMADT \in Place
  /\ want \in { "RSDT", "FACP", "APIC" } /\ index \in Nat
  /\ type \in 0 .. 2 /\ k \in Nat
  /\ length \in 0 .. (IF GlobalMADT = NULL THEN 0 ELSE Table(GlobalMADT).length)
  /\ irq \in Nat /\ redirected \subseteq Nat

(* No table, and no register of a device, is accessed through a page that is
   not mapped yet, wherever the firmware has put it and however it lies
   across pages. *)
AccessMapped == touched \subseteq mapped

(* The first table of the RSDT that has the signature, if there is one. *)
RsdtEntries == fw.table[fw.rsdt].entries
Matching(sig) == { n \in DOMAIN RsdtEntries : fw.table[RsdtEntries[n]].sig = sig }
First(ns) == CHOOSE n \in ns : \A l \in ns : n <= l
Listed(sig) == RsdtEntries[First(Matching(sig))]

(* The controller structures of a type among the first n of the MADT. *)
Structures == fw.table[Listed("APIC")].ics
Of(t, n) == { i \in 1 .. n : Structures[i].type = t }

(* The kernel works with the first table of each kind, and gives up only
   where the firmware lacks one, has a damaged one, or has no timer or no
   I/O APIC the kernel can use. *)
Usable ==
  /\ fw.table[fw.rsdt].sum
  /\ Matching("FACP") # {} /\ Matching("APIC") # {}
  /\ fw.table[Listed("FACP")].sum
  /\ fw.table[Listed("FACP")].timer
  /\ Of(1, Len(Structures)) # {}

RightTables ==
  /\ pc = "panic" => ~Usable
  /\ pc = "done" => /\ Usable
                    /\ GlobalFADT = Listed("FACP")
                    /\ GlobalMADT = Listed("APIC")

(* The vector holds those of a type among the first n structures: the one
   that is the first of its type, the second, and so on. *)
Holds(vector, t, n) ==
  /\ vector.count = Cardinality(Of(t, n))
  /\ \A i \in Of(t, n) : At(vector, Cardinality(Of(t, i)) - 1) = Structures[i]

(* The vectors hold the structures of their type, all and in order: the loop
   over them neither stops early nor runs past the table, and growing the
   vectors loses none. *)
ControllersFound ==
  pc \in { "redirect", "done" } =>
    LET all == Len(Structures)
    IN Holds(ioapics, 1, all) /\ Holds(GlobalISOStructures, 2, all)

(* The interrupt is redirected where its source override says, or, without
   one, where it is. *)
Override ==
  LET isos == { i \in Of(2, Len(Structures)) : Structures[i].source = IRQ }
  IN IF isos = {} THEN IRQ ELSE Structures[First(isos)].gsi

OverrideUsed == pc = "done" => redirected = {Override}
=============================================================================
