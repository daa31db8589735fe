-------------------------------- MODULE Vmm --------------------------------
(***************************************************************************)
(* The virtual memory manager, kernel/src/hal/vmm.cpp: page tables of four *)
(* levels that MemoryMap walks, making the tables that are missing.        *)
(*                                                                         *)
(* Addresses are counted in pages.  The contexts are the code that starts  *)
(* the kernel and the interrupt handlers that run in the middle of it;     *)
(* nothing locks the tables, so a step is one access to them.              *)
(***************************************************************************)
EXTENDS Integers, Sequences, FiniteSets

CONSTANTS
  N,            \* entries of a page table
  FrameSeq,     \* the pages AllocatePage gives for tables, in their order
  HHDM,         \* offset of the higher-half direct mapping
  KernelSlide,  \* virtual_base - physical_base of the kernel's image
  MemMap,       \* the bootloader's memory map
  Main,         \* the context that starts the kernel
  Contexts,     \* it and the handlers that may interrupt it
  CallsOf       \* CallsOf[c]: the calls c makes once kernelPML4 is set

NULL  == 0
Frames == { FrameSeq[i] : i \in DOMAIN FrameSeq }
Index == 0 .. N - 1
Virt  == 0 .. N * N * N * N - 1
Call  == [virt : Virt, phys : Nat, large : BOOLEAN]
KERNEL == "kernel and modules"

(* The index into the table of a level: MemoryMap's masks and shifts. *)
IndexAt(v, level) ==
  CASE level = 4 -> v \div (N * N * N)
    [] level = 3 -> (v \div (N * N)) % N
    [] level = 2 -> (v \div N) % N
    [] level = 1 -> v % N

(* What InitPaging asks for page j of a memory-map entry. *)
InitCall(e, j) ==
  [virt  |-> e.base + j + (IF e.type = KERNEL THEN KernelSlide ELSE HHDM),
   phys  |-> e.base + j,
   large |-> FALSE]
InitCalls ==
  UNION { { InitCall(MemMap[i], j) : j \in 0 .. MemMap[i].length - 1 } : i \in DOMAIN MemMap }

Calls == InitCalls \union UNION { CallsOf[c] : c \in Contexts }

(* The page a call names, or all of the large page it names. *)
Covers(call, v) == IF call.large THEN v \div N = call.virt \div N ELSE v = call.virt
Target(call, v) == IF call.large THEN call.phys + (v % N) ELSE call.phys

(* How the kernel uses MemoryMap: a page is always mapped to one place, by
   large pages or by small ones; what a handler maps (the reset register, at
   its own address) and what it interrupts (the direct map) lie under
   different entries of the top-level table. *)
CallsOK ==
  /\ Calls \subseteq Call
  /\ \A a, b \in Calls : a.virt \div N = b.virt \div N => a.large = b.large
  /\ \A a, b \in Calls : \A v \in Virt :
        Covers(a, v) /\ Covers(b, v) => Target(a, v) = Target(b, v)
  /\ \A c, d \in Contexts : c # d =>
        \A a \in CallsOf[c], b \in CallsOf[d] :
          IndexAt(a.virt, 4) # IndexAt(b.virt, 4)

ASSUME VmmAssumption ==
  /\ N \in Nat \ {0, 1}
  /\ FrameSeq \in Seq(Nat \ {NULL}) /\ FrameSeq # << >>
  /\ \A i, j \in DOMAIN FrameSeq : FrameSeq[i] = FrameSeq[j] => i = j
  /\ HHDM \in Nat /\ KernelSlide \in Int
  /\ MemMap \in Seq([base : Nat, length : Nat, type : {KERNEL, "other"}])
  /\ Main \in Contexts
  /\ CallsOK

Zero == [present |-> FALSE, phys |-> 0, large |-> FALSE]
EmptyTable == [i \in Index |-> Zero]

VARIABLES
  pte,            \* the page tables, in the frames they are in
  taken,          \* frames AllocatePage has given so far
  pml4,           \* pml4 of InitPaging
  kernelPML4,     \* the map MemoryMap uses, once InitPaging is done
  entry, page,    \* InitPaging's place in the memory map
  pc,             \* where each context is
  call,           \* the arguments of its MemoryMap
  level, table,   \* how far down the tables it is
  new             \* new_entry of GetNextLevel

walk == << call, level, table, new >>
vars == << pte, taken, pml4, kernelPML4, entry, page, pc, walk >>

Goto(c, label) == pc' = [pc EXCEPT ![c] = label]
NoCall == [virt |-> 0, phys |-> 0, large |-> FALSE]

Init ==
  /\ pte = [f \in Frames |-> EmptyTable]
  /\ taken = 0
  /\ pml4 = NULL
  /\ kernelPML4 = NULL
  /\ entry = 1
  /\ page = 0
  /\ pc = [c \in Contexts |-> IF c = Main THEN "start" ELSE "idle"]
  /\ call = [c \in Contexts |-> NoCall]
  /\ level = [c \in Contexts |-> 4]
  /\ table = [c \in Contexts |-> NULL]
  /\ new = [c \in Contexts |-> NULL]

-----------------------------------------------------------------------------
(* AllocatePage gives a cleared page; with none left the CPU dies in it. *)
NextFrame == FrameSeq[taken + 1]
AllocatePage(c, label) ==
  /\ taken < Len(FrameSeq)
  /\ taken' = taken + 1
  /\ pte' = [pte EXCEPT ![NextFrame] = EmptyTable]
  /\ Goto(c, label)
Exhausted(c) ==
  /\ taken = Len(FrameSeq)
  /\ Goto(c, "fault")
  /\ UNCHANGED << pte, taken, pml4, new >>

(* MemoryMap is entered with map m. *)
Enter(c, m, args) ==
  /\ call' = [call EXCEPT ![c] = args]
  /\ level' = [level EXCEPT ![c] = 4]
  /\ table' = [table EXCEPT ![c] = m]
  /\ Goto(c, "walk")
  /\ UNCHANGED new

-----------------------------------------------------------------------------
(* InitPaging *)

InitPml4 ==
  /\ pc[Main] = "start"
  /\ AllocatePage(Main, "init")
  /\ pml4' = NextFrame
  /\ UNCHANGED << kernelPML4, entry, page, walk >>

(* Mutant: the last page of an entry is left out. *)
InitMap_OneShort ==
  /\ pc[Main] = "init"
  /\ entry <= Len(MemMap)
  /\ IF page < MemMap[entry].length - 1
     THEN /\ page' = page + 1
          /\ Enter(Main, pml4, InitCall(MemMap[entry], page))
          /\ UNCHANGED entry
     ELSE /\ entry' = entry + 1
          /\ page' = 0
          /\ UNCHANGED << pc, walk >>
  /\ UNCHANGED << pte, taken, pml4, kernelPML4 >>

(* One turn of the two loops. *)
InitMap ==
  /\ pc[Main] = "init"
  /\ entry <= Len(MemMap)
  /\ IF page < MemMap[entry].length
     THEN /\ page' = page + 1
          /\ Enter(Main, pml4, InitCall(MemMap[entry], page))
          /\ UNCHANGED entry
     ELSE /\ entry' = entry + 1
          /\ page' = 0
          /\ UNCHANGED << pc, walk >>
  /\ UNCHANGED << pte, taken, pml4, kernelPML4 >>

InitDone ==
  /\ pc[Main] = "init"
  /\ entry > Len(MemMap)
  /\ kernelPML4' = pml4
  /\ Goto(Main, "idle")
  /\ UNCHANGED << pte, taken, pml4, entry, page, walk >>

-----------------------------------------------------------------------------
(* MemoryMap *)

(* Without a map to change it returns at once. *)
Begin(c) ==
  /\ pc[c] = "idle"
  /\ kernelPML4 # NULL
  /\ \E args \in CallsOf[c] : Enter(c, kernelPML4, args)
  /\ UNCHANGED << pte, taken, pml4, kernelPML4, entry, page >>

Lowest(c) == IF call[c].large THEN 2 ELSE 1
Slot(c) == IndexAt(call[c].virt, level[c])
Found(c) == pte[table[c]][Slot(c)]

(* GetNextLevel, the table is there. *)
Descend(c) ==
  /\ pc[c] = "walk"
  /\ level[c] > Lowest(c)
  /\ Found(c).present
  /\ table' = [table EXCEPT ![c] = Found(c).phys]
  /\ level' = [level EXCEPT ![c] = @ - 1]
  /\ UNCHANGED << pte, taken, pml4, kernelPML4, entry, page, pc, call, new >>

(* Mutant: a table is made whether there is one or not. *)
MakeTable_Always(c) ==
  /\ pc[c] = "walk"
  /\ level[c] > Lowest(c)
  /\ \/ /\ AllocatePage(c, "link")
        /\ new' = [new EXCEPT ![c] = NextFrame]
        /\ UNCHANGED pml4
     \/ Exhausted(c)
  /\ UNCHANGED << kernelPML4, entry, page, call, level, table >>

(* GetNextLevel, the table has to be made, *)
MakeTable(c) ==
  /\ pc[c] = "walk"
  /\ level[c] > Lowest(c)
  /\ ~Found(c).present
  /\ \/ /\ AllocatePage(c, "link")
        /\ new' = [new EXCEPT ![c] = NextFrame]
        /\ UNCHANGED pml4
     \/ Exhausted(c)
  /\ UNCHANGED << kernelPML4, entry, page, call, level, table >>

(* Mutant: the new table is linked under the next entry. *)
LinkTable_NextSlot(c) ==
  /\ pc[c] = "link"
  /\ pte' = [pte EXCEPT ![table[c]][(Slot(c) + 1) % N] =
               [present |-> TRUE, phys |-> new[c], large |-> @.large]]
  /\ table' = [table EXCEPT ![c] = new[c]]
  /\ level' = [level EXCEPT ![c] = @ - 1]
  /\ new' = [new EXCEPT ![c] = NULL]
  /\ Goto(c, "walk")
  /\ UNCHANGED << taken, pml4, kernelPML4, entry, page, call >>

(* and linked. *)
LinkTable(c) ==
  /\ pc[c] = "link"
  /\ pte' = [pte EXCEPT ![table[c]][Slot(c)] =
               [present |-> TRUE, phys |-> new[c], large |-> @.large]]
  /\ table' = [table EXCEPT ![c] = new[c]]
  /\ level' = [level EXCEPT ![c] = @ - 1]
  /\ new' = [new EXCEPT ![c] = NULL]
  /\ Goto(c, "walk")
  /\ UNCHANGED << taken, pml4, kernelPML4, entry, page, call >>

(* Mutant: PageSize is not set for a large page. *)
SetEntry_NoPageSize(c) ==
  /\ pc[c] = "walk"
  /\ level[c] = Lowest(c)
  /\ pte' = [pte EXCEPT ![table[c]][Slot(c)] =
               [present |-> TRUE, phys |-> call[c].phys, large |-> @.large]]
  /\ Goto(c, "return")
  /\ UNCHANGED << taken, pml4, kernelPML4, entry, page, walk >>

SetEntry(c) ==
  /\ pc[c] = "walk"
  /\ level[c] = Lowest(c)
  /\ pte' = [pte EXCEPT ![table[c]][Slot(c)] =
               [present |-> TRUE, phys |-> call[c].phys,
                large |-> @.large \/ call[c].large]]
  /\ Goto(c, "return")
  /\ UNCHANGED << taken, pml4, kernelPML4, entry, page, walk >>

Return(c) ==
  /\ pc[c] = "return"
  /\ Goto(c, IF kernelPML4 = NULL THEN "init" ELSE "idle")
  /\ call' = [call EXCEPT ![c] = NoCall]
  /\ level' = [level EXCEPT ![c] = 4]
  /\ table' = [table EXCEPT ![c] = NULL]
  /\ UNCHANGED << pte, taken, pml4, kernelPML4, entry, page, new >>

-----------------------------------------------------------------------------
Step(c) ==
  Begin(c) \/ Descend(c) \/ MakeTable(c) \/ LinkTable(c) \/ SetEntry(c) \/ Return(c)

Next == InitPml4 \/ InitMap \/ InitDone \/ \E c \in Contexts : Step(c)

Spec == Init /\ [][Next]_vars
-----------------------------------------------------------------------------
(* The processor's walk of the tables for page v, one table per level. *)
NONE == -1
At(t, v, l) == IF t \in Frames THEN pte[t][IndexAt(v, l)] ELSE Zero
Below(e) == IF e.present THEN e.phys ELSE NULL
Translate(v) ==
  LET e4 == At(pml4, v, 4)
      e3 == At(Below(e4), v, 3)
      e2 == At(Below(e3), v, 2)
      e1 == At(Below(e2), v, 1)
  IN IF e2.present /\ e2.large THEN e2.phys + (v % N)
     ELSE IF e1.present THEN e1.phys ELSE NONE

(* The tables, level by level: a frame that holds one is where the entry of
   a table above leads. *)
Links(ts) == { i \in ts \X Index : pte[i[1]][i[2]].present /\ ~pte[i[1]][i[2]].large }
Under(ts) == { pte[i[1]][i[2]].phys : i \in Links(ts) }
Tables4 == {pml4} \ {NULL}
Tables3 == Under(Tables4)
Tables2 == Under(Tables3)
Tables1 == Under(Tables2)

(* The page tables are a tree of all frames taken: each of them hangs under
   one entry, or a walk is about to link it, and none is lost. *)
TablesAreATree ==
  LET tables == Tables4 \union Tables3 \union Tables2 \union Tables1
      making == { new[c] : c \in Contexts } \ {NULL}
  IN /\ tables \union making = { FrameSeq[i] : i \in 1 .. taken }
     /\ tables \intersect making = {}
     /\ \A c, d \in Contexts : new[c] = new[d] /\ new[c] # NULL => c = d
     /\ Cardinality(tables) =
          Cardinality(Tables4) + Cardinality(Links(Tables4 \union Tables3 \union Tables2))

(* MemoryMap returns with the page it was asked for in the map, whatever
   table a handler made in the middle of its walk. *)
MapsAsAsked ==
  \A c \in Contexts : pc[c] = "return" =>
    \A v \in Virt : Covers(call[c], v) => Translate(v) = Target(call[c], v)

(* When the kernel loads its own map, all of the memory map is in it, and
   nothing takes a page of it away later: code, data and tables stay where
   the kernel finds them. *)
DirectMapStays ==
  kernelPML4 # NULL => \A a \in InitCalls : Translate(a.virt) = a.phys

(* The tables implement the flat map. *)
Promise == INSTANCE PageMap WITH map <- [v \in Virt |-> Translate(v)]
KeepsPromise == Promise!Spec
=============================================================================
