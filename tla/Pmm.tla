-------------------------------- MODULE Pmm --------------------------------
(***************************************************************************)
(* The physical memory manager, kernel/src/mm/pmm.cpp.                     *)
(*                                                                         *)
(* Addresses are counted in pages.  Free blocks are linked through the     *)
(* pages themselves: the first bytes of a free block hold its size and the *)
(* pointer to the next block, here size[v] and next[v] for the virtual     *)
(* page v.  AllocatePage and FreePage run under two different spinlocks;   *)
(* every access they make to the shared list is a step of its own.         *)
(***************************************************************************)
EXTENDS FreeLists, Sequences

CONSTANTS
  CPUs,      \* execution contexts that call AllocatePage and FreePage
  HHDM,      \* offset of the higher-half direct mapping, in pages
  MemMap     \* the bootloader's memory map, see MemMapOK

USABLE == "usable"

(* limine_memmap_entry, base and length in whole pages; length 0 stands for
   an entry shorter than a page. *)
MemMapOK ==
  /\ MemMap \in Seq([base : Nat, length : Nat, type : {USABLE, "other"}])
  /\ \A i, j \in DOMAIN MemMap :
        i # j => Extent(MemMap[i].base, MemMap[i].length)
                   \intersect Extent(MemMap[j].base, MemMap[j].length) = {}

ASSUME PmmAssumption == HHDM \in Nat \ {0} /\ MemMapOK

(* HHDMPhysToVirt and HHDMVirtToPhys *)
PhysToVirt(phys) == phys + HHDM
VirtToPhys(virt) == virt - HHDM

UsableEntries == { i \in DOMAIN MemMap : MemMap[i].type = USABLE }
EntryPages(i) == Extent(PhysToVirt(MemMap[i].base), MemMap[i].length)
Page   == UNION { EntryPages(i) : i \in UsableEntries }
Frames == { VirtToPhys(v) : v \in Page }

VARIABLES
  entry,       \* i of InitializePMM: the next memory-map entry to take in
  head,        \* head.next
  size, next,  \* the PageNode at the start of each page
  allocLock,   \* PageAlloc_Lock
  freeLock,    \* PageFree_Lock
  pc,          \* where each CPU is
  ret,         \* the page a call works on: ret of RemovePage, virt_page of FreePage
  held         \* the frames lent to each CPU's callers

list == << head, size, next >>
vars == << entry, list, allocLock, freeLock, pc, ret, held >>

Booted == entry > Len(MemMap)
Goto(c, label) == pc' = [pc EXCEPT ![c] = label]

Init ==
  /\ entry = 1
  /\ head = NULL
  /\ size = [v \in Page |-> 0]
  /\ next = [v \in Page |-> NULL]
  /\ allocLock = FALSE
  /\ freeLock = FALSE
  /\ pc = [c \in CPUs |-> "idle"]
  /\ ret = [c \in CPUs |-> NULL]
  /\ held = [c \in CPUs |-> {}]

(* One turn of InitializePMM's loop, before any other call. *)
InitializePMM ==
  /\ ~Booted
  /\ entry' = entry + 1
  /\ LET e == MemMap[entry]
         v == PhysToVirt(e.base)
     IN IF e.type = USABLE /\ e.length >= 1
        THEN /\ size' = [size EXCEPT ![v] = e.length]
             /\ next' = [next EXCEPT ![v] = head]
             /\ head' = v
        ELSE UNCHANGED list
  /\ UNCHANGED << allocLock, freeLock, pc, ret, held >>

-----------------------------------------------------------------------------
(* AllocatePage *)

(* Mutant: PageAlloc_Lock is taken without looking at it. *)
AllocAcquire_Unlocked(c) ==
  /\ Booted
  /\ pc[c] = "idle"
  /\ allocLock' = TRUE
  /\ Goto(c, "take")
  /\ UNCHANGED << entry, list, freeLock, ret, held >>

AllocAcquire(c) ==
  /\ Booted
  /\ pc[c] = "idle"
  /\ ~allocLock
  /\ allocLock' = TRUE
  /\ Goto(c, "take")
  /\ UNCHANGED << entry, list, freeLock, ret, held >>

(* RemovePage reads head.next.  With no block left AllocatePage goes on to
   memset the null page: the page fault halts this CPU inside the lock. *)
AllocTake(c) ==
  /\ pc[c] = "take"
  /\ IF head = NULL
     THEN Goto(c, "fault") /\ UNCHANGED ret
     ELSE Goto(c, "unlink") /\ ret' = [ret EXCEPT ![c] = head]
  /\ UNCHANGED << entry, list, allocLock, freeLock, held >>

(* Mutant: head.next is not advanced. *)
AllocUnlink_Stays(c) ==
  /\ pc[c] = "unlink"
  /\ Goto(c, "split")
  /\ UNCHANGED << entry, list, allocLock, freeLock, ret, held >>

AllocUnlink(c) ==
  /\ pc[c] = "unlink"
  /\ head' = next[ret[c]]
  /\ Goto(c, "split")
  /\ UNCHANGED << entry, size, next, allocLock, freeLock, ret, held >>

(* Mutant: the block is cut to a page and its rest is not linked back. *)
AllocSplit_DropsRest(c) ==
  /\ pc[c] = "split"
  /\ size' = [size EXCEPT ![ret[c]] = 1]
  /\ Goto(c, "finish")
  /\ UNCHANGED << entry, head, next, allocLock, freeLock, ret, held >>

(* Mutant: a block of one page is split as well. *)
AllocSplit_Always(c) ==
  /\ pc[c] = "split"
  /\ LET r == ret[c] IN
       /\ size' = [size EXCEPT ![r + 1] = size[r] - 1]
       /\ next' = [next EXCEPT ![r + 1] = head]
  /\ Goto(c, "publish")
  /\ UNCHANGED << entry, head, allocLock, freeLock, ret, held >>

(* The rest of a block longer than a page becomes a node, not yet linked. *)
AllocSplit(c) ==
  /\ pc[c] = "split"
  /\ LET r == ret[c] IN
     IF size[r] > 1
     THEN /\ size' = [size EXCEPT ![r + 1] = size[r] - 1]
          /\ next' = [next EXCEPT ![r + 1] = head]
          /\ Goto(c, "publish")
     ELSE Goto(c, "finish") /\ UNCHANGED << size, next >>
  /\ UNCHANGED << entry, head, allocLock, freeLock, ret, held >>

(* Mutant: the page itself is linked back instead of the rest behind it. *)
AllocPublish_WrongNode(c) ==
  /\ pc[c] = "publish"
  /\ head' = ret[c]
  /\ size' = [size EXCEPT ![ret[c]] = 1]
  /\ Goto(c, "finish")
  /\ UNCHANGED << entry, next, allocLock, freeLock, ret, held >>

AllocPublish(c) ==
  /\ pc[c] = "publish"
  /\ head' = ret[c] + 1
  /\ size' = [size EXCEPT ![ret[c]] = 1]
  /\ Goto(c, "finish")
  /\ UNCHANGED << entry, next, allocLock, freeLock, ret, held >>

(* Mutant: AllocatePage returns without SpinlockRelease. *)
AllocFinish_KeepsLock(c) ==
  /\ pc[c] = "finish"
  /\ size' = [size EXCEPT ![ret[c]] = 0]
  /\ next' = [next EXCEPT ![ret[c]] = NULL]
  /\ held' = [held EXCEPT ![c] = @ \union {VirtToPhys(ret[c])}]
  /\ Goto(c, "idle")
  /\ UNCHANGED << entry, head, allocLock, freeLock, ret >>

(* memset of the page, the physical address, the release and the return. *)
AllocFinish(c) ==
  /\ pc[c] = "finish"
  /\ size' = [size EXCEPT ![ret[c]] = 0]
  /\ next' = [next EXCEPT ![ret[c]] = NULL]
  /\ held' = [held EXCEPT ![c] = @ \union {VirtToPhys(ret[c])}]
  /\ allocLock' = FALSE
  /\ Goto(c, "idle")
  /\ UNCHANGED << entry, head, freeLock, ret >>

-----------------------------------------------------------------------------
(* FreePage *)

FreeAcquire(c) ==
  /\ pc[c] = "idle"
  /\ ~freeLock
  /\ freeLock' = TRUE
  /\ \E f \in held[c] :
        /\ held' = [held EXCEPT ![c] = @ \ {f}]
        /\ ret' = [ret EXCEPT ![c] = PhysToVirt(f)]
  /\ Goto(c, "freeLink")
  /\ UNCHANGED << entry, list, allocLock >>

FreeLink(c) ==
  /\ pc[c] = "freeLink"
  /\ size' = [size EXCEPT ![ret[c]] = 1]
  /\ next' = [next EXCEPT ![ret[c]] = head]
  /\ Goto(c, "freePublish")
  /\ UNCHANGED << entry, head, allocLock, freeLock, ret, held >>

FreePublish(c) ==
  /\ pc[c] = "freePublish"
  /\ head' = ret[c]
  /\ freeLock' = FALSE
  /\ Goto(c, "idle")
  /\ UNCHANGED << entry, size, next, allocLock, ret, held >>

-----------------------------------------------------------------------------
Step(c) ==
  \/ AllocAcquire(c) \/ AllocTake(c) \/ AllocUnlink(c) \/ AllocSplit(c)
  \/ AllocPublish(c) \/ AllocFinish(c)
  \/ FreeAcquire(c) \/ FreeLink(c) \/ FreePublish(c)

Next == InitializePMM \/ \E c \in CPUs : Step(c)

(* Any CPU may call either operation at any time. *)
Spec == Init /\ [][Next]_vars

InAlloc(c) == pc[c] \in {"take", "unlink", "split", "publish", "finish", "fault"}
InFree(c)  == pc[c] \in {"freeLink", "freePublish"}

(* The discipline the kernel's callers keep today: no FreePage runs while
   an AllocatePage does.  A CPU that died inside touches nothing more. *)
Serial == \A c, d \in CPUs : InAlloc(c) /\ InFree(d) => pc[c] = "fault"

SerialNext == Next /\ Serial'

SerialSpec == Init /\ [][SerialNext]_vars

(* A CPU inside a call keeps executing; nobody is obliged to make a call. *)
Fairness ==
  /\ WF_vars(InitializePMM)
  /\ \A c \in CPUs : WF_vars(pc[c] # "idle" /\ Step(c) /\ Serial')

FairSerialSpec == SerialSpec /\ Fairness
-----------------------------------------------------------------------------
Labels == {"idle", "take", "unlink", "split", "publish", "finish", "fault",
           "freeLink", "freePublish"}

TypeOK ==
  /\ entry \in 1 .. Len(MemMap) + 1
  /\ head \in Page \union {NULL}
  /\ size \in [Page -> Nat]
  /\ next \in [Page -> Page \union {NULL}]
  /\ allocLock \in BOOLEAN /\ freeLock \in BOOLEAN
  /\ pc \in [CPUs -> Labels]
  /\ ret \in [CPUs -> Page \union {NULL}]
  /\ held \in [CPUs -> SUBSET Frames]

(* Pages on the free list, pages a call in progress has to itself, pages
   lent out. *)
FreeNodes == Reach(Page, head, next)
FreePages == Cover(FreeNodes, size)
InFlight(c) ==
  IF pc[c] \in {"split", "publish"} THEN Extent(ret[c], size[ret[c]])
  ELSE IF pc[c] \in {"finish", "freeLink", "freePublish"} THEN { ret[c] }
  ELSE {}
Lent(c) == { PhysToVirt(f) : f \in held[c] }
Owned(c) == InFlight(c) \union Lent(c)

(* The entries InitializePMM has taken in so far. *)
Known == UNION { EntryPages(i) : i \in UsableEntries \intersect 1 .. entry - 1 }

(* No page is in two places: two free blocks never overlap, and a page on
   the free list or with one CPU is with nobody else. *)
NoDoubleUse ==
  /\ NoOverlap(FreeNodes, size)
  /\ \A c \in CPUs : /\ Owned(c) \intersect FreePages = {}
                     /\ InFlight(c) \intersect Lent(c) = {}
  /\ \A c, d \in CPUs : c # d => Owned(c) \intersect Owned(d) = {}

(* No page is lost: whatever the interleaving, every usable page taken in so
   far is on the free list or with a CPU. *)
NoLeak == FreePages \union UNION { Owned(c) : c \in CPUs } = Known

(* One CPU at a time is inside AllocatePage, and one inside FreePage. *)
MutualExclusion ==
  \A c, d \in CPUs : c # d => /\ ~(InAlloc(c) /\ InAlloc(d))
                              /\ ~(InFree(c) /\ InFree(d))

(* The manager keeps its promise to the callers. *)
Promise == INSTANCE PageAllocator
KeepsPromise == Promise!Spec

(* PageAlloc_Lock comes back after every call, unless its holder died on an
   exhausted allocator. *)
LockReturned == allocLock ~> (~allocLock \/ \E c \in CPUs : pc[c] = "fault")

-----------------------------------------------------------------------------
(* The inductive invariant behind the safety properties of SerialSpec. *)

(* A lock is taken while a CPU is in its section, by no other. *)
LockInv ==
  /\ \A c \in CPUs : (InAlloc(c) => allocLock) /\ (InFree(c) => freeLock)
  /\ MutualExclusion

(* No call starts before InitializePMM is done. *)
BootInv == ~Booted => \A c \in CPUs : pc[c] = "idle" /\ held[c] = {}

(* The free list is a simple path of blocks that lie in known memory. *)
BlockInv ==
  /\ IsList(Page, head, next)
  /\ \A n \in FreeNodes : size[n] >= 1

(* What a CPU knows at each point of a call. *)
CallOK(c) ==
  LET r == ret[c] IN
  /\ pc[c] \in {"unlink", "split", "publish", "finish", "freeLink", "freePublish"}
       => r \in Page
  /\ pc[c] = "unlink" => r = head
  /\ pc[c] = "split" => size[r] >= 1
  /\ pc[c] = "publish" => /\ size[r] >= 2
                          /\ size[r + 1] = size[r] - 1
                          /\ next[r + 1] = head
  /\ pc[c] = "freePublish" => size[r] = 1 /\ next[r] = head

CallInv == \A c \in CPUs : CallOK(c)

IInv ==
  /\ TypeOK /\ LockInv /\ BootInv /\ Serial
  /\ BlockInv /\ CallInv /\ NoDoubleUse /\ NoLeak
=============================================================================
