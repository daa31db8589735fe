-------------------------------- MODULE Heap --------------------------------
(***************************************************************************)
(* The kernel heap, kernel/src/mm/heap.cpp.                                *)
(*                                                                         *)
(* Memory is an array of 8-byte words.  A block begins with its Node, the  *)
(* words size and next; the caller's object follows.  Blocks that are free *)
(* form a list through their nodes.  Allocate, Free and Reallocate run     *)
(* under three different spinlocks; every access they make to the shared   *)
(* list is a step of its own.  Free pages come from AllocatePage, which is *)
(* given by the sequence of pages it hands to the heap.                    *)
(***************************************************************************)
EXTENDS FreeLists, Sequences

CONSTANTS
  CPUs,        \* execution contexts that call the heap; positive numbers
  MemTop,      \* the last word of memory
  PageWords,   \* words of a page
  PageSeq,     \* pages AllocatePage gives the heap, by their first word
  InitPages,   \* pages InitializeHeap asks for
  Expand,      \* pages FindSuitableNode asks for when nothing fits
  Sizes        \* object sizes the callers ask for, in words

NODE == 2   \* sizeof(Node)
Word == NODE .. MemTop

PageExtent(i) == Extent(PageSeq[i], PageWords)

PagesOK ==
  /\ PageSeq \in Seq(Word)
  /\ \A i \in DOMAIN PageSeq : PageExtent(i) \subseteq Word
  /\ \A i, j \in DOMAIN PageSeq :
        i # j => PageExtent(i) \intersect PageExtent(j) = {}

(* The pages one call of ExpandHeap takes: InitPages by InitializeHeap, then
   Expand at a time. *)
StartsCall(i) == i = 1 \/ (i > InitPages /\ (i - InitPages - 1) % Expand = 0)

(* ExpandHeap presumes that the pages it gets are in a row. *)
Adjacent == \A i \in DOMAIN PageSeq :
              StartsCall(i) \/ PageSeq[i] = PageSeq[i - 1] + PageWords

ASSUME HeapAssumption ==
  /\ CPUs \subseteq Nat \ {0}
  /\ MemTop \in Nat
  /\ PageWords \in Nat /\ PageWords >= NODE
  /\ InitPages \in 1 .. Len(PageSeq)
  /\ Expand \in Nat \ {0}
  /\ Sizes \subseteq Nat \ {0}
  /\ PagesOK /\ Adjacent

VARIABLES
  mem,          \* the words of memory
  head,         \* head.next
  taken,        \* pages AllocatePage has given so far
  mallocLock,   \* malloc_spinlock
  freeLock,     \* free_spinlock
  reallocLock,  \* realloc_spinlock
  pc,           \* where each CPU is
  req,          \* size of Allocate
  cur,          \* current of FindSuitableNode, NULL for the static head
  ret,          \* the node a call allocates
  node,         \* the node InsertNode links
  object,       \* what Reallocate moves, NULL outside it
  objects       \* the objects each CPU's callers own

locks == << mallocLock, freeLock, reallocLock >>
vars == << mem, head, taken, locks, pc, req, cur, ret, node, object, objects >>

SizeOf(n) == mem[n]
NextOf(n) == mem[n + 1]
Goto(c, label) == pc' = [pc EXCEPT ![c] = label]

(* node->size = size; node->next = head.next *)
WriteNode(n, size) == mem' = [mem EXCEPT ![n] = size, ![n + 1] = head]

(* A caller fills words of its object with data of its own. *)
Data(c) == 0 - c
Filled(m, words, c) == [a \in Word |-> IF a \in words THEN Data(c) ELSE m[a]]

NoObject == [at |-> NULL, size |-> 0]

(* A call returns: its locals are gone. *)
Return(c) ==
  /\ Goto(c, "idle")
  /\ req' = [req EXCEPT ![c] = 0]
  /\ cur' = [cur EXCEPT ![c] = NULL]
  /\ ret' = [ret EXCEPT ![c] = NULL]
  /\ node' = [node EXCEPT ![c] = NULL]
  /\ object' = [object EXCEPT ![c] = NoObject]

Init ==
  /\ mem = [a \in Word |-> 0]
  /\ head = NULL
  /\ taken = 0
  /\ mallocLock = FALSE /\ freeLock = FALSE /\ reallocLock = FALSE
  /\ pc = [c \in CPUs |-> "idle"]
  /\ req = [c \in CPUs |-> 0]
  /\ cur = [c \in CPUs |-> NULL]
  /\ ret = [c \in CPUs |-> NULL]
  /\ node = [c \in CPUs |-> NULL]
  /\ object = [c \in CPUs |-> NoObject]
  /\ objects = [c \in CPUs |-> {}]

Booted == taken > 0

(* InitializeHeap, by the boot processor before any other call. *)
InitializeHeap ==
  /\ ~Booted
  /\ taken' = InitPages
  /\ WriteNode(PageSeq[1], InitPages * PageWords)
  /\ head' = PageSeq[1]
  /\ UNCHANGED << locks, pc, req, cur, ret, node, object, objects >>

-----------------------------------------------------------------------------
(* Allocate *)

(* A caller enters Allocate, or Reallocate gets there. *)
AllocAcquire(c) ==
  /\ Booted
  /\ ~mallocLock
  /\ mallocLock' = TRUE
  /\ \/ pc[c] = "idle" /\ \E s \in Sizes : req' = [req EXCEPT ![c] = s]
     \/ pc[c] = "allocWait" /\ UNCHANGED req
  /\ cur' = [cur EXCEPT ![c] = NULL]
  /\ Goto(c, "find")
  /\ UNCHANGED << mem, head, taken, freeLock, reallocLock, ret, node, object, objects >>

(* current->next *)
Candidate(c) == IF cur[c] = NULL THEN head ELSE NextOf(cur[c])

(* Mutant: a block that fits exactly is refused. *)
Fits_Strict(n, size) == SizeOf(n) > NODE + size

Fits(n, size) == SizeOf(n) > size /\ SizeOf(n) >= NODE + size

(* One turn of FindSuitableNode's loop. *)
FindAdvance(c) ==
  /\ pc[c] = "find"
  /\ Candidate(c) # NULL
  /\ ~Fits(Candidate(c), req[c])
  /\ cur' = [cur EXCEPT ![c] = Candidate(c)]
  /\ UNCHANGED << mem, head, taken, locks, pc, req, ret, node, object, objects >>

FindTake(c) ==
  /\ pc[c] = "find"
  /\ Candidate(c) # NULL
  /\ Fits(Candidate(c), req[c])
  /\ ret' = [ret EXCEPT ![c] = Candidate(c)]
  /\ Goto(c, "unlink")
  /\ UNCHANGED << mem, head, taken, locks, req, cur, node, object, objects >>

(* Nothing fits: ExpandHeap takes pages and makes one node of them.  When
   AllocatePage has none left this CPU dies inside it. *)
FindExpand(c) ==
  /\ pc[c] = "find"
  /\ Candidate(c) = NULL
  /\ IF taken + Expand <= Len(PageSeq)
     THEN /\ taken' = taken + Expand
          /\ WriteNode(PageSeq[taken + 1], Expand * PageWords)
          /\ node' = [node EXCEPT ![c] = PageSeq[taken + 1]]
          /\ Goto(c, "publish")
     ELSE Goto(c, "fault") /\ UNCHANGED << mem, taken, node >>
  /\ UNCHANGED << head, locks, req, cur, ret, object, objects >>

(* Mutant: current->next is not advanced past the block. *)
AllocUnlink_Stays(c) ==
  /\ pc[c] = "unlink"
  /\ Goto(c, "split")
  /\ UNCHANGED << mem, head, taken, locks, req, cur, ret, node, object, objects >>

AllocUnlink(c) ==
  /\ pc[c] = "unlink"
  /\ IF cur[c] = NULL
     THEN head' = NextOf(ret[c]) /\ UNCHANGED mem
     ELSE mem' = [mem EXCEPT ![cur[c] + 1] = NextOf(ret[c])] /\ UNCHANGED head
  /\ Goto(c, "split")
  /\ UNCHANGED << taken, locks, req, cur, ret, node, object, objects >>

(* Mutant: only a remainder longer than a node and a word is kept. *)
AllocSplit_DropsRest(c) ==
  /\ pc[c] = "split"
  /\ LET required == NODE + req[c]
         top == ret[c] + required
         extra == SizeOf(ret[c]) - required
     IN IF extra > NODE
        THEN /\ WriteNode(top, extra)
             /\ node' = [node EXCEPT ![c] = top]
             /\ Goto(c, "publish")
        ELSE Goto(c, "finish") /\ UNCHANGED << mem, node >>
  /\ UNCHANGED << head, taken, locks, req, cur, ret, object, objects >>

(* Whatever the block has over what is required becomes a node. *)
AllocSplit(c) ==
  /\ pc[c] = "split"
  /\ LET required == NODE + req[c]
         top == ret[c] + required
         extra == SizeOf(ret[c]) - required
     IN IF extra # 0
        THEN /\ WriteNode(top, extra)
             /\ node' = [node EXCEPT ![c] = top]
             /\ Goto(c, "publish")
        ELSE Goto(c, "finish") /\ UNCHANGED << mem, node >>
  /\ UNCHANGED << head, taken, locks, req, cur, ret, object, objects >>

(* InsertNode's last store.  After ExpandHeap the search starts again. *)
AllocPublish(c) ==
  /\ pc[c] = "publish"
  /\ head' = node[c]
  /\ IF ret[c] = NULL
     THEN Goto(c, "find") /\ cur' = [cur EXCEPT ![c] = NULL]
     ELSE Goto(c, "finish") /\ UNCHANGED cur
  /\ UNCHANGED << mem, taken, locks, req, ret, node, object, objects >>

(* Mutant: ret->size keeps the size of the block that was split. *)
AllocFinish_OldSize(c) ==
  /\ pc[c] = "finish"
  /\ mallocLock' = FALSE
  /\ LET o == [at |-> ret[c] + NODE, size |-> req[c]]
     IN IF object[c] = NoObject
        THEN /\ mem' = Filled(mem, Extent(o.at, o.size), c)
             /\ objects' = [objects EXCEPT ![c] = @ \union {o}]
             /\ Return(c)
        ELSE /\ Goto(c, "copy")
             /\ UNCHANGED << mem, req, cur, ret, node, object, objects >>
  /\ UNCHANGED << head, taken, freeLock, reallocLock >>

(* The node gets its size and the lock goes back.  The object is the
   caller's, which fills it, or Reallocate's. *)
AllocFinish(c) ==
  /\ pc[c] = "finish"
  /\ mallocLock' = FALSE
  /\ LET o == [at |-> ret[c] + NODE, size |-> req[c]]
         sized == [mem EXCEPT ![ret[c]] = NODE + req[c]]
     IN IF object[c] = NoObject
        THEN /\ mem' = Filled(sized, Extent(o.at, o.size), c)
             /\ objects' = [objects EXCEPT ![c] = @ \union {o}]
             /\ Return(c)
        ELSE /\ mem' = sized
             /\ Goto(c, "copy")
             /\ UNCHANGED << req, cur, ret, node, object, objects >>
  /\ UNCHANGED << head, taken, freeLock, reallocLock >>

-----------------------------------------------------------------------------
(* Free *)

(* A caller gives an object back, or Reallocate the one it has moved. *)
FreeAcquire(c) ==
  /\ ~freeLock
  /\ freeLock' = TRUE
  /\ \/ pc[c] = "idle"
     \/ pc[c] = "freeWait"
  /\ \E o \in objects[c] :
        /\ pc[c] = "freeWait" => o = object[c]
        /\ node' = [node EXCEPT ![c] = o.at - NODE]
        /\ objects' = [objects EXCEPT ![c] = @ \ {o}]
  /\ Goto(c, "freeLink")
  /\ UNCHANGED << mem, head, taken, mallocLock, reallocLock, req, cur, ret, object >>

(* Mutant: InsertNode sets head.next before it reads it. *)
FreeLink_Swapped(c) ==
  /\ pc[c] = "freeLink"
  /\ mem' = [mem EXCEPT ![node[c] + 1] = node[c]]
  /\ Goto(c, "freePublish")
  /\ UNCHANGED << head, taken, locks, req, cur, ret, node, object, objects >>

FreeLink(c) ==
  /\ pc[c] = "freeLink"
  /\ WriteNode(node[c], SizeOf(node[c]))
  /\ Goto(c, "freePublish")
  /\ UNCHANGED << head, taken, locks, req, cur, ret, node, object, objects >>

FreePublish(c) ==
  /\ pc[c] = "freePublish"
  /\ head' = node[c]
  /\ freeLock' = FALSE
  /\ IF object[c] = NoObject
     THEN Return(c)
     ELSE Goto(c, "done") /\ UNCHANGED << req, cur, ret, node, object >>
  /\ UNCHANGED << mem, taken, mallocLock, reallocLock, objects >>

-----------------------------------------------------------------------------
(* Reallocate *)

(* The kernel's only caller, Vector::push_back, asks for a larger object. *)
ReallocAcquire(c) ==
  /\ pc[c] = "idle"
  /\ ~reallocLock
  /\ reallocLock' = TRUE
  /\ \E o \in objects[c], s \in Sizes :
        /\ s > o.size
        /\ object' = [object EXCEPT ![c] = o]
        /\ req' = [req EXCEPT ![c] = s]
  /\ Goto(c, "allocWait")
  /\ UNCHANGED << mem, head, taken, mallocLock, freeLock, cur, ret, node, objects >>

(* Mutant: the copy starts at the old node instead of the object. *)
ReallocCopy_FromNode(c) ==
  /\ pc[c] = "copy"
  /\ LET old == object[c].at - NODE
         new == ret[c] + NODE
         oldSize == SizeOf(old) - NODE
     IN mem' = [a \in Word |->
                  IF a \in Extent(new, oldSize) THEN mem[old + (a - new)] ELSE mem[a]]
  /\ Goto(c, "freeWait")
  /\ UNCHANGED << head, taken, locks, req, cur, ret, node, object, objects >>

(* memcpy of as many words as the old node's size says *)
ReallocCopy(c) ==
  /\ pc[c] = "copy"
  /\ LET old == object[c].at
         new == ret[c] + NODE
         oldSize == SizeOf(old - NODE) - NODE
     IN mem' = [a \in Word |->
                  IF a \in Extent(new, oldSize) THEN mem[old + (a - new)] ELSE mem[a]]
  /\ Goto(c, "freeWait")
  /\ UNCHANGED << head, taken, locks, req, cur, ret, node, object, objects >>

(* The lock goes back; the caller fills what the object has grown by. *)
ReallocFinish(c) ==
  /\ pc[c] = "done"
  /\ reallocLock' = FALSE
  /\ LET o == [at |-> ret[c] + NODE, size |-> req[c]]
         old == object[c].size
     IN /\ mem' = Filled(mem, Extent(o.at + old, o.size - old), c)
        /\ objects' = [objects EXCEPT ![c] = @ \union {o}]
  /\ Return(c)
  /\ UNCHANGED << head, taken, mallocLock, freeLock >>

-----------------------------------------------------------------------------
Step(c) ==
  \/ AllocAcquire(c) \/ FindAdvance(c) \/ FindTake(c) \/ FindExpand(c)
  \/ AllocUnlink(c) \/ AllocSplit(c) \/ AllocPublish(c) \/ AllocFinish(c)
  \/ FreeAcquire(c) \/ FreeLink(c) \/ FreePublish(c)
  \/ ReallocAcquire(c) \/ ReallocCopy(c) \/ ReallocFinish(c)

Next == InitializeHeap \/ \E c \in CPUs : Step(c)

Spec == Init /\ [][Next]_vars

InAlloc(c) == pc[c] \in {"find", "unlink", "split", "publish", "finish", "fault"}
InFree(c)  == pc[c] \in {"freeLink", "freePublish"}

(* The discipline of the kernel's callers: no Free runs while an Allocate
   does.  A CPU that died inside touches nothing more. *)
Serial == \A c, d \in CPUs : InAlloc(c) /\ InFree(d) => pc[c] = "fault"

SerialNext == Next /\ Serial'

SerialSpec == Init /\ [][SerialNext]_vars

(* A CPU inside a call keeps executing; nobody is obliged to make a call. *)
Fairness ==
  /\ WF_vars(InitializeHeap)
  /\ \A c \in CPUs : WF_vars(pc[c] # "idle" /\ Step(c) /\ Serial')

FairSerialSpec == SerialSpec /\ Fairness
-----------------------------------------------------------------------------
(* The k-th node of the free list, NULL past its end. *)
Walk[k \in 0 .. MemTop] ==
  IF k = 0 THEN head
  ELSE LET n == Walk[k - 1] IN IF n = NULL THEN NULL ELSE NextOf(n)

FreeNodes == { Walk[k] : k \in 0 .. MemTop } \ {NULL}
FreeWords == UNION { Extent(n, SizeOf(n)) : n \in FreeNodes }

(* The block a call has taken, and the one it is about to link. *)
Claimed(c) ==
  IF ret[c] = NULL \/ pc[c] = "unlink" THEN {}
  ELSE Extent(ret[c], IF pc[c] \in {"split", "publish"} THEN SizeOf(ret[c])
                      ELSE NODE + req[c])
Linking(c) ==
  IF InFree(c) \/ (pc[c] = "publish" /\ ret[c] = NULL)
  THEN Extent(node[c], SizeOf(node[c])) ELSE {}

(* The words a caller's object occupies with its node. *)
Block(o) == Extent(o.at - NODE, NODE + o.size)
Owned(c) == UNION { Block(o) : o \in objects[c] }
InUse(c) == Claimed(c) \union Linking(c) \union Owned(c)

HeapWords == UNION { PageExtent(i) : i \in 1 .. taken }

(* No word of memory serves two purposes: free blocks, blocks of calls in
   progress and the callers' blocks are all apart, nodes included. *)
BlocksApart ==
  /\ \A m, n \in FreeNodes :
        m # n => Extent(m, SizeOf(m)) \intersect Extent(n, SizeOf(n)) = {}
  /\ \A c \in CPUs :
        /\ InUse(c) \intersect FreeWords = {}
        /\ Claimed(c) \intersect Linking(c) = {}
        /\ (Claimed(c) \union Linking(c)) \intersect Owned(c) = {}
        /\ \A o, p \in objects[c] : o # p => Block(o) \intersect Block(p) = {}
  /\ \A c, d \in CPUs : c # d => InUse(c) \intersect InUse(d) = {}

(* The heap's blocks are the pages it was given, no word lost, none taken
   that is not the heap's: splitting, freeing, moving an object or growing
   the heap by several pages at a time changes nothing of that. *)
Conserved == FreeWords \union UNION { InUse(c) : c \in CPUs } = HeapWords

(* The node before every object in use still says how long its block is,
   which Free and Reallocate rely on: the size asked for and the node. *)
HeaderRight ==
  \A c \in CPUs : \A o \in objects[c] : SizeOf(o.at - NODE) = NODE + o.size

(* The heap grows only for a request that no free block can hold with its
   node, and by a block that can, so that the search it starts again
   succeeds, unless the request is for more than one growth gives: only then
   may it grow once more. *)
GrowthNeeded ==
  LET Holds(n, c) == SizeOf(n) >= NODE + req[c] IN
  \A c \in CPUs :
    pc[c] = "publish" /\ ret[c] = NULL =>
      /\ Holds(node[c], c) \/ NODE + req[c] > Expand * PageWords
      /\ \A n \in FreeNodes : ~Holds(n, c)

(* Nobody but its owner writes to an object: each still holds all its owner
   put there, also after Reallocate has moved it. *)
ContentsKept ==
  \A c \in CPUs : \A o \in objects[c] :
    \A a \in Extent(o.at, o.size) : mem[a] = Data(c)

(* The heap keeps its promise to its callers. *)
Promise == INSTANCE HeapAllocator
KeepsPromise == Promise!Spec

(* A search of the list ends, by an object or by the death of its CPU in an
   exhausted allocator: the list never runs in a circle. *)
SearchEnds == \A c \in CPUs : pc[c] = "find" ~> pc[c] \notin {"find", "publish", "unlink"}
=============================================================================
