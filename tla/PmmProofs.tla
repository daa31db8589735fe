----------------------------- MODULE PmmProofs -----------------------------
(***************************************************************************)
(* The memory manager never lends a page twice and never loses one, for    *)
(* every memory map and every number of callers, as long as FreePage does  *)
(* not overlap AllocatePage.                                               *)
(***************************************************************************)
EXTENDS Pmm, FreeListsProofs

(* The memory map counts in whole pages. *)
LEMMA EntryNat ==
  ASSUME NEW i \in UsableEntries
  PROVE  MemMap[i].base \in Nat /\ MemMap[i].length \in Nat
<1> DEFINE Entries == [base : Nat, length : Nat, type : {USABLE, "other"}]
<1>1. MemMap \in Seq(Entries) /\ i \in DOMAIN MemMap
  BY PmmAssumption DEF MemMapOK, UsableEntries
<1>2. MemMap[i] \in Entries
  <2>. HIDE DEF Entries
  <2>. QED
    BY <1>1
<1>. QED
  BY <1>2

LEMMA MapLength == Len(MemMap) \in Nat /\ DOMAIN MemMap = 1 .. Len(MemMap)
<1> DEFINE Entries == [base : Nat, length : Nat, type : {USABLE, "other"}]
<1>1. MemMap \in Seq(Entries)
  BY PmmAssumption DEF MemMapOK
<1>. HIDE DEF Entries
<1>. QED
  BY <1>1

(* Direct-mapped pages are positive, so none is the null pointer. *)
LEMMA PageNat == Page \in SUBSET (Nat \ {0}) /\ NULL \notin Page
<1>1. ASSUME NEW i \in UsableEntries
      PROVE  EntryPages(i) \in SUBSET (Nat \ {0})
  <2>1. PhysToVirt(MemMap[i].base) \in Nat \ {0}
    BY EntryNat, PmmAssumption DEF PhysToVirt
  <2>. QED
    BY <2>1, EntryNat DEF EntryPages, Extent
<1>. QED
  BY <1>1 DEF Page, NULL

(* A frame's direct-mapped page, and back. *)
LEMMA FramePage ==
  /\ \A f \in Frames : PhysToVirt(f) \in Page /\ VirtToPhys(PhysToVirt(f)) = f
  /\ \A v \in Page : VirtToPhys(v) \in Frames /\ PhysToVirt(VirtToPhys(v)) = v
BY PageNat, PmmAssumption, SMT DEF Frames, PhysToVirt, VirtToPhys

-----------------------------------------------------------------------------
(* The two locks, under any interleaving of the callers. *)
LEMMA LockStep ==
  ASSUME pc \in [CPUs -> Labels], LockInv, [Next]_vars
  PROVE  pc' \in [CPUs -> Labels] /\ LockInv'
<1> USE DEF LockInv, MutualExclusion, InAlloc, InFree, Labels, Goto
<1>1. CASE InitializePMM
  BY <1>1 DEF InitializePMM
<1>2. ASSUME NEW c \in CPUs, AllocAcquire(c) PROVE pc' \in [CPUs -> Labels] /\ LockInv'
  BY <1>2 DEF AllocAcquire
<1>3. ASSUME NEW c \in CPUs, AllocTake(c) PROVE pc' \in [CPUs -> Labels] /\ LockInv'
  BY <1>3 DEF AllocTake
<1>4. ASSUME NEW c \in CPUs, AllocUnlink(c) PROVE pc' \in [CPUs -> Labels] /\ LockInv'
  BY <1>4 DEF AllocUnlink
<1>5. ASSUME NEW c \in CPUs, AllocSplit(c) PROVE pc' \in [CPUs -> Labels] /\ LockInv'
  BY <1>5 DEF AllocSplit
<1>6. ASSUME NEW c \in CPUs, AllocPublish(c) PROVE pc' \in [CPUs -> Labels] /\ LockInv'
  BY <1>6 DEF AllocPublish
<1>7. ASSUME NEW c \in CPUs, AllocFinish(c) PROVE pc' \in [CPUs -> Labels] /\ LockInv'
  BY <1>7 DEF AllocFinish
<1>8. ASSUME NEW c \in CPUs, FreeAcquire(c) PROVE pc' \in [CPUs -> Labels] /\ LockInv'
  BY <1>8 DEF FreeAcquire
<1>9. ASSUME NEW c \in CPUs, FreeLink(c) PROVE pc' \in [CPUs -> Labels] /\ LockInv'
  BY <1>9 DEF FreeLink
<1>10. ASSUME NEW c \in CPUs, FreePublish(c) PROVE pc' \in [CPUs -> Labels] /\ LockInv'
  BY <1>10 DEF FreePublish
<1>11. CASE UNCHANGED vars
  BY <1>11 DEF vars
<1>. QED
  BY <1>1, <1>2, <1>3, <1>4, <1>5, <1>6, <1>7, <1>8, <1>9, <1>10, <1>11 DEF Next, Step

(* AllocatePage and FreePage each exclude themselves on every CPU, even when
   they overlap one another. *)
THEOREM Exclusion == Spec => []MutualExclusion
<1>1. Init => pc \in [CPUs -> Labels] /\ LockInv
  BY DEF Init, LockInv, MutualExclusion, InAlloc, InFree, Labels
<1>2. pc \in [CPUs -> Labels] /\ LockInv /\ [Next]_vars
        => (pc \in [CPUs -> Labels] /\ LockInv)'
  BY LockStep
<1>3. LockInv => MutualExclusion
  BY DEF LockInv
<1>. QED
  BY <1>1, <1>2, <1>3, PTL DEF Spec

-----------------------------------------------------------------------------
(* Pages in a CPU's hands. *)

(* While a CPU works on a page the others are idle or dead. *)
LEMMA Alone ==
  ASSUME TypeOK, LockInv, Serial, NEW c \in CPUs, pc[c] \notin {"idle", "fault"},
         NEW d \in CPUs, d # c
  PROVE  pc[d] \in {"idle", "fault"}
BY DEF TypeOK, Labels, LockInv, MutualExclusion, Serial, InAlloc, InFree

(* So a step of the one leaves what the others own and know alone. *)
LEMMA OthersKeep ==
  ASSUME IInv, NEW c \in CPUs, pc[c] \notin {"idle", "fault"},
         NEW d \in CPUs, d # c,
         pc'[d] = pc[d], held'[d] = held[d]
  PROVE  Owned(d)' = Owned(d) /\ InFlight(d)' = {} /\ CallOK(d)'
<1>1. pc[d] \in {"idle", "fault"}
  BY Alone DEF IInv
<1>2. InFlight(d) = {} /\ InFlight(d)' = {}
  BY <1>1 DEF InFlight
<1>. QED
  BY <1>1, <1>2 DEF Owned, Lent, CallOK

(* Blocks on the list start inside the pages they cover. *)
LEMMA NodesCovered ==
  ASSUME TypeOK, BlockInv
  PROVE  FreeNodes \in SUBSET Page /\ FreeNodes \subseteq FreePages
<1>1. FreeNodes \in SUBSET Page
  BY DEF FreeNodes, Reach
<1>2. \A n \in FreeNodes : size[n] \in Nat \ {0}
  BY <1>1 DEF TypeOK, BlockInv
<1>. QED
  BY <1>1, <1>2, PageNat, CoverBase DEF FreePages

(* What a CPU owns is usable memory and holds no node of the list. *)
LEMMA OwnedOffList ==
  ASSUME IInv, NEW c \in CPUs, NEW p \in Owned(c)
  PROVE  p \in Page /\ p \notin FreePages /\ p \notin FreeNodes
<1>1. Known \subseteq Page
  BY DEF Known, Page
<1>2. p \in Page
  BY <1>1 DEF IInv, NoLeak
<1>. QED
  BY <1>2, NodesCovered DEF IInv, NoDoubleUse

(* A step that only moves pages between the list and one CPU keeps every page
   in exactly one place. *)
LEMMA Handover ==
  ASSUME IInv, NEW c \in CPUs,
         FreePages' \union Owned(c)' = FreePages \union Owned(c),
         FreePages' \intersect Owned(c)' = {},
         \A d \in CPUs \ {c} : Owned(d)' = Owned(d),
         NoOverlap(FreeNodes, size)',
         \A d \in CPUs : (InFlight(d) \intersect Lent(d))' = {},
         entry' = entry
  PROVE  NoDoubleUse' /\ NoLeak'
<1>1. Known' = Known
  BY DEF Known
<1>2. NoDoubleUse /\ NoLeak
  BY DEF IInv
<1>3. NoLeak'
  BY <1>1, <1>2 DEF NoLeak
<1>4. \A d \in CPUs : Owned(d)' \intersect FreePages' = {}
  BY <1>2 DEF NoDoubleUse
<1>5. \A d, e \in CPUs : d # e => Owned(d)' \intersect Owned(e)' = {}
  BY <1>2 DEF NoDoubleUse
<1>. QED
  BY <1>3, <1>4, <1>5 DEF NoDoubleUse
-----------------------------------------------------------------------------
(* Writes that reach no node of the list leave the list alone. *)
LEMMA OffListWrite ==
  ASSUME TypeOK, BlockInv, NoOverlap(FreeNodes, size),
         head' = head, next' \in [Page -> Page \union {NULL}],
         \A n \in FreeNodes : next'[n] = next[n] /\ size'[n] = size[n]
  PROVE  /\ FreeNodes' = FreeNodes /\ FreePages' = FreePages
         /\ BlockInv' /\ NoOverlap(FreeNodes, size)'
<1>1. head \in Page \union {NULL} /\ next \in [Page -> Page \union {NULL}]
  BY DEF TypeOK
<1>2. \A n \in Reach(Page, head, next) : next'[n] = next[n]
  BY DEF FreeNodes
<1>3. Reach(Page, head, next') = Reach(Page, head, next)
  BY <1>1, <1>2, ReachFrame
<1>4. IsList(Page, head, next')
  BY <1>1, <1>2, ListFrame DEF BlockInv
<1>5. FreeNodes' = FreeNodes
  BY <1>3 DEF FreeNodes
<1>6. Cover(FreeNodes, size') = Cover(FreeNodes, size) /\ NoOverlap(FreeNodes, size')
  BY CoverFrame
<1>7. FreePages' = FreePages /\ NoOverlap(FreeNodes, size)'
  BY <1>5, <1>6 DEF FreePages
<1>8. BlockInv'
  BY <1>4, <1>5 DEF BlockInv
<1>. QED
  BY <1>5, <1>7, <1>8

(* InsertNode of a block that overlaps no free block. *)
LEMMA PushBlock ==
  ASSUME TypeOK, BlockInv, NoOverlap(FreeNodes, size),
         NEW n \in Page, n \notin FreeNodes,
         head' = n, next' \in [Page -> Page \union {NULL}], next'[n] = head,
         \A m \in FreeNodes : next'[m] = next[m] /\ size'[m] = size[m],
         size'[n] >= 1,
         Extent(n, size'[n]) \intersect FreePages = {}
  PROVE  /\ FreePages' = FreePages \union Extent(n, size'[n])
         /\ BlockInv' /\ NoOverlap(FreeNodes, size)'
<1>1. head \in Page \union {NULL} /\ next \in [Page -> Page \union {NULL}]
  BY DEF TypeOK
<1>2. \A m \in Reach(Page, head, next) : next'[m] = next[m]
  BY DEF FreeNodes
<1>3. Reach(Page, head, next') = FreeNodes
  BY <1>1, <1>2, ReachFrame DEF FreeNodes
<1>4. IsList(Page, head, next')
  BY <1>1, <1>2, ListFrame DEF BlockInv
<1>5. Reach(Page, n, next') = FreeNodes \union {n}
  <2>1. n \notin Reach(Page, next'[n], next') /\ NULL \notin Page
    BY <1>3, PageNat
  <2>2. Reach(Page, n, next') = Reach(Page, next'[n], next') \union {n}
    BY <2>1, ReachPush
  <2>. QED
    BY <1>3, <2>2
<1>6. IsList(Page, n, next')
  BY <1>1, <1>3, <1>4, PageNat, ListPush
<1>7. FreeNodes' = FreeNodes \union {n}
  BY <1>5 DEF FreeNodes
<1>8. Cover(FreeNodes, size') = FreePages /\ NoOverlap(FreeNodes, size')
  BY CoverFrame DEF FreePages
<1>9. FreePages' = FreePages \union Extent(n, size'[n])
  <2>1. Cover(FreeNodes \union {n}, size') = Cover(FreeNodes, size') \union Extent(n, size'[n])
    BY CoverPush
  <2>. QED
    BY <1>7, <1>8, <2>1 DEF FreePages
<1>10. NoOverlap(FreeNodes, size)'
  <2>1. \A m \in FreeNodes : Extent(m, size'[m]) \subseteq FreePages
    BY <1>8 DEF Cover
  <2>2. NoOverlap(FreeNodes \union {n}, size')
    BY <1>8, <2>1 DEF NoOverlap
  <2>. QED
    BY <1>7, <2>2
<1>11. BlockInv'
  BY <1>6, <1>7 DEF BlockInv
<1>. QED
  BY <1>9, <1>10, <1>11

-----------------------------------------------------------------------------
(* Each step of AllocatePage keeps the invariant. *)

LEMMA AcquireStep ==
  ASSUME IInv, NEW c \in CPUs, AllocAcquire(c), Serial', LockInv'
  PROVE  IInv'
<1> USE DEF AllocAcquire, Goto, list
<1>1. TypeOK'
  BY DEF IInv, TypeOK, Labels
<1>2. pc[c] = "idle" /\ pc'[c] = "take" /\ \A d \in CPUs \ {c} : pc'[d] = pc[d]
  BY DEF IInv, TypeOK
<1>3. \A d \in CPUs : InFlight(d)' = InFlight(d) /\ Owned(d)' = Owned(d)
  BY <1>2 DEF InFlight, Owned, Lent
<1>4. NoDoubleUse' /\ NoLeak' /\ BlockInv'
  BY <1>3 DEF IInv, NoDoubleUse, NoLeak, BlockInv, FreePages, FreeNodes, Known, Lent
<1>5. BootInv'
  BY DEF IInv, BootInv, Booted
<1>6. CallInv'
  BY <1>2 DEF IInv, CallInv, CallOK
<1>. QED
  BY <1>1, <1>4, <1>5, <1>6 DEF IInv

LEMMA TakeStep ==
  ASSUME IInv, NEW c \in CPUs, AllocTake(c), Serial', LockInv'
  PROVE  IInv'
<1> USE DEF AllocTake, Goto, list
<1>1. TypeOK'
  BY DEF IInv, TypeOK, Labels
<1>2. pc[c] = "take" /\ pc'[c] \in {"fault", "unlink"}
  BY DEF IInv, TypeOK
<1>3. \A d \in CPUs \ {c} : pc'[d] = pc[d] /\ ret'[d] = ret[d] /\ held'[d] = held[d]
  BY DEF IInv, TypeOK
<1>4. \A d \in CPUs : InFlight(d)' = InFlight(d) /\ Owned(d)' = Owned(d)
  BY <1>2, <1>3 DEF InFlight, Owned, Lent
<1>5. NoDoubleUse' /\ NoLeak' /\ BlockInv'
  BY <1>4 DEF IInv, NoDoubleUse, NoLeak, BlockInv, FreePages, FreeNodes, Known, Lent
<1>6. BootInv'
  BY DEF IInv, BootInv, Booted
<1>7. CallOK(c)'
  BY <1>2 DEF IInv, TypeOK, CallOK
<1>8. CallInv'
  BY <1>2, <1>3, <1>7, OthersKeep DEF CallInv
<1>. QED
  BY <1>1, <1>5, <1>6, <1>8 DEF IInv

LEMMA UnlinkStep ==
  ASSUME IInv, NEW c \in CPUs, AllocUnlink(c), Serial', LockInv'
  PROVE  IInv'
<1> USE DEF AllocUnlink, Goto
<1> DEFINE r == ret[c]
           X == Extent(r, size[r])
<1>1. pc[c] = "unlink" /\ pc'[c] = "split" /\ r \in Page /\ r = head
  BY DEF IInv, TypeOK, CallInv, CallOK
<1>2. TypeOK'
  BY <1>1 DEF IInv, TypeOK, Labels
<1>3. \A d \in CPUs \ {c} : pc'[d] = pc[d] /\ ret'[d] = ret[d] /\ held'[d] = held[d]
  BY DEF IInv, TypeOK
<1>4. head \in Page /\ next \in [Page -> Page \union {NULL}] /\ IsList(Page, head, next)
  BY <1>1 DEF IInv, TypeOK, BlockInv
<1>5. FreeNodes' = FreeNodes \ {r} /\ IsList(Page, head', next') /\ r \in FreeNodes
  <2>1. head' = next[head] /\ next' = next
    BY <1>1
  <2>2. Reach(Page, next[head], next) = Reach(Page, head, next) \ {head}
        /\ IsList(Page, next[head], next)
    BY <1>4, PageNat, ReachPop
  <2>3. head \in Reach(Page, head, next)
    BY <1>4, ReachClosed, PageNat DEF Closed
  <2>. QED
    BY <1>1, <2>1, <2>2, <2>3 DEF FreeNodes
<1>6. FreePages' = FreePages \ X /\ NoOverlap(FreeNodes, size)' /\ X \subseteq FreePages
  <2>1. NoOverlap(FreeNodes, size)
    BY DEF IInv, NoDoubleUse
  <2>2. /\ Cover(FreeNodes \ {r}, size) = Cover(FreeNodes, size) \ X
        /\ NoOverlap(FreeNodes \ {r}, size)
        /\ X \subseteq Cover(FreeNodes, size)
    BY <1>5, <2>1, CoverPop
  <2>. QED
    BY <1>5, <2>2 DEF FreePages
<1>7. InFlight(c) = {} /\ InFlight(c)' = X /\ Lent(c)' = Lent(c)
  BY <1>1 DEF InFlight, Lent
<1>8. Owned(c)' = Owned(c) \union X
  BY <1>7 DEF Owned
<1>9. \A d \in CPUs \ {c} : Owned(d)' = Owned(d) /\ InFlight(d)' = {} /\ CallOK(d)'
  BY <1>1, <1>3, OthersKeep
<1>10. \A d \in CPUs : (InFlight(d) \intersect Lent(d))' = {}
  <2>1. Lent(c) \intersect FreePages = {}
    BY DEF IInv, NoDoubleUse, Owned
  <2>. QED
    BY <1>6, <1>7, <1>9, <2>1
<1>11. NoDoubleUse' /\ NoLeak'
  <2>1. Owned(c) \intersect FreePages = {}
    BY DEF IInv, NoDoubleUse
  <2>. HIDE DEF X
  <2>2. FreePages' \union Owned(c)' = FreePages \union Owned(c)
        /\ FreePages' \intersect Owned(c)' = {}
    BY <1>6, <1>8, <2>1
  <2>3. entry' = entry
    OBVIOUS
  <2>. QED
    BY <1>6, <1>9, <1>10, <2>2, <2>3, Handover
<1>12. BlockInv'
  BY <1>5 DEF IInv, BlockInv
<1>13. CallInv'
  <2>1. CallOK(c)'
    BY <1>1, <1>5 DEF IInv, BlockInv, CallOK
  <2>. QED
    BY <2>1, <1>9 DEF CallInv
<1>14. BootInv'
  BY <1>1 DEF IInv, BootInv, Booted
<1>. QED
  BY <1>2, <1>11, <1>12, <1>13, <1>14 DEF IInv

LEMMA SplitStep ==
  ASSUME IInv, NEW c \in CPUs, AllocSplit(c), Serial', LockInv'
  PROVE  IInv'
<1> USE DEF AllocSplit, Goto
<1> DEFINE r == ret[c]
<1>1. /\ pc[c] = "split" /\ pc'[c] \in {"publish", "finish"}
      /\ r \in Page /\ size[r] \in Nat /\ size[r] >= 1 /\ r \in Nat
  BY PageNat DEF IInv, TypeOK, CallInv, CallOK
<1> DEFINE Splits == /\ size[r] > 1 /\ pc'[c] = "publish"
                     /\ size' = [size EXCEPT ![r + 1] = size[r] - 1]
                     /\ next' = [next EXCEPT ![r + 1] = head]
           Whole == size[r] = 1 /\ pc'[c] = "finish" /\ size' = size /\ next' = next
<1>14. Splits \/ Whole
  BY <1>1 DEF IInv, TypeOK
<1>2. \A d \in CPUs \ {c} : pc'[d] = pc[d] /\ ret'[d] = ret[d] /\ held'[d] = held[d]
  BY DEF IInv, TypeOK
<1>3. InFlight(c) = Extent(r, size[r])
  BY <1>1 DEF InFlight
<1>4. size[r] > 1 => r + 1 \in Page /\ r + 1 \notin FreeNodes
  <2>1. size[r] > 1 => r + 1 \in Extent(r, size[r])
    BY <1>1 DEF Extent
  <2>. QED
    BY <1>3, <2>1, OwnedOffList DEF Owned
<1>5. TypeOK'
  <2>1. size' \in [Page -> Nat] /\ next' \in [Page -> Page \union {NULL}]
    <3>1. CASE Splits
      BY <1>1, <1>4, <3>1 DEF IInv, TypeOK
    <3>2. CASE Whole
      BY <3>2 DEF IInv, TypeOK
    <3>. QED
      BY <1>14, <3>1, <3>2
  <2>. QED
    BY <2>1 DEF IInv, TypeOK, Labels
<1>6. \A n \in FreeNodes : next'[n] = next[n] /\ size'[n] = size[n]
  <2>1. FreeNodes \in SUBSET Page
    BY NodesCovered DEF IInv
  <2>2. CASE Splits
    BY <1>1, <1>4, <2>1, <2>2 DEF IInv, TypeOK
  <2>3. CASE Whole
    BY <2>3
  <2>. QED
    BY <1>14, <2>2, <2>3
<1>7. FreePages' = FreePages /\ BlockInv' /\ NoOverlap(FreeNodes, size)'
  BY <1>5, <1>6, OffListWrite DEF IInv, TypeOK, NoDoubleUse
<1>8. InFlight(c)' = InFlight(c) /\ Lent(c)' = Lent(c)
  <2>1. CASE Splits
    <3>1. pc'[c] = "publish" /\ size'[r] = size[r]
      BY <1>1, <2>1 DEF IInv, TypeOK
    <3>. QED
      BY <1>1, <3>1 DEF InFlight, Lent
  <2>2. CASE Whole
    <3>1. Extent(r, 1) = {r}
      BY <1>1 DEF Extent
    <3>. QED
      BY <1>1, <2>2, <3>1 DEF InFlight, Lent
  <2>. QED
    BY <1>14, <2>1, <2>2
<1>9. \A d \in CPUs \ {c} : Owned(d)' = Owned(d) /\ InFlight(d)' = {} /\ CallOK(d)'
  BY <1>1, <1>2, OthersKeep
<1>10. \A d \in CPUs : Owned(d)' = Owned(d)
  BY <1>8, <1>9 DEF Owned
<1>11. NoDoubleUse' /\ NoLeak'
  BY <1>7, <1>8, <1>9, <1>10 DEF IInv, NoDoubleUse, NoLeak, Known
<1>12. CallInv'
  <2>1. CallOK(c)'
    BY <1>1, <1>4, <1>14 DEF IInv, TypeOK, CallOK
  <2>. QED
    BY <2>1, <1>9 DEF CallInv
<1>13. BootInv'
  BY <1>1 DEF IInv, BootInv, Booted
<1>. QED
  BY <1>5, <1>7, <1>11, <1>12, <1>13 DEF IInv

LEMMA PublishStep ==
  ASSUME IInv, NEW c \in CPUs, AllocPublish(c), Serial', LockInv'
  PROVE  IInv'
<1> USE DEF AllocPublish, Goto
<1> DEFINE r == ret[c]
           X == Extent(r + 1, size[r] - 1)
<1>1. /\ pc[c] = "publish" /\ pc'[c] = "finish"
      /\ r \in Page /\ size[r] \in Nat /\ size[r] >= 2 /\ r \in Nat
      /\ size[r + 1] = size[r] - 1 /\ next[r + 1] = head
  BY PageNat DEF IInv, TypeOK, CallInv, CallOK
<1>2. \A d \in CPUs \ {c} : pc'[d] = pc[d] /\ ret'[d] = ret[d] /\ held'[d] = held[d]
  BY DEF IInv, TypeOK
<1>3. InFlight(c) = {r} \union X /\ r \notin X /\ r + 1 \in X
  BY <1>1 DEF InFlight, Extent
<1>4. /\ r + 1 \in Page /\ r + 1 \notin FreeNodes /\ r \notin FreeNodes
      /\ X \intersect FreePages = {}
  BY <1>3, OwnedOffList DEF Owned
<1>5. TypeOK'
  BY <1>1, <1>4 DEF IInv, TypeOK, Labels
<1>6. size'[r + 1] = size[r] - 1 /\ \A n \in FreeNodes : size'[n] = size[n]
  BY <1>1, <1>4 DEF IInv, TypeOK
<1>7. FreePages' = FreePages \union X /\ BlockInv' /\ NoOverlap(FreeNodes, size)'
  <2>1. TypeOK /\ BlockInv /\ NoOverlap(FreeNodes, size)
    BY DEF IInv, NoDoubleUse
  <2>2. next' \in [Page -> Page \union {NULL}] /\ next' = next
    BY DEF IInv, TypeOK
  <2>3. Extent(r + 1, size'[r + 1]) \intersect FreePages = {} /\ size'[r + 1] >= 1
    BY <1>1, <1>4, <1>6
  <2>. QED
    BY <1>1, <1>4, <1>6, <2>1, <2>2, <2>3, PushBlock
<1>8. InFlight(c)' = {r} /\ Lent(c)' = Lent(c)
  BY <1>1 DEF InFlight, Lent
<1>9. \A d \in CPUs \ {c} : Owned(d)' = Owned(d) /\ InFlight(d)' = {} /\ CallOK(d)'
  BY <1>1, <1>2, OthersKeep
<1>10. Lent(c) \intersect InFlight(c) = {} /\ Lent(c) \intersect FreePages = {}
       /\ InFlight(c) \intersect FreePages = {}
  BY DEF IInv, NoDoubleUse, Owned
<1>11. NoDoubleUse' /\ NoLeak'
  <2>. HIDE DEF X
  <2>1. FreePages' \union Owned(c)' = FreePages \union Owned(c)
        /\ FreePages' \intersect Owned(c)' = {}
    BY <1>3, <1>7, <1>8, <1>10 DEF Owned
  <2>2. entry' = entry
    OBVIOUS
  <2>3. \A d \in CPUs : (InFlight(d) \intersect Lent(d))' = {}
    BY <1>3, <1>8, <1>9, <1>10
  <2>. QED
    BY <1>7, <1>9, <2>1, <2>2, <2>3, Handover
<1>12. CallInv'
  <2>1. CallOK(c)'
    BY <1>1 DEF CallOK
  <2>. QED
    BY <2>1, <1>9 DEF CallInv
<1>13. BootInv'
  BY <1>1 DEF IInv, BootInv, Booted
<1>. QED
  BY <1>5, <1>7, <1>11, <1>12, <1>13 DEF IInv

LEMMA FinishStep ==
  ASSUME IInv, NEW c \in CPUs, AllocFinish(c), Serial', LockInv'
  PROVE  IInv'
<1> USE DEF AllocFinish, Goto
<1> DEFINE r == ret[c]
<1>1. /\ pc[c] = "finish" /\ pc'[c] = "idle" /\ r \in Page
      /\ held'[c] = held[c] \union {VirtToPhys(r)}
  BY DEF IInv, TypeOK, CallInv, CallOK
<1>2. \A d \in CPUs \ {c} : pc'[d] = pc[d] /\ ret'[d] = ret[d] /\ held'[d] = held[d]
  BY DEF IInv, TypeOK
<1>3. InFlight(c) = {r} /\ InFlight(c)' = {}
  BY <1>1 DEF InFlight
<1>4. r \notin FreeNodes
  BY <1>3, OwnedOffList DEF Owned
<1>5. TypeOK'
  BY <1>1, FramePage DEF IInv, TypeOK, Labels
<1>6. \A n \in FreeNodes : next'[n] = next[n] /\ size'[n] = size[n]
  BY <1>1, <1>4 DEF IInv, TypeOK
<1>7. FreePages' = FreePages /\ BlockInv' /\ NoOverlap(FreeNodes, size)'
  BY <1>5, <1>6, OffListWrite DEF IInv, TypeOK, NoDoubleUse
<1>8. Lent(c)' = Lent(c) \union {r}
  BY <1>1, FramePage DEF Lent
<1>9. \A d \in CPUs \ {c} : Owned(d)' = Owned(d) /\ InFlight(d)' = {} /\ CallOK(d)'
  BY <1>1, <1>2, OthersKeep
<1>10. \A d \in CPUs : Owned(d)' = Owned(d)
  BY <1>3, <1>8, <1>9 DEF Owned
<1>11. NoDoubleUse' /\ NoLeak'
  BY <1>3, <1>7, <1>9, <1>10 DEF IInv, NoDoubleUse, NoLeak, Known
<1>12. CallInv'
  BY <1>1, <1>9 DEF CallInv, CallOK
<1>13. BootInv'
  BY <1>1 DEF IInv, BootInv, Booted
<1>. QED
  BY <1>5, <1>7, <1>11, <1>12, <1>13 DEF IInv

-----------------------------------------------------------------------------
(* Each step of FreePage keeps the invariant. *)

LEMMA FreeAcquireStep ==
  ASSUME IInv, NEW c \in CPUs, FreeAcquire(c), Serial', LockInv'
  PROVE  IInv'
<1> USE DEF FreeAcquire, Goto, list
<1>1. PICK f \in held[c] : held' = [held EXCEPT ![c] = @ \ {f}]
                           /\ ret' = [ret EXCEPT ![c] = PhysToVirt(f)]
  OBVIOUS
<1> DEFINE r == PhysToVirt(f)
<1>2. /\ pc[c] = "idle" /\ pc'[c] = "freeLink" /\ ret'[c] = r
      /\ held'[c] = held[c] \ {f} /\ held[c] \in SUBSET Frames
  BY <1>1 DEF IInv, TypeOK
<1>3. \A d \in CPUs \ {c} : pc'[d] = pc[d] /\ ret'[d] = ret[d] /\ held'[d] = held[d]
  BY <1>1 DEF IInv, TypeOK
<1>4. r \in Page
  BY <1>2, FramePage
<1>5. TypeOK'
  BY <1>1, <1>2, <1>4 DEF IInv, TypeOK, Labels
<1>6. InFlight(c) = {} /\ InFlight(c)' = {r}
  BY <1>2 DEF InFlight
<1>7. Lent(c) = Lent(c)' \union {r} /\ r \notin Lent(c)'
  <2>1. \A g \in held[c] : PhysToVirt(g) = r => g = f
    BY <1>2, FramePage
  <2>. QED
    BY <1>2, <2>1 DEF Lent
<1>8. \A d \in CPUs \ {c} : InFlight(d)' = InFlight(d) /\ Lent(d)' = Lent(d)
  BY <1>3 DEF InFlight, Lent
<1>9. \A d \in CPUs : Owned(d)' = Owned(d)
  BY <1>6, <1>7, <1>8 DEF Owned
<1>10. FreePages' = FreePages /\ FreeNodes' = FreeNodes /\ BlockInv' /\ Known' = Known
  BY DEF IInv, FreePages, FreeNodes, BlockInv, Known
<1>11. NoDoubleUse' /\ NoLeak'
  BY <1>6, <1>7, <1>8, <1>9, <1>10 DEF IInv, NoDoubleUse, NoLeak
<1>12. CallInv'
  BY <1>2, <1>3, <1>4 DEF IInv, CallInv, CallOK
<1>13. BootInv'
  BY <1>1 DEF IInv, BootInv, Booted
<1>. QED
  BY <1>5, <1>10, <1>11, <1>12, <1>13 DEF IInv

LEMMA FreeLinkStep ==
  ASSUME IInv, NEW c \in CPUs, FreeLink(c), Serial', LockInv'
  PROVE  IInv'
<1> USE DEF FreeLink, Goto
<1> DEFINE r == ret[c]
<1>1. pc[c] = "freeLink" /\ pc'[c] = "freePublish" /\ r \in Page
  BY DEF IInv, TypeOK, CallInv, CallOK
<1>2. \A d \in CPUs \ {c} : pc'[d] = pc[d] /\ ret'[d] = ret[d] /\ held'[d] = held[d]
  BY DEF IInv, TypeOK
<1>3. InFlight(c) = {r} /\ InFlight(c)' = {r} /\ Lent(c)' = Lent(c)
  BY <1>1 DEF InFlight, Lent
<1>4. r \notin FreeNodes
  BY <1>3, OwnedOffList DEF Owned
<1>5. TypeOK'
  BY <1>1 DEF IInv, TypeOK, Labels
<1>6. \A n \in FreeNodes : next'[n] = next[n] /\ size'[n] = size[n]
  BY <1>1, <1>4 DEF IInv, TypeOK
<1>7. FreePages' = FreePages /\ BlockInv' /\ NoOverlap(FreeNodes, size)'
  BY <1>5, <1>6, OffListWrite DEF IInv, TypeOK, NoDoubleUse
<1>8. \A d \in CPUs \ {c} : Owned(d)' = Owned(d) /\ InFlight(d)' = {} /\ CallOK(d)'
  BY <1>1, <1>2, OthersKeep
<1>9. \A d \in CPUs : Owned(d)' = Owned(d)
  BY <1>3, <1>8 DEF Owned
<1>10. NoDoubleUse' /\ NoLeak'
  BY <1>3, <1>7, <1>8, <1>9 DEF IInv, NoDoubleUse, NoLeak, Known
<1>11. CallInv'
  <2>1. CallOK(c)'
    BY <1>1 DEF IInv, TypeOK, CallOK
  <2>. QED
    BY <2>1, <1>8 DEF CallInv
<1>12. BootInv'
  BY <1>1 DEF IInv, BootInv, Booted
<1>. QED
  BY <1>5, <1>7, <1>10, <1>11, <1>12 DEF IInv

LEMMA FreePublishStep ==
  ASSUME IInv, NEW c \in CPUs, FreePublish(c), Serial', LockInv'
  PROVE  IInv'
<1> USE DEF FreePublish, Goto
<1> DEFINE r == ret[c]
<1>1. /\ pc[c] = "freePublish" /\ pc'[c] = "idle" /\ r \in Page /\ r \in Nat
      /\ size[r] = 1 /\ next[r] = head
  BY PageNat DEF IInv, TypeOK, CallInv, CallOK
<1>2. \A d \in CPUs \ {c} : pc'[d] = pc[d] /\ ret'[d] = ret[d] /\ held'[d] = held[d]
  BY DEF IInv, TypeOK
<1>3. InFlight(c) = {r} /\ InFlight(c)' = {} /\ Lent(c)' = Lent(c)
  BY <1>1 DEF InFlight, Lent
<1>4. r \notin FreeNodes /\ r \notin FreePages
  BY <1>3, OwnedOffList DEF Owned
<1>5. TypeOK'
  BY <1>1 DEF IInv, TypeOK, Labels
<1>6. Extent(r, size[r]) = {r}
  BY <1>1 DEF Extent
<1>7. FreePages' = FreePages \union {r} /\ BlockInv' /\ NoOverlap(FreeNodes, size)'
  <2>1. TypeOK /\ BlockInv /\ NoOverlap(FreeNodes, size)
    BY DEF IInv, NoDoubleUse
  <2>2. next' \in [Page -> Page \union {NULL}] /\ next' = next /\ size' = size
    BY DEF IInv, TypeOK
  <2>. QED
    BY <1>1, <1>4, <1>6, <2>1, <2>2, PushBlock
<1>8. \A d \in CPUs \ {c} : Owned(d)' = Owned(d) /\ InFlight(d)' = {} /\ CallOK(d)'
  BY <1>1, <1>2, OthersKeep
<1>9. InFlight(c) \intersect Lent(c) = {} /\ Lent(c) \intersect FreePages = {}
  BY DEF IInv, NoDoubleUse, Owned
<1>10. NoDoubleUse' /\ NoLeak'
  <2>1. FreePages' \union Owned(c)' = FreePages \union Owned(c)
        /\ FreePages' \intersect Owned(c)' = {}
    BY <1>3, <1>7, <1>9 DEF Owned
  <2>2. entry' = entry
    OBVIOUS
  <2>3. \A d \in CPUs : (InFlight(d) \intersect Lent(d))' = {}
    BY <1>3, <1>8
  <2>. QED
    BY <1>7, <1>8, <2>1, <2>2, <2>3, Handover
<1>11. CallInv'
  BY <1>1, <1>8 DEF CallInv, CallOK
<1>12. BootInv'
  BY <1>1 DEF IInv, BootInv, Booted
<1>. QED
  BY <1>5, <1>7, <1>10, <1>11, <1>12 DEF IInv

-----------------------------------------------------------------------------
(* Boot: InitializePMM takes in one entry of the memory map at a time. *)

(* The pages of an entry are new to those taken in before it. *)
LEMMA EntryFresh ==
  ASSUME TypeOK, ~Booted, entry' = entry + 1
  PROVE  /\ entry \in DOMAIN MemMap
         /\ entry \in UsableEntries =>
              /\ EntryPages(entry) \in SUBSET Page
              /\ EntryPages(entry) \intersect Known = {}
              /\ Known' = Known \union EntryPages(entry)
         /\ entry \notin UsableEntries => Known' = Known
<1>1. Len(MemMap) \in Nat /\ DOMAIN MemMap = 1 .. Len(MemMap)
  BY MapLength
<1>2. entry \in DOMAIN MemMap
  BY <1>1 DEF TypeOK, Booted
<1>3. \A i \in UsableEntries : i \in DOMAIN MemMap
  BY DEF UsableEntries
<1>4. \A i, j \in UsableEntries : i # j => EntryPages(i) \intersect EntryPages(j) = {}
  <2>1. TAKE i, j \in UsableEntries
  <2>2. HAVE i # j
  <2>3. \A k \in UsableEntries : \A v \in EntryPages(k) :
          v - HHDM \in Extent(MemMap[k].base, MemMap[k].length)
    BY EntryNat, PmmAssumption DEF EntryPages, Extent, PhysToVirt
  <2>4. Extent(MemMap[i].base, MemMap[i].length)
          \intersect Extent(MemMap[j].base, MemMap[j].length) = {}
    BY <1>3, <2>2, PmmAssumption DEF MemMapOK
  <2>. QED
    BY <2>3, <2>4
<1>5. UsableEntries \intersect 1 .. entry' - 1
        = (UsableEntries \intersect 1 .. entry - 1) \union (UsableEntries \intersect {entry})
  BY <1>1, <1>2
<1>. QED
  BY <1>1, <1>2, <1>4, <1>5 DEF Known, Page

LEMMA BootStep ==
  ASSUME IInv, InitializePMM, Serial', LockInv'
  PROVE  IInv'
<1> USE DEF InitializePMM, list
<1> DEFINE e == MemMap[entry]
           v == PhysToVirt(e.base)
<1>1. /\ entry \in DOMAIN MemMap /\ entry \in Nat
      /\ \A c \in CPUs : pc[c] = "idle" /\ held[c] = {}
  BY EntryFresh DEF IInv, TypeOK, BootInv
<1>2. /\ \A c \in CPUs : InFlight(c) = {} /\ InFlight(c)' = {}
      /\ \A c \in CPUs : Owned(c) = {} /\ Owned(c)' = {}
  BY <1>1 DEF InFlight, Owned, Lent
<1>3. FreePages = Known
  BY <1>2 DEF IInv, NoLeak
<1>4. entry' \in 1 .. Len(MemMap) + 1
  BY MapLength DEF IInv, TypeOK, Booted
<1>5. BootInv' /\ CallInv'
  BY <1>1 DEF BootInv, CallInv, CallOK
<1>6. CASE e.type = USABLE /\ e.length >= 1
  <2>1. entry \in UsableEntries /\ e.length \in Nat
    BY <1>1, <1>6, EntryNat DEF UsableEntries
  <2>2. /\ size' = [size EXCEPT ![v] = e.length]
        /\ next' = [next EXCEPT ![v] = head]
        /\ head' = v
    BY <1>6
  <2>3. v \in EntryPages(entry)
    BY <1>6, <2>1, EntryNat, PmmAssumption DEF EntryPages, Extent, PhysToVirt
  <2>4. /\ EntryPages(entry) \in SUBSET Page
        /\ EntryPages(entry) \intersect FreePages = {}
        /\ Known' = FreePages \union EntryPages(entry)
    BY <1>3, <2>1, EntryFresh DEF IInv
  <2>5. v \in Page /\ v \notin FreeNodes /\ FreeNodes \in SUBSET Page
    BY <2>3, <2>4, NodesCovered DEF IInv
  <2>6. TypeOK'
    BY <1>4, <2>1, <2>2, <2>5 DEF IInv, TypeOK
  <2>7. /\ size'[v] = e.length /\ next'[v] = head
        /\ \A m \in FreeNodes : next'[m] = next[m] /\ size'[m] = size[m]
    BY <2>2, <2>5 DEF IInv, TypeOK
  <2>8. Extent(v, size'[v]) = EntryPages(entry)
    BY <2>7 DEF EntryPages
  <2>9. /\ FreePages' = FreePages \union EntryPages(entry)
        /\ BlockInv' /\ NoOverlap(FreeNodes, size)'
    <3>1. TypeOK /\ BlockInv /\ NoOverlap(FreeNodes, size)
      BY DEF IInv, NoDoubleUse
    <3>2. next' \in [Page -> Page \union {NULL}] /\ size'[v] >= 1
      BY <1>6, <2>6, <2>7 DEF TypeOK
    <3>. QED
      BY <2>2, <2>4, <2>5, <2>7, <2>8, <3>1, <3>2, PushBlock
  <2>10. NoDoubleUse' /\ NoLeak'
    BY <1>2, <2>4, <2>9 DEF NoDoubleUse, NoLeak
  <2>. QED
    BY <1>5, <2>6, <2>9, <2>10 DEF IInv
<1>7. CASE ~(e.type = USABLE /\ e.length >= 1)
  <2>1. UNCHANGED list
    BY <1>7
  <2>2. Known' = Known
    <3>1. CASE entry \notin UsableEntries
      BY <3>1, EntryFresh DEF IInv
    <3>2. CASE entry \in UsableEntries
      <4>1. e.length = 0
        BY <1>7, <3>2, EntryNat DEF UsableEntries
      <4>2. EntryPages(entry) = {}
        BY <3>2, <4>1, EntryNat, PmmAssumption DEF EntryPages, Extent, PhysToVirt
      <4>. QED
        BY <3>2, <4>2, EntryFresh DEF IInv
    <3>. QED
      BY <3>1, <3>2
  <2>3. FreeNodes' = FreeNodes /\ FreePages' = FreePages
    BY <2>1 DEF FreeNodes, FreePages
  <2>4. TypeOK' /\ BlockInv'
    BY <1>4, <2>1, <2>3 DEF IInv, TypeOK, BlockInv
  <2>5. NoDoubleUse' /\ NoLeak'
    BY <1>2, <2>1, <2>2, <2>3 DEF IInv, NoDoubleUse, NoLeak
  <2>. QED
    BY <1>5, <2>4, <2>5 DEF IInv
<1>. QED
  BY <1>6, <1>7

-----------------------------------------------------------------------------
LEMMA Initially == Init => IInv
<1> SUFFICES ASSUME Init PROVE IInv
  OBVIOUS
<1> USE DEF Init, list
<1>1. Len(MemMap) \in Nat
  BY MapLength
<1>2. TypeOK
  <2>1. entry \in 1 .. Len(MemMap) + 1
    BY <1>1
  <2>2. size \in [Page -> Nat] /\ next \in [Page -> Page \union {NULL}]
    OBVIOUS
  <2>3. /\ pc \in [CPUs -> Labels] /\ ret \in [CPUs -> Page \union {NULL}]
        /\ held \in [CPUs -> SUBSET Frames]
    BY DEF Labels
  <2>. QED
    BY <2>1, <2>2, <2>3 DEF TypeOK
<1>3. FreeNodes = {}
  BY ReachNull DEF FreeNodes
<1>4. FreePages = {} /\ BlockInv
  BY <1>3 DEF FreePages, Cover, BlockInv, IsList, FreeNodes
<1>5. \A c \in CPUs : InFlight(c) = {} /\ Owned(c) = {}
  BY DEF InFlight, Owned, Lent
<1>6. Known = {}
  BY DEF Known
<1>7. NoDoubleUse /\ NoLeak
  BY <1>3, <1>4, <1>5, <1>6 DEF NoDoubleUse, NoOverlap, NoLeak
<1>8. LockInv /\ Serial /\ BootInv /\ CallInv
  BY DEF LockInv, MutualExclusion, Serial, InAlloc, InFree, BootInv, CallInv, CallOK
<1>. QED
  BY <1>2, <1>4, <1>7, <1>8 DEF IInv

LEMMA Stutter ==
  ASSUME IInv, UNCHANGED vars
  PROVE  IInv'
<1> USE DEF vars, list
<1>1. TypeOK' /\ BootInv'
  BY DEF IInv, TypeOK, BootInv, Booted
<1>2. LockInv' /\ Serial'
  BY DEF IInv, LockInv, MutualExclusion, InAlloc, InFree, Serial
<1>3. FreeNodes' = FreeNodes /\ FreePages' = FreePages /\ Known' = Known
  BY DEF FreePages, FreeNodes, Known
<1>4. \A c \in CPUs : Owned(c)' = Owned(c) /\ InFlight(c)' = InFlight(c) /\ Lent(c)' = Lent(c)
  BY DEF Owned, InFlight, Lent
<1>5. NoDoubleUse' /\ NoLeak'
  BY <1>3, <1>4 DEF IInv, NoDoubleUse, NoLeak
<1>6. BlockInv' /\ CallInv'
  BY <1>3 DEF IInv, BlockInv, CallInv, CallOK
<1>. QED
  BY <1>1, <1>2, <1>5, <1>6 DEF IInv

LEMMA Inductive == IInv /\ [SerialNext]_vars => IInv'
<1> SUFFICES ASSUME IInv, SerialNext PROVE IInv'
  BY Stutter
<1>1. LockInv' /\ Serial'
  BY LockStep DEF IInv, TypeOK, SerialNext
<1>2. CASE InitializePMM
  BY <1>1, <1>2, BootStep
<1>3. ASSUME NEW c \in CPUs, Step(c) PROVE IInv'
  BY <1>1, <1>3, AcquireStep, TakeStep, UnlinkStep, SplitStep, PublishStep, FinishStep,
     FreeAcquireStep, FreeLinkStep, FreePublishStep DEF Step
<1>. QED
  BY <1>2, <1>3 DEF SerialNext, Next

(* The free list and the owners' pages stay as IInv describes them as long as
   FreePage does not run into AllocatePage. *)
THEOREM Invariance == SerialSpec => []IInv
BY Initially, Inductive, PTL DEF SerialSpec

(* pmm.cpp keeps its state well typed: nodes lie in usable memory. *)
THEOREM TypeCorrect == SerialSpec => []TypeOK
<1>1. IInv => TypeOK
  BY DEF IInv
<1>. QED
  BY <1>1, Invariance, PTL

(* AllocatePage never returns memory that is free or lent to someone. *)
THEOREM PageInOnePlace == SerialSpec => []NoDoubleUse
<1>1. IInv => NoDoubleUse
  BY DEF IInv
<1>. QED
  BY <1>1, Invariance, PTL

(* AllocatePage and FreePage lose no page: splitting a block keeps its rest. *)
THEOREM PagesConserved == SerialSpec => []NoLeak
<1>1. IInv => NoLeak
  BY DEF IInv
<1>. QED
  BY <1>1, Invariance, PTL

(* Step by step, the linked list with its two locks does what PageAllocator
   says an allocator does. *)
THEOREM Implements == SerialSpec => KeepsPromise
<1>1. Init => Promise!Init
  BY DEF Init, Promise!Init
<1>2. IInv /\ [SerialNext]_vars => [Promise!Next]_held
  <2> SUFFICES ASSUME IInv, SerialNext PROVE Promise!Next \/ UNCHANGED held
    BY DEF vars
  <2>1. ASSUME NEW c \in CPUs, AllocFinish(c) PROVE Promise!Lend(c)
    <3> DEFINE f == VirtToPhys(ret[c])
    <3>1. ret[c] \in Page /\ ret[c] \in InFlight(c)
          /\ held' = [held EXCEPT ![c] = @ \union {f}]
      BY <2>1 DEF AllocFinish, InFlight, IInv, CallInv, CallOK
    <3>2. f \in Frames /\ PhysToVirt(f) = ret[c]
      BY <3>1, FramePage
    <3>3. \A d \in CPUs : ret[c] \notin Lent(d)
      BY <3>1 DEF IInv, NoDoubleUse, Owned
    <3>4. f \notin Promise!Lent
      BY <3>2, <3>3 DEF Promise!Lent, Lent
    <3>. QED
      BY <3>1, <3>2, <3>4 DEF Promise!Lend
  <2>2. ASSUME NEW c \in CPUs, FreeAcquire(c) PROVE Promise!TakeBack(c)
    BY <2>2 DEF FreeAcquire, Promise!TakeBack
  <2>3. CASE InitializePMM
    BY <2>3 DEF InitializePMM
  <2>4. ASSUME NEW c \in CPUs, Step(c), ~AllocFinish(c), ~FreeAcquire(c)
        PROVE  UNCHANGED held
    BY <2>4 DEF Step, AllocAcquire, AllocTake, AllocUnlink, AllocSplit, AllocPublish,
                FreeLink, FreePublish
  <2>. QED
    BY <2>1, <2>2, <2>3, <2>4 DEF SerialNext, Next, Promise!Next
<1>. QED
  BY <1>1, <1>2, Invariance, PTL DEF SerialSpec, KeepsPromise, Promise!Spec
=============================================================================
