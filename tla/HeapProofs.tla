----------------------------- MODULE HeapProofs -----------------------------
(***************************************************************************)
(* The heap's blocks are apart and none is lost, every object keeps its    *)
(* header and its contents, and the list grows only when it has to, for    *)
(* any number of CPUs, any memory and any object sizes, as long as no Free *)
(* runs while an Allocate does and no split leaves a single word.          *)
(***************************************************************************)
EXTENDS Heap, FreeListsProofs, FiniteSetTheorems, WellFoundedInduction

-----------------------------------------------------------------------------
(* The list in memory: the pointer field of every node, the nodes from a
   head and the words of their blocks. *)
Links(m) ==
  [n \in Word |-> IF n + 1 \in Word /\ m[n + 1] \in Word THEN m[n + 1] ELSE NULL]
Nodes(m, h) == Reach(Word, h, Links(m))
Space(m, h) == Cover(Nodes(m, h), m)

(* When objects and pages happen to be whole nodes, so is every block. *)
NodeSized == PageWords % NODE = 0 /\ \A s \in Sizes : s % NODE = 0
Whole(size) == NodeSized => size % NODE = 0

(* At n is a block: a node whose size says how far it goes. *)
Sound(m, n) ==
  /\ n \in Word /\ m[n] \in Nat /\ m[n] >= NODE /\ Whole(m[n])
  /\ Extent(n, m[n]) \subseteq Word

GoodList(m, h) ==
  /\ h \in Word \union {NULL}
  /\ IsList(Word, h, Links(m))
  /\ \A n \in Nodes(m, h) : Sound(m, n) /\ m[n + 1] \in Word \union {NULL}
  /\ NoOverlap(Nodes(m, h), m)

-----------------------------------------------------------------------------
(* The invariant *)

Labels == { "idle", "find", "unlink", "split", "publish", "finish", "fault", "allocWait",
            "copy", "freeWait", "freeLink", "freePublish", "done" }
Objects == [at : Word, size : Sizes]

Typed ==
  /\ mem \in [Word -> Int] /\ head \in Word \union {NULL}
  /\ mallocLock \in BOOLEAN /\ freeLock \in BOOLEAN /\ reallocLock \in BOOLEAN
  /\ pc \in [CPUs -> Labels] /\ req \in [CPUs -> Sizes \union {0}]
  /\ cur \in [CPUs -> Word \union {NULL}]
  /\ ret \in [CPUs -> Word \union {NULL}]
  /\ node \in [CPUs -> Word \union {NULL}]
  /\ object \in [CPUs -> Objects \union {NoObject}]
  /\ objects \in [CPUs -> SUBSET Objects]

(* Inside Reallocate. *)
Moving(c) == object[c] # NoObject

(* Each lock has one holder; a CPU that died inside Allocate keeps its. *)
Locks ==
  /\ \A c \in CPUs : /\ InAlloc(c) => mallocLock
                     /\ InFree(c)  => freeLock
                     /\ Moving(c)  => reallocLock
  /\ \A c, d \in CPUs : c # d => /\ ~(InAlloc(c) /\ InAlloc(d))
                                 /\ ~(InFree(c) /\ InFree(d))
                                 /\ ~(Moving(c) /\ Moving(d))

(* Reallocate has its new block. *)
Moved(c) == pc[c] \in { "copy", "freeWait", "done" } \/ (InFree(c) /\ Moving(c))
Copied(c) == pc[c] \in { "freeWait", "done" } \/ (InFree(c) /\ Moving(c))

(* What a call knows of its own locals and of the block it holds. *)
Calling(c) ==
  /\ pc[c] \in { "allocWait", "copy", "freeWait", "done" } => Moving(c)
  /\ pc[c] = "idle" => ~Moving(c)
  /\ pc[c] \in { "idle", "find", "fault", "allocWait" } => ret[c] = NULL
  /\ InFree(c) /\ ~Moving(c) => ret[c] = NULL
  /\ InAlloc(c) \/ Moving(c) => req[c] \in Sizes
  /\ Moving(c) => object[c] \in Objects /\ req[c] > object[c].size
  /\ Moving(c) /\ ~InFree(c) /\ pc[c] # "done" => object[c] \in objects[c]
Holding(c) ==
  /\ pc[c] = "split" => Sound(mem, ret[c]) /\ mem[ret[c]] >= NODE + req[c]
  /\ pc[c] = "publish" => Sound(mem, node[c])
  /\ pc[c] = "publish" /\ ret[c] # NULL =>
       /\ Sound(mem, ret[c]) /\ mem[ret[c]] = NODE + req[c] + mem[node[c]]
       /\ node[c] = ret[c] + NODE + req[c]
  /\ pc[c] = "finish" \/ Moved(c) =>
       ret[c] \in Word /\ Extent(ret[c], NODE + req[c]) \subseteq Word
  /\ Moved(c) => mem[ret[c]] = NODE + req[c]
  /\ Copied(c) => \A a \in Extent(ret[c] + NODE, object[c].size) : mem[a] = Data(c)
  /\ InFree(c) => Sound(mem, node[c])

(* What it knows of the list, which nobody else changes meanwhile. *)
Listed(c) ==
  /\ pc[c] \in { "find", "unlink" } => cur[c] \in Nodes(mem, head) \union {NULL}
  /\ pc[c] = "unlink" => /\ ret[c] \in Nodes(mem, head) /\ ret[c] = Candidate(c)
                         /\ mem[ret[c]] >= NODE + req[c]
  /\ pc[c] \in { "publish", "freePublish" } => mem[node[c] + 1] = head

(* How far it has searched: every node behind it is too small. *)
Passed(c) == Nodes(mem, head) \ Nodes(mem, Candidate(c))
Searched(c) ==
  /\ pc[c] = "find" => \A n \in Passed(c) : mem[n] < NODE + req[c]
  /\ pc[c] = "publish" /\ ret[c] = NULL =>
       /\ mem[node[c]] = Expand * PageWords
       /\ \A n \in Nodes(mem, head) : mem[n] < NODE + req[c]

(* The objects of a CPU's callers: header and contents are in place. *)
Keeping(c) ==
  \A o \in objects[c] :
    /\ mem[o.at - NODE] = NODE + o.size
    /\ \A a \in Extent(o.at, o.size) : mem[a] = Data(c)

(* The blocks of one CPU are apart, *)
OwnApart(c) ==
  /\ Claimed(c) \intersect Linking(c) = {}
  /\ (Claimed(c) \union Linking(c)) \intersect Owned(c) = {}
  /\ \A o, p \in objects[c] : o # p => Block(o) \intersect Block(p) = {}

(* and so are those of different CPUs and the free ones. *)
Apart ==
  /\ \A c \in CPUs : OwnApart(c) /\ InUse(c) \intersect Space(mem, head) = {}
  /\ \A c, d \in CPUs : c # d => InUse(c) \intersect InUse(d) = {}

Covered == Space(mem, head) \union UNION { InUse(c) : c \in CPUs } = HeapWords

(* The heap has all pages of the calls of ExpandHeap so far. *)
Paged ==
  /\ taken \in 0 .. Len(PageSeq)
  /\ taken > 0 => taken >= InitPages /\ (taken - InitPages) % Expand = 0
  /\ taken = 0 => head = NULL /\ \A c \in CPUs : pc[c] = "idle" /\ objects[c] = {}

Inv ==
  /\ Typed /\ Locks /\ Serial /\ Paged
  /\ GoodList(mem, head)
  /\ \A c \in CPUs : Calling(c) /\ Holding(c) /\ Listed(c) /\ Searched(c) /\ Keeping(c)
  /\ Apart /\ Covered

(* No split leaves less than a node. *)
NoSliver == \A c \in CPUs : pc[c] = "split" => mem[ret[c]] - (NODE + req[c]) # 1

-----------------------------------------------------------------------------
(* Memory and blocks *)

LEMMA Constants ==
  /\ NULL = 0 /\ NODE = 2 /\ NULL \notin Word
  /\ Word \subseteq Nat /\ \A n \in Word : n >= NODE /\ n <= MemTop
  /\ \A a, b \in Word : a .. b \subseteq Word
  /\ MemTop \in Nat /\ PageWords \in Nat \ {0} /\ Expand \in Nat \ {0}
  /\ Len(PageSeq) \in Nat /\ InitPages \in 1 .. Len(PageSeq)
  /\ CPUs \subseteq Nat \ {0} /\ Sizes \subseteq Nat \ {0}
<1>1. Len(PageSeq) \in Nat
  BY HeapAssumption DEF PagesOK
<1>. QED
  BY <1>1, HeapAssumption DEF NULL, NODE, Word

LEMMA InExtent ==
  ASSUME NEW n \in Int, NEW s \in Int, NEW a
  PROVE  a \in Extent(n, s) <=> a \in Int /\ n <= a /\ a < n + s
BY DEF Extent

(* Sizes of whole nodes. *)
LEMMA WholeSizes ==
  /\ \A s \in Sizes : Whole(NODE + s)
  /\ \A a, b \in Nat : Whole(a) /\ Whole(a + b) => Whole(b)
  /\ \A n \in Nat : Whole(n * PageWords)
<1>1. NODE = 2 /\ Sizes \subseteq Nat /\ PageWords \in Nat
  BY Constants
<1>2. \A s \in Sizes : Whole(NODE + s)
  BY <1>1 DEF Whole, NodeSized
<1>3. \A a, b \in Nat : Whole(a) /\ Whole(a + b) => Whole(b)
  BY <1>1 DEF Whole
<1>4. ASSUME NEW n \in Nat PROVE Whole(n * PageWords)
  <2>1. SUFFICES ASSUME PageWords % 2 = 0 PROVE (n * PageWords) % 2 = 0
    BY <1>1 DEF Whole, NodeSized
  <2>2. PICK k \in Int : PageWords = 2 * k
    BY <1>1, <2>1
  <2>3. n * PageWords = 2 * (n * k) /\ n * k \in Int
    BY <1>1, <2>2
  <2>4. \A x \in Int : (2 * x) % 2 = 0
    OBVIOUS
  <2>. QED
    BY <2>3, <2>4
<1>. QED
  BY <1>2, <1>3, <1>4

(* A block cut in two. *)
LEMMA Cut ==
  ASSUME NEW n \in Int, NEW r \in Nat, NEW s \in Nat
  PROVE  /\ Extent(n, r + s) = Extent(n, r) \union Extent(n + r, s)
         /\ Extent(n, r) \intersect Extent(n + r, s) = {}
BY DEF Extent

(* A block holds both words of its node. *)
LEMMA HoldsNode ==
  ASSUME NEW m, NEW n, Sound(m, n)
  PROVE  /\ n \in Word /\ n + 1 \in Word
         /\ n \in Extent(n, m[n]) /\ n + 1 \in Extent(n, m[n])
BY Constants DEF Sound, Extent

LEMMA LinksTyped == ASSUME NEW m PROVE Links(m) \in [Word -> Word \union {NULL}]
BY DEF Links

-----------------------------------------------------------------------------
(* What each operation does to the list *)

LEMMA ListFacts ==
  ASSUME NEW m, NEW h, GoodList(m, h)
  PROVE  /\ Nodes(m, h) \subseteq Word
         /\ h # NULL => h \in Nodes(m, h)
         /\ \A n \in Nodes(m, h) :
              /\ Sound(m, n) /\ Links(m)[n] = m[n + 1]
              /\ m[n + 1] # NULL => m[n + 1] \in Nodes(m, h)
              /\ Extent(n, m[n]) \subseteq Space(m, h)
              /\ n \in Space(m, h) /\ n + 1 \in Space(m, h)
<1>1. Links(m) \in [Word -> Word \union {NULL}] /\ h \in Word \union {NULL}
  BY LinksTyped DEF GoodList
<1>2. Nodes(m, h) \in SUBSET Word /\ Closed(Nodes(m, h), h, Links(m))
  BY <1>1, ReachClosed DEF Nodes
<1>3. ASSUME NEW n \in Nodes(m, h)
      PROVE  /\ Sound(m, n) /\ Links(m)[n] = m[n + 1]
             /\ n \in Extent(n, m[n]) /\ n + 1 \in Extent(n, m[n])
  <2>1. Sound(m, n) /\ m[n + 1] \in Word \union {NULL}
    BY DEF GoodList
  <2>2. n \in Word /\ n + 1 \in Word /\ n \in Extent(n, m[n]) /\ n + 1 \in Extent(n, m[n])
    BY <2>1, HoldsNode
  <2>. QED
    BY <2>1, <2>2 DEF Links
<1>4. \A n \in Nodes(m, h) : Extent(n, m[n]) \subseteq Space(m, h)
  BY DEF Space, Cover
<1>. QED
  BY <1>2, <1>3, <1>4 DEF Closed

(* Writes off the free blocks leave the list alone. *)
LEMMA ListKept ==
  ASSUME NEW m, NEW p, NEW h, GoodList(m, h), \A a \in Space(m, h) : p[a] = m[a]
  PROVE  GoodList(p, h) /\ Nodes(p, h) = Nodes(m, h) /\ Space(p, h) = Space(m, h)
<1>1. \A n \in Nodes(m, h) : p[n] = m[n] /\ p[n + 1] = m[n + 1]
  BY ListFacts
<1>2. /\ Links(m) \in [Word -> Word \union {NULL}] /\ Links(p) \in [Word -> Word \union {NULL}]
      /\ h \in Word \union {NULL} /\ IsList(Word, h, Links(m))
  BY LinksTyped DEF GoodList
<1>3. \A n \in Nodes(m, h) : n \in Word /\ Links(p)[n] = Links(m)[n]
  BY <1>1, ListFacts DEF Links
<1>4. Nodes(p, h) = Nodes(m, h)
  BY <1>2, <1>3, ReachFrame DEF Nodes
<1>5. IsList(Word, h, Links(p))
  BY <1>2, <1>3, ListFrame DEF Nodes
<1>6. Cover(Nodes(m, h), p) = Cover(Nodes(m, h), m) /\ NoOverlap(Nodes(m, h), p)
  BY <1>1, CoverFrame DEF GoodList
<1>7. \A n \in Nodes(m, h) : Sound(p, n) /\ p[n + 1] \in Word \union {NULL}
  BY <1>1 DEF GoodList, Sound
<1>. QED
  BY <1>2, <1>4, <1>5, <1>6, <1>7 DEF GoodList, Space

(* A block that is not free becomes the head. *)
Pushable(m, h, n) ==
  /\ GoodList(m, h) /\ Sound(m, n) /\ m[n + 1] = h
  /\ Extent(n, m[n]) \intersect Space(m, h) = {}

LEMMA ListPushed ==
  ASSUME NEW m, NEW h, NEW n, Pushable(m, h, n)
  PROVE  /\ GoodList(m, n) /\ Nodes(m, n) = Nodes(m, h) \union {n}
         /\ Space(m, n) = Space(m, h) \union Extent(n, m[n])
<1>0. /\ GoodList(m, h) /\ Sound(m, n) /\ m[n + 1] = h
      /\ Extent(n, m[n]) \intersect Space(m, h) = {}
  BY DEF Pushable
<1>1. /\ Links(m) \in [Word -> Word \union {NULL}] /\ h \in Word \union {NULL}
      /\ IsList(Word, h, Links(m)) /\ NULL \notin Word
  BY <1>0, LinksTyped, Constants DEF GoodList
<1>2. /\ n \in Word /\ n + 1 \in Word
      /\ n \in Extent(n, m[n]) /\ n + 1 \in Extent(n, m[n])
  BY <1>0, HoldsNode
<1>3. Links(m)[n] = h
  BY <1>0, <1>1, <1>2 DEF Links
<1>4. n \notin Nodes(m, h)
  BY <1>0, <1>2, ListFacts
<1>5. n \notin Reach(Word, Links(m)[n], Links(m)) /\ IsList(Word, Links(m)[n], Links(m))
  BY <1>1, <1>3, <1>4 DEF Nodes
<1>6. Nodes(m, n) = Nodes(m, h) \union {n}
  BY <1>1, <1>2, <1>3, <1>5, ReachPush DEF Nodes
<1>7. IsList(Word, n, Links(m))
  BY <1>1, <1>2, <1>5, ListPush
<1>8. Space(m, n) = Space(m, h) \union Extent(n, m[n])
  BY <1>6, CoverPush DEF Space
<1>9. NoOverlap(Nodes(m, n), m)
  <2>1. \A k \in Nodes(m, h) : Extent(k, m[k]) \intersect Extent(n, m[n]) = {}
    BY <1>0, ListFacts
  <2>. QED
    BY <1>0, <1>6, <2>1 DEF GoodList, NoOverlap
<1>10. \A k \in Nodes(m, n) : Sound(m, k) /\ m[k + 1] \in Word \union {NULL}
  BY <1>0, <1>1, <1>6 DEF GoodList
<1>. QED
  BY <1>2, <1>6, <1>7, <1>8, <1>9, <1>10 DEF GoodList

(* The first node is unlinked. *)
LEMMA ListPopped ==
  ASSUME NEW m, NEW h, GoodList(m, h), h # NULL
  PROVE  /\ GoodList(m, m[h + 1]) /\ Nodes(m, m[h + 1]) = Nodes(m, h) \ {h}
         /\ Space(m, m[h + 1]) = Space(m, h) \ Extent(h, m[h])
<1>1. /\ Links(m) \in [Word -> Word \union {NULL}] /\ h \in Word /\ NULL \notin Word
      /\ IsList(Word, h, Links(m))
  BY LinksTyped, Constants DEF GoodList
<1>2. h \in Nodes(m, h) /\ Links(m)[h] = m[h + 1] /\ m[h + 1] \in Word \union {NULL}
  BY ListFacts DEF GoodList
<1>3. Nodes(m, m[h + 1]) = Nodes(m, h) \ {h} /\ IsList(Word, m[h + 1], Links(m))
  BY <1>1, <1>2, ReachPop DEF Nodes
<1>4. /\ Cover(Nodes(m, h) \ {h}, m) = Cover(Nodes(m, h), m) \ Extent(h, m[h])
      /\ NoOverlap(Nodes(m, h) \ {h}, m)
  BY <1>2, CoverPop DEF GoodList
<1>. QED
  BY <1>2, <1>3, <1>4 DEF GoodList, Space

(* The node behind another is unlinked. *)
UnlinksBehind(m, h, k, p) ==
  /\ GoodList(m, h) /\ m \in [Word -> Int] /\ k \in Nodes(m, h) /\ m[k + 1] # NULL
  /\ p = [m EXCEPT ![k + 1] = m[m[k + 1] + 1]]

LEMMA ListUnlinked ==
  ASSUME NEW m, NEW h, NEW k, NEW p, UnlinksBehind(m, h, k, p)
  PROVE  /\ GoodList(p, h) /\ Nodes(p, h) = Nodes(m, h) \ {m[k + 1]}
         /\ Space(p, h) = Space(m, h) \ Extent(m[k + 1], m[m[k + 1]])
         /\ m[k + 1] \in Nodes(m, h) /\ p[m[k + 1]] = m[m[k + 1]]
         /\ \A n \in Nodes(m, h) : p[n] = m[n]
<1> DEFINE N == Nodes(m, h)
           r == m[k + 1]
<1>0. /\ GoodList(m, h) /\ m \in [Word -> Int] /\ k \in Nodes(m, h) /\ m[k + 1] # NULL
      /\ p = [m EXCEPT ![k + 1] = m[m[k + 1] + 1]]
  BY DEF UnlinksBehind
<1>1. /\ Links(m) \in [Word -> Word \union {NULL}] /\ Links(p) \in [Word -> Word \union {NULL}]
      /\ h \in Word \union {NULL} /\ NULL \notin Word /\ IsList(Word, h, Links(m))
  BY <1>0, LinksTyped, Constants DEF GoodList
<1>2. /\ N \subseteq Word /\ r \in N /\ \A n \in N : Links(m)[n] = m[n + 1] /\ Sound(m, n)
      /\ h \in Word
  <2>1. N \subseteq Word /\ r \in N /\ \A n \in N : Links(m)[n] = m[n + 1] /\ Sound(m, n)
    BY <1>0, ListFacts
  <2>2. h # NULL
    BY <1>0, ReachNull DEF Nodes
  <2>. QED
    BY <1>0, <1>1, <2>1, <2>2
<1>3. \A n \in N : n \in Word /\ n + 1 \in Word /\ m[n] >= NODE /\ m[n] \in Nat
  BY <1>0, <1>2, HoldsNode DEF Sound
<1>4. \A n \in N : p[n] = m[n]
  <2>1. SUFFICES ASSUME NEW n \in N PROVE n # k + 1
    BY <1>0
  <2>2. CASE n = k
    <3>1. k \in Nat
      BY <1>0, <1>3, Constants
    <3>. QED
      BY <1>0, <2>2, <3>1
  <2>3. CASE n # k
    <3>1. Extent(n, m[n]) \intersect Extent(k, m[k]) = {}
      BY <1>0, <2>3 DEF GoodList, NoOverlap
    <3>2. n \in Extent(n, m[n]) /\ k + 1 \in Extent(k, m[k])
      BY <1>0, <1>2, HoldsNode
    <3>. QED
      BY <1>0, <3>1, <3>2
  <2>. QED
    BY <1>0, <2>2, <2>3
<1>5. r \in Word /\ r + 1 \in Word /\ m[r + 1] \in Word \union {NULL} /\ k \in Word /\ k + 1 \in Word
  BY <1>0, <1>2, <1>3 DEF GoodList
<1>6. /\ p[k + 1] = m[r + 1]
      /\ \A n \in Word \ {k} : n + 1 \in Word => p[n + 1] = m[n + 1]
  BY <1>0, <1>5, Constants
<1>7. Links(p)[k] = Links(m)[Links(m)[k]]
  BY <1>0, <1>2, <1>5, <1>6 DEF Links
<1>8. \A n \in Word \ {k} : Links(p)[n] = Links(m)[n]
  BY <1>0, <1>6 DEF Links
<1>9. Links(m)[k] = r /\ k \in Reach(Word, h, Links(m))
  BY <1>0, <1>2 DEF Nodes
<1>10. Nodes(p, h) = N \ {r} /\ IsList(Word, h, Links(p))
  <2> DEFINE L == Links(m)
             O == Links(p)
  <2>1. /\ L \in [Word -> Word \union {NULL}] /\ O \in [Word -> Word \union {NULL}]
        /\ NULL \notin Word /\ h \in Word /\ IsList(Word, h, L)
        /\ k \in Reach(Word, h, L) /\ L[k] # NULL /\ O[k] = L[L[k]]
        /\ \A n \in Word \ {k} : O[n] = L[n]
    BY <1>0, <1>1, <1>2, <1>7, <1>8, <1>9
  <2>2. Reach(Word, h, O) = Reach(Word, h, L) \ {L[k]} /\ IsList(Word, h, O)
    <3>. HIDE DEF L, O
    <3>. QED
      <4>1. Unlinked(Word, h, L, k, O)
        BY <1>0, <2>1 DEF Unlinked
      <4>. QED
        BY <4>1, ReachUnlink
  <2>. QED
    BY <1>0, <1>9, <2>2 DEF Nodes
<1>11. /\ Cover(N \ {r}, m) = Cover(N, m) \ Extent(r, m[r])
       /\ NoOverlap(N \ {r}, m)
  BY <1>0, <1>2, CoverPop DEF GoodList
<1>12. Cover(N \ {r}, p) = Cover(N \ {r}, m) /\ NoOverlap(N \ {r}, p)
  <2> DEFINE M == N \ {r}
  <2>1. NoOverlap(M, m) /\ \A n \in M : p[n] = m[n]
    BY <1>0, <1>4, <1>11
  <2> HIDE DEF M
  <2>2. Cover(M, p) = Cover(M, m) /\ NoOverlap(M, p)
    BY <1>0, <2>1, CoverFrame, ZenonT(30)
  <2>. QED
    BY <1>0, <2>2 DEF M
<1>13. ASSUME NEW n \in N PROVE Sound(p, n) /\ p[n + 1] \in Word \union {NULL}
  <2>1. Sound(p, n)
    BY <1>0, <1>2, <1>4 DEF Sound
  <2>2. m[n + 1] \in Word \union {NULL}
    BY <1>0 DEF GoodList
  <2>. QED
    BY <1>0, <1>3, <1>5, <1>6, <2>1, <2>2
<1>. QED
  BY <1>0, <1>1, <1>2, <1>4, <1>10, <1>11, <1>12, <1>13 DEF GoodList, Space

(* The nodes from anywhere in the list on. *)
LEMMA ListTail ==
  ASSUME NEW m, NEW h, GoodList(m, h), NEW k \in Nodes(m, h) \union {NULL}
  PROVE  Nodes(m, k) \subseteq Nodes(m, h)
<1>1. Links(m) \in [Word -> Word \union {NULL}] /\ h \in Word \union {NULL}
  BY LinksTyped DEF GoodList
<1>2. Nodes(m, h) \in SUBSET Word /\ Closed(Nodes(m, h), h, Links(m))
  BY <1>1, ReachClosed DEF Nodes
<1>3. Closed(Nodes(m, h), k, Links(m))
  BY <1>2 DEF Closed
<1>. QED
  BY <1>2, <1>3, ReachLeast DEF Nodes

LEMMA TailKept ==
  ASSUME NEW m, NEW p, NEW h, GoodList(m, h), NEW k \in Nodes(m, h) \union {NULL},
         \A a \in Space(m, h) : p[a] = m[a]
  PROVE  Nodes(p, k) = Nodes(m, k)
<1>1. Links(m) \in [Word -> Word \union {NULL}] /\ Links(p) \in [Word -> Word \union {NULL}]
  BY LinksTyped
<1>2. \A n \in Nodes(m, h) : n \in Word /\ Links(p)[n] = Links(m)[n]
  BY ListFacts DEF Links
<1>3. k \in Word \union {NULL}
  BY ListFacts
<1>4. \A n \in Nodes(m, k) : Links(p)[n] = Links(m)[n]
  BY <1>2, ListTail
<1>. QED
  BY <1>1, <1>3, <1>4, ReachFrame DEF Nodes

-----------------------------------------------------------------------------
(* What a step of one CPU leaves alone *)

(* The locals and the objects of another CPU. *)
Same(d) ==
  /\ pc'[d] = pc[d] /\ req'[d] = req[d] /\ cur'[d] = cur[d] /\ ret'[d] = ret[d]
  /\ node'[d] = node[d] /\ object'[d] = object[d] /\ objects'[d] = objects[d]

LEMMA HeapInMemory == ASSUME Paged PROVE HeapWords \subseteq Word
BY HeapAssumption DEF Paged, PagesOK, HeapWords

LEMMA Pieces ==
  ASSUME Inv, NEW c \in CPUs
  PROVE  /\ InUse(c) \subseteq HeapWords /\ Space(mem, head) \subseteq HeapWords
         /\ HeapWords \subseteq Word
         /\ Claimed(c) \subseteq InUse(c) /\ Linking(c) \subseteq InUse(c)
         /\ Owned(c) \subseteq InUse(c) /\ \A o \in objects[c] : Block(o) \subseteq InUse(c)
<1>1. /\ Claimed(c) \subseteq InUse(c) /\ Linking(c) \subseteq InUse(c)
      /\ Owned(c) \subseteq InUse(c) /\ \A o \in objects[c] : Block(o) \subseteq Owned(c)
  BY DEF InUse, Owned
<1>2. InUse(c) \subseteq HeapWords /\ Space(mem, head) \subseteq HeapWords
  BY DEF Inv, Covered
<1>. QED
  BY <1>1, <1>2, HeapInMemory DEF Inv

(* The block of an object, its node and its words. *)
LEMMA BlockFacts ==
  ASSUME Inv, NEW c \in CPUs, NEW o \in objects[c]
  PROVE  /\ o \in Objects /\ o.at \in Word /\ o.at - NODE \in Word /\ o.size \in Nat \ {0}
         /\ o.size \in Sizes
         /\ Block(o) = Extent(o.at - NODE, NODE + o.size) /\ Block(o) \subseteq InUse(c)
         /\ o.at - NODE \in Block(o) /\ Extent(o.at, o.size) \subseteq Block(o)
         /\ Block(o) \subseteq Word
<1>1. o \in Objects /\ o.at \in Word /\ o.size \in Sizes
  BY DEF Inv, Typed, Objects
<1>2. o.at \in Nat /\ o.size \in Nat \ {0} /\ NODE = 2
  BY <1>1, Constants
<1>3. o.at - NODE \in Block(o) /\ Extent(o.at, o.size) \subseteq Block(o)
  <2> DEFINE x == o.at
             y == o.size
  <2>1. x \in Nat /\ y \in Nat \ {0}
    BY <1>2
  <2> HIDE DEF x, y
  <2>2. x - NODE \in Extent(x - NODE, NODE + y) /\ Extent(x, y) \subseteq Extent(x - NODE, NODE + y)
    BY <2>1, <1>2 DEF Extent
  <2>. QED
    BY <2>2 DEF x, y, Block
<1>4. Block(o) \subseteq InUse(c) /\ InUse(c) \subseteq Word
  BY Pieces
<1>. QED
  BY <1>1, <1>2, <1>3, <1>4 DEF Block

(* The words of the blocks a call holds, by where it is. *)
LEMMA Words ==
  ASSUME Inv, NEW c \in CPUs
  PROVE  /\ pc[c] = "split" \/ (pc[c] = "publish" /\ ret[c] # NULL) =>
              /\ Claimed(c) = Extent(ret[c], mem[ret[c]]) /\ ret[c] \in Claimed(c)
              /\ ret[c] # NULL
         /\ pc[c] = "publish" /\ ret[c] # NULL =>
              Extent(node[c], mem[node[c]]) \subseteq Claimed(c) /\ Linking(c) = {}
         /\ InFree(c) \/ (pc[c] = "publish" /\ ret[c] = NULL) =>
              Linking(c) = Extent(node[c], mem[node[c]])
         /\ InFree(c) \/ pc[c] = "publish" =>
              node[c] \in InUse(c) /\ node[c] + 1 \in InUse(c) /\ node[c] + 1 \in Word
         /\ pc[c] = "finish" \/ Moved(c) =>
              /\ Claimed(c) = Extent(ret[c], NODE + req[c]) /\ ret[c] \in Claimed(c)
              /\ ret[c] # NULL /\ req[c] \in Nat \ {0}
         /\ Copied(c) => Extent(ret[c] + NODE, object[c].size) \subseteq Claimed(c)
<1>1. Calling(c) /\ Holding(c)
  BY DEF Inv
<1>2. /\ ret[c] \in Word \union {NULL} /\ node[c] \in Word \union {NULL}
      /\ Claimed(c) \subseteq InUse(c) /\ Linking(c) \subseteq InUse(c)
  BY Pieces DEF Inv, Typed
<1>3. ASSUME pc[c] = "split" \/ (pc[c] = "publish" /\ ret[c] # NULL)
      PROVE  /\ Claimed(c) = Extent(ret[c], mem[ret[c]]) /\ ret[c] \in Claimed(c)
             /\ ret[c] # NULL
  <2>1. Sound(mem, ret[c]) /\ ret[c] # NULL
    BY <1>1, <1>3, Constants DEF Holding, Sound
  <2>2. Claimed(c) = Extent(ret[c], mem[ret[c]])
    BY <1>3, <2>1 DEF Claimed, SizeOf
  <2>. QED
    BY <2>1, <2>2, HoldsNode
<1>4. ASSUME pc[c] = "publish", ret[c] # NULL
      PROVE  Extent(node[c], mem[node[c]]) \subseteq Claimed(c) /\ Linking(c) = {}
  <2> DEFINE r == ret[c]
             q == NODE + req[c]
             s == mem[node[c]]
             n == node[c]
  <2>1. req[c] \in Nat /\ NODE \in Nat
    BY <1>1, <1>4, Constants DEF Calling, InAlloc
  <2>2. /\ r \in Nat /\ s \in Nat /\ mem[r] = q + s /\ n = r + NODE + req[c]
        /\ Claimed(c) = Extent(r, mem[r])
    BY <1>1, <1>3, <1>4, Constants DEF Holding, Sound
  <2>3. Linking(c) = {}
    BY <1>4 DEF Linking, InFree
  <2>4. q \in Nat /\ n = r + q
    <3>1. r \in Nat /\ n = r + NODE + req[c]
      BY <2>2
    <3>. HIDE DEF r, n
    <3>. QED
      BY <2>1, <3>1
  <2>5. Extent(n, s) \subseteq Claimed(c)
    <3>1. Extent(r, q + s) = Extent(r, q) \union Extent(r + q, s)
      <4>1. r \in Int /\ q \in Nat /\ s \in Nat
        BY <2>2, <2>4
      <4>. HIDE DEF r, q, s, n
      <4>. QED
        BY <4>1, Cut
    <3>. HIDE DEF r, q, s, n
    <3>. QED
      BY <2>2, <2>4, <3>1
  <2>. QED
    BY <2>3, <2>5
<1>5. ASSUME InFree(c) \/ (pc[c] = "publish" /\ ret[c] = NULL)
      PROVE  Linking(c) = Extent(node[c], mem[node[c]])
  BY <1>5 DEF Linking, SizeOf
<1>6. ASSUME InFree(c) \/ pc[c] = "publish"
      PROVE  node[c] \in InUse(c) /\ node[c] + 1 \in InUse(c) /\ node[c] + 1 \in Word
  <2>1. Sound(mem, node[c])
    BY <1>1, <1>6 DEF Holding
  <2>2. /\ node[c] \in Extent(node[c], mem[node[c]]) /\ node[c] + 1 \in Extent(node[c], mem[node[c]])
        /\ node[c] + 1 \in Word
    BY <2>1, HoldsNode
  <2>3. Extent(node[c], mem[node[c]]) \subseteq InUse(c)
    BY <1>2, <1>4, <1>5, <1>6
  <2>. QED
    BY <2>2, <2>3
<1>7. ASSUME pc[c] = "finish" \/ Moved(c)
      PROVE  /\ Claimed(c) = Extent(ret[c], NODE + req[c]) /\ ret[c] \in Claimed(c)
             /\ ret[c] # NULL /\ req[c] \in Nat \ {0}
  <2>1. ret[c] \in Nat /\ ret[c] # NULL
    BY <1>1, <1>7, Constants DEF Holding
  <2>2. req[c] \in Nat \ {0}
    BY <1>1, <1>7, Constants DEF Calling, InAlloc, Moved
  <2>3. Claimed(c) = Extent(ret[c], NODE + req[c])
    BY <1>7, <2>1 DEF Claimed, Moved, InFree
  <2>. QED
    BY <2>1, <2>2, <2>3, Constants, InExtent
<1>8. ASSUME Copied(c)
      PROVE  Extent(ret[c] + NODE, object[c].size) \subseteq Claimed(c)
  <2> DEFINE r == ret[c]
             q == req[c]
             s == object[c].size
  <2>1. Moved(c) /\ Moving(c)
    BY <1>1, <1>8 DEF Copied, Moved, Calling
  <2>2. r \in Nat /\ q \in Nat /\ s \in Nat /\ s < q
    BY <1>1, <1>7, <2>1, Constants DEF Calling, Holding, Objects
  <2>3. Claimed(c) = Extent(r, NODE + q)
    BY <1>7, <2>1
  <2>4. Extent(r + NODE, s) \subseteq Extent(r, NODE + q)
    <3>. HIDE DEF r, q, s
    <3>. QED
      BY <2>2, Constants DEF Extent
  <2>. QED
    BY <2>3, <2>4
<1>. QED
  BY <1>3, <1>4, <1>5, <1>6, <1>7, <1>8

(* What another CPU knows of its own blocks stays true. *)
LEMMA Elsewhere ==
  ASSUME Inv, NEW d \in CPUs, Same(d), \A a \in InUse(d) : mem'[a] = mem[a]
  PROVE  /\ Claimed(d)' = Claimed(d) /\ Linking(d)' = Linking(d) /\ Owned(d)' = Owned(d)
         /\ InUse(d)' = InUse(d) /\ OwnApart(d)'
         /\ Calling(d)' /\ Holding(d)' /\ Keeping(d)'
<1>1. /\ pc'[d] = pc[d] /\ req'[d] = req[d] /\ cur'[d] = cur[d] /\ ret'[d] = ret[d]
      /\ node'[d] = node[d] /\ object'[d] = object[d] /\ objects'[d] = objects[d]
  BY DEF Same
<1>2. /\ InAlloc(d)' = InAlloc(d) /\ InFree(d)' = InFree(d) /\ Moving(d)' = Moving(d)
      /\ Moved(d)' = Moved(d) /\ Copied(d)' = Copied(d)
  BY <1>1 DEF InAlloc, InFree, Moving, Moved, Copied
<1>3. Calling(d) /\ Holding(d) /\ Keeping(d) /\ OwnApart(d)
  BY DEF Inv, Apart
<1>4. Claimed(d) \subseteq InUse(d) /\ Linking(d) \subseteq InUse(d)
  BY Pieces
<1>5. Claimed(d)' = Claimed(d)
  <2>1. CASE ret[d] = NULL \/ pc[d] = "unlink"
    BY <1>1, <2>1 DEF Claimed
  <2>2. CASE ret[d] # NULL /\ pc[d] \in {"split", "publish"}
    <3>1. mem'[ret[d]] = mem[ret[d]]
      BY <1>4, <2>2, Words
    <3>. QED
      BY <1>1, <2>2, <3>1 DEF Claimed, SizeOf
  <2>3. CASE ret[d] # NULL /\ pc[d] \notin {"unlink", "split", "publish"}
    BY <1>1, <2>3 DEF Claimed
  <2>. QED
    BY <2>1, <2>2, <2>3
<1>6. InFree(d) \/ pc[d] = "publish" => /\ mem'[node[d]] = mem[node[d]]
                                        /\ mem'[node[d] + 1] = mem[node[d] + 1]
  BY Words
<1>7. Linking(d)' = Linking(d)
  <2>1. CASE InFree(d) \/ (pc[d] = "publish" /\ ret[d] = NULL)
    BY <1>1, <1>2, <1>6, <2>1 DEF Linking, SizeOf
  <2>2. CASE ~(InFree(d) \/ (pc[d] = "publish" /\ ret[d] = NULL))
    BY <1>1, <1>2, <2>2 DEF Linking
  <2>. QED
    BY <2>1, <2>2
<1>8. Owned(d)' = Owned(d)
  BY <1>1 DEF Owned
<1>9. InUse(d)' = InUse(d)
  BY <1>5, <1>7, <1>8 DEF InUse
<1>10. OwnApart(d)'
  BY <1>1, <1>3, <1>5, <1>7, <1>8 DEF OwnApart
<1>11. Calling(d)'
  BY <1>1, <1>2, <1>3 DEF Calling
<1>12. Holding(d)'
  <2>1. pc[d] = "split" \/ (pc[d] = "publish" /\ ret[d] # NULL) =>
          mem'[ret[d]] = mem[ret[d]]
    BY <1>4, Words
  <2>2. Moved(d) => mem'[ret[d]] = mem[ret[d]]
    BY <1>4, Words
  <2>3. Copied(d) => \A a \in Extent(ret[d] + NODE, object[d].size) : mem'[a] = mem[a]
    BY <1>4, Words
  <2>. QED
    BY <1>1, <1>2, <1>3, <1>6, <2>1, <2>2, <2>3 DEF Holding, Sound
<1>13. Keeping(d)'
  <2>1. \A o \in objects[d] :
          /\ mem'[o.at - NODE] = mem[o.at - NODE]
          /\ \A a \in Extent(o.at, o.size) : mem'[a] = mem[a]
    BY BlockFacts
  <2>. QED
    BY <1>1, <1>3, <2>1 DEF Keeping
<1>. QED
  BY <1>5, <1>7, <1>8, <1>9, <1>10, <1>11, <1>12, <1>13

(* What it knows of the list stays true when the list is left alone, *)
LEMMA SameList ==
  ASSUME Inv, NEW d \in CPUs, Same(d), \A a \in InUse(d) : mem'[a] = mem[a],
         head' = head, \A a \in Space(mem, head) : mem'[a] = mem[a]
  PROVE  Listed(d)' /\ Searched(d)'
<1>1. /\ pc'[d] = pc[d] /\ req'[d] = req[d] /\ cur'[d] = cur[d] /\ ret'[d] = ret[d]
      /\ node'[d] = node[d]
  BY DEF Same
<1>2. GoodList(mem, head) /\ Listed(d) /\ Searched(d)
  BY DEF Inv
<1>3. Nodes(mem', head') = Nodes(mem, head)
  BY <1>2, ListKept
<1>4. \A n \in Nodes(mem, head) : mem'[n] = mem[n] /\ mem'[n + 1] = mem[n + 1]
  BY <1>2, ListFacts
<1>5. pc[d] \in { "publish", "freePublish" } => /\ mem'[node[d]] = mem[node[d]]
                                                /\ mem'[node[d] + 1] = mem[node[d] + 1]
  BY Words DEF InFree
<1>6. pc[d] \in { "find", "unlink" } => /\ Candidate(d)' = Candidate(d)
                                        /\ Candidate(d) \in Nodes(mem, head) \union {NULL}
  BY <1>1, <1>2, <1>4, ListFacts DEF Listed, Candidate, NextOf
<1>7. pc[d] = "find" => Nodes(mem', Candidate(d)') = Nodes(mem, Candidate(d))
  BY <1>2, <1>6, TailKept
<1>8. Listed(d)'
  BY <1>1, <1>2, <1>3, <1>4, <1>5, <1>6 DEF Listed
<1>9. pc[d] = "find" => Passed(d)' = Passed(d) /\ Passed(d) \subseteq Nodes(mem, head)
  BY <1>3, <1>7 DEF Passed
<1>10. Searched(d)'
  BY <1>1, <1>2, <1>3, <1>4, <1>5, <1>9 DEF Searched
<1>. QED
  BY <1>8, <1>10

(* or when it is not at the list. *)
AtList(d) == pc[d] \in { "find", "unlink", "publish", "freePublish" }

LEMMA NotAtList ==
  ASSUME NEW d \in CPUs, Same(d), ~AtList(d)
  PROVE  Listed(d)' /\ Searched(d)'
BY DEF Same, AtList, Listed, Searched

(* Whoever is inside Allocate or Free has the list for itself. *)
LEMMA Alone ==
  ASSUME Inv, NEW c \in CPUs, InFree(c) \/ (InAlloc(c) /\ pc[c] # "fault")
  PROVE  \A d \in CPUs \ {c} : ~AtList(d)
<1>1. SUFFICES ASSUME NEW d \in CPUs \ {c}, AtList(d) PROVE FALSE
  OBVIOUS
<1>2. (InAlloc(d) /\ pc[d] # "fault") \/ InFree(d)
  BY <1>1 DEF AtList, InAlloc, InFree
<1>3. ~(InAlloc(c) /\ InAlloc(d)) /\ ~(InFree(c) /\ InFree(d))
  BY DEF Inv, Locks
<1>4. /\ InAlloc(c) /\ InFree(d) => pc[c] = "fault"
      /\ InAlloc(d) /\ InFree(c) => pc[d] = "fault"
  BY DEF Inv, Serial
<1>. QED
  BY <1>2, <1>3, <1>4

(* A lock is taken when it is free and given back by its holder. *)
LEMMA LocksStep ==
  ASSUME Locks, NEW c \in CPUs, \A d \in CPUs \ {c} : Same(d),
         InAlloc(c)' => mallocLock' /\ (InAlloc(c) \/ ~mallocLock),
         InFree(c)'  => freeLock' /\ (InFree(c) \/ ~freeLock),
         Moving(c)'  => reallocLock' /\ (Moving(c) \/ ~reallocLock),
         mallocLock => mallocLock' \/ InAlloc(c),
         freeLock => freeLock' \/ InFree(c),
         reallocLock => reallocLock' \/ Moving(c)
  PROVE  Locks'
<1>1. \A d \in CPUs \ {c} : /\ InAlloc(d)' = InAlloc(d) /\ InFree(d)' = InFree(d)
                            /\ Moving(d)' = Moving(d)
  BY DEF Same, InAlloc, InFree, Moving
<1>2. \A d \in CPUs : /\ InAlloc(d) => mallocLock
                      /\ InFree(d)  => freeLock
                      /\ Moving(d)  => reallocLock
  BY DEF Locks
<1>3. \A d, e \in CPUs : d # e => /\ ~(InAlloc(d) /\ InAlloc(e))
                                  /\ ~(InFree(d) /\ InFree(e))
                                  /\ ~(Moving(d) /\ Moving(e))
  BY DEF Locks
<1>4. \A d \in CPUs : /\ InAlloc(d)' => mallocLock'
                      /\ InFree(d)'  => freeLock'
                      /\ Moving(d)'  => reallocLock'
  BY <1>1, <1>2, <1>3
<1>5. \A d, e \in CPUs : d # e => /\ ~(InAlloc(d)' /\ InAlloc(e)')
                                  /\ ~(InFree(d)' /\ InFree(e)')
                                  /\ ~(Moving(d)' /\ Moving(e)')
  BY <1>1, <1>2, <1>3
<1>. QED
  BY <1>4, <1>5 DEF Locks

(* A step of c writes to c's blocks, to free ones and to the pages N the heap
   has just got, and shares those words out anew between c and the list. *)
LEMMA Acts ==
  ASSUME Inv, NEW c \in CPUs, NEW N,
         \A d \in CPUs \ {c} : Same(d),
         N \intersect HeapWords = {}, HeapWords' = HeapWords \union N,
         \A a \in Word : a \notin InUse(c) \union Space(mem, head) \union N =>
                            mem'[a] = mem[a],
         \/ \A d \in CPUs \ {c} : ~AtList(d)
         \/ head' = head /\ \A a \in Space(mem, head) : mem'[a] = mem[a],
         Typed', Locks', Serial', Paged', GoodList(mem', head'),
         Calling(c)', Holding(c)', Listed(c)', Searched(c)', Keeping(c)', OwnApart(c)',
         InUse(c)' \intersect Space(mem', head') = {},
         InUse(c)' \union Space(mem', head') = InUse(c) \union Space(mem, head) \union N
  PROVE  Inv'
<1>1. /\ \A d \in CPUs : /\ InUse(d) \subseteq HeapWords /\ InUse(d) \subseteq Word
                         /\ InUse(d) \intersect Space(mem, head) = {}
      /\ \A d, e \in CPUs : d # e => InUse(d) \intersect InUse(e) = {}
  BY Pieces DEF Inv, Apart
<1>2. \A d \in CPUs \ {c} : \A a \in InUse(d) : mem'[a] = mem[a]
  BY <1>1
<1>3. ASSUME NEW d \in CPUs \ {c}
      PROVE  /\ InUse(d)' = InUse(d) /\ OwnApart(d)'
             /\ Calling(d)' /\ Holding(d)' /\ Keeping(d)'
  BY <1>2, Elsewhere
<1>4. ASSUME NEW d \in CPUs \ {c} PROVE Listed(d)' /\ Searched(d)'
  <2>1. CASE ~AtList(d)
    BY <2>1, NotAtList
  <2>2. CASE head' = head /\ \A a \in Space(mem, head) : mem'[a] = mem[a]
    BY <1>2, <2>2, SameList
  <2>. QED
    BY <2>1, <2>2
<1>5. \A d \in CPUs : Calling(d)' /\ Holding(d)' /\ Listed(d)' /\ Searched(d)' /\ Keeping(d)'
  BY <1>3, <1>4
<1>6. \A d \in CPUs \ {c} : /\ InUse(d)' \intersect InUse(c)' = {}
                            /\ InUse(d)' \intersect Space(mem', head') = {}
  BY <1>1, <1>3
<1>7. Apart'
  <2>1. \A d \in CPUs : OwnApart(d)' /\ InUse(d)' \intersect Space(mem', head') = {}
    BY <1>3, <1>6
  <2>2. \A d, e \in CPUs : d # e => InUse(d)' \intersect InUse(e)' = {}
    BY <1>1, <1>3, <1>6
  <2>. QED
    BY <2>1, <2>2 DEF Apart
<1>8. Covered'
  <2> DEFINE U == UNION { InUse(d) : d \in CPUs }
             V == UNION { InUse(d)' : d \in CPUs }
  <2>1. Space(mem, head) \union U = HeapWords
    BY DEF Inv, Covered
  <2>2. \A a : a \in U <=> a \in InUse(c) \/ \E d \in CPUs \ {c} : a \in InUse(d)
    OBVIOUS
  <2>3. \A a : a \in V <=> a \in InUse(c)' \/ \E d \in CPUs \ {c} : a \in InUse(d)
    BY <1>3
  <2>4. Space(mem', head') \union V = HeapWords \union N
    <3>. HIDE DEF U, V
    <3>. QED
      BY <2>1, <2>2, <2>3
  <2>. QED
    BY <2>4 DEF Covered
<1>. QED
  BY <1>5, <1>7, <1>8 DEF Inv

-----------------------------------------------------------------------------
(* The pages of one call of ExpandHeap *)

(* A set of numbers has a least element. *)
LEMMA LessThan ==
  \E R : IsWellFoundedOn(R, Nat) /\ \A x, y \in Nat : x < y => << x, y >> \in R
<1>1. \A x, y \in Nat : x < y => << x, y >> \in OpToRel(<, Nat)
  BY DEF OpToRel
<1>. QED
  BY <1>1, NatLessThanWellFounded, Zenon

LEMMA Least ==
  ASSUME NEW T, T \subseteq Nat, T # {}
  PROVE  \E x \in T : \A y \in T : x <= y
<1>1. PICK R : IsWellFoundedOn(R, Nat) /\ \A x, y \in Nat : x < y => << x, y >> \in R
  BY LessThan
<1>2. IsWellFoundedOn(R, Nat)
  BY <1>1
<1>3. PICK x \in T : \A y \in T : ~(<< y, x >> \in R)
  BY <1>2, WFMin, Zenon
<1>4. \A y \in T : ~(y < x)
  BY <1>1, <1>3
<1>. QED
  BY <1>3, <1>4

(* What is behind a multiple of b, up to the next one. *)
LEMMA NextMultiple ==
  ASSUME NEW b \in Nat \ {0}, NEW x \in Nat, x % b = 0
  PROVE  (x + b) % b = 0 /\ \A r \in 1 .. b - 1 : (x + r) % b # 0
<1>1. x \div b \in Int /\ x = b * (x \div b)
  OBVIOUS
<1>2. PICK q \in Int : x = b * q
  BY <1>1
<1>3. ASSUME NEW p \in Int, NEW r \in 0 .. b - 1 PROVE (b * p + r) % b = r
  <2> DEFINE y == b * p + r
             d == y \div b
             e == y % b
  <2>1. y \in Int /\ d \in Int /\ e \in 0 .. b - 1 /\ y = b * d + e
    OBVIOUS
  <2>2. b * (p - d) = e - r
    BY <2>1
  <2>. QED
    BY <2>1, <2>2
<1>4. \A r \in 0 .. b - 1 : (x + r) % b = r
  BY <1>2, <1>3
<1>5. (x + b) % b = 0
  <2> DEFINE p == q + 1
  <2>1. p \in Int /\ 0 \in 0 .. b - 1 /\ x + b = b * p + 0
    BY <1>2
  <2> HIDE DEF p
  <2>2. (b * p + 0) % b = 0
    BY <1>3, <2>1
  <2>. QED
    BY <2>1, <2>2
<1>6. ASSUME NEW r \in 1 .. b - 1 PROVE (x + r) % b # 0
  <2>1. r \in 0 .. b - 1 /\ r # 0
    OBVIOUS
  <2>2. (x + r) % b = r
    BY <1>4, <2>1
  <2>. QED
    BY <2>1, <2>2
<1>. QED
  BY <1>5, <1>6

(* Pages: how many words n of them have. *)
PagesWords(n) == n * PageWords

LEMMA Products ==
  ASSUME NEW n \in Nat
  PROVE  /\ PagesWords(n) \in Nat /\ PagesWords(n + 1) = PagesWords(n) + PageWords
         /\ PagesWords(1) = PageWords /\ (n > 0 => PagesWords(n) >= PageWords)
<1>1. PageWords \in Nat
  BY HeapAssumption
<1>. QED
  BY <1>1 DEF PagesWords

(* Pages in a row are one block. *)
PagesOf(s, k) == UNION { PageExtent(i) : i \in s + 1 .. s + k }
InRow(s, n) == \A i \in s + 2 .. s + n : PageSeq[i] = PageSeq[i - 1] + PageWords

LEMMA PageFacts ==
  ASSUME NEW i \in 1 .. Len(PageSeq)
  PROVE  /\ PageSeq[i] \in Word /\ PageSeq[i] \in Nat
         /\ PageExtent(i) = Extent(PageSeq[i], PageWords) /\ PageExtent(i) \subseteq Word
         /\ \A j \in 1 .. Len(PageSeq) : i # j => PageExtent(i) \intersect PageExtent(j) = {}
<1>1. PageSeq \in Seq(Word) /\ DOMAIN PageSeq = 1 .. Len(PageSeq)
  BY HeapAssumption DEF PagesOK
<1>2. PageSeq[i] \in Word
  BY <1>1
<1>. QED
  BY <1>1, <1>2, HeapAssumption, Constants DEF PagesOK, PageExtent

LEMMA OnePage ==
  ASSUME NEW s \in Nat
  PROVE  /\ PagesOf(s, 1) = PageExtent(s + 1)
         /\ \A k \in Nat : PagesOf(s, k + 1) = PagesOf(s, k) \union PageExtent(s + k + 1)
<1>1. s + 1 .. s + 1 = {s + 1}
  OBVIOUS
<1>2. PagesOf(s, 1) = PageExtent(s + 1)
  BY <1>1 DEF PagesOf
<1>3. ASSUME NEW k \in Nat
      PROVE  PagesOf(s, k + 1) = PagesOf(s, k) \union PageExtent(s + k + 1)
  <2>1. s + 1 .. s + (k + 1) = (s + 1 .. s + k) \union {s + k + 1}
    OBVIOUS
  <2>. QED
    BY <2>1 DEF PagesOf
<1>. QED
  BY <1>2, <1>3

LEMMA Row ==
  ASSUME NEW s \in Nat, NEW n \in Nat \ {0}, s + n <= Len(PageSeq), InRow(s, n)
  PROVE  PagesOf(s, n) = Extent(PageSeq[s + 1], PagesWords(n))
<1> DEFINE base == PageSeq[s + 1]
           P(k) == /\ PageSeq[s + k] + PageWords = base + PagesWords(k)
                   /\ PagesOf(s, k) = Extent(base, PagesWords(k))
           T == { k \in 1 .. n : ~P(k) }
<1>1. Len(PageSeq) \in Nat /\ PageWords \in Nat
  BY Constants
<1>2. \A k \in 1 .. n : s + k \in 1 .. Len(PageSeq)
  BY <1>1
<1>3. s + 1 \in 1 .. Len(PageSeq) /\ base \in Nat
  BY <1>1, PageFacts
<1>4. ASSUME T # {} PROVE FALSE
  <2>1. PICK k \in T : \A j \in T : k <= j
    <3>1. T \subseteq Nat
      OBVIOUS
    <3>. QED
      BY <1>4, <3>1, Least
  <2>2. k \in 1 .. n /\ ~P(k) /\ k \in Nat
    OBVIOUS
  <2>3. CASE k = 1
    <3>1. PagesWords(1) = PageWords
      BY Products
    <3>2. PagesOf(s, 1) = Extent(base, PageWords)
      BY <1>3, OnePage, PageFacts
    <3>. QED
      BY <2>2, <2>3, <3>1, <3>2
  <2>4. CASE k # 1
    <3> DEFINE j == k - 1
    <3>1. j \in 1 .. n /\ j \in Nat /\ j < k /\ k = j + 1
      BY <2>2, <2>4
    <3>2. P(j)
      BY <2>1, <3>1
    <3>3. s + k \in s + 2 .. s + n /\ (s + k) - 1 = s + j /\ s + j + 1 = s + k
      BY <2>2, <3>1
    <3>4. PageSeq[s + k] = PageSeq[s + j] + PageWords
      BY <3>3 DEF InRow
    <3>5. PagesWords(j) \in Nat /\ PagesWords(k) = PagesWords(j) + PageWords
      BY <3>1, Products
    <3>6. PageSeq[s + j] \in Nat /\ PageSeq[s + k] \in Nat
      BY <1>2, <2>2, <3>1, PageFacts
    <3>7. PageSeq[s + k] = base + PagesWords(j)
      BY <3>2, <3>4
    <3>8. PagesOf(s, k) = PagesOf(s, j) \union Extent(PageSeq[s + k], PageWords)
      <4>1. PageExtent(s + k) = Extent(PageSeq[s + k], PageWords)
        BY <1>2, <2>2, PageFacts
      <4>2. PagesOf(s, j + 1) = PagesOf(s, j) \union PageExtent(s + j + 1)
        BY <3>1, OnePage
      <4>. QED
        BY <3>1, <3>3, <4>1, <4>2
    <3>9. Extent(base, PagesWords(j) + PageWords)
            = Extent(base, PagesWords(j)) \union Extent(base + PagesWords(j), PageWords)
      <4> DEFINE w == PagesWords(j)
      <4>1. base \in Int /\ w \in Nat /\ PageWords \in Nat
        BY <1>1, <1>3, <3>5
      <4> HIDE DEF base, w
      <4>2. Extent(base, w + PageWords) = Extent(base, w) \union Extent(base + w, PageWords)
        BY <4>1, Cut
      <4>. QED
        BY <4>2 DEF w
    <3>10. PagesOf(s, k) = Extent(base, PagesWords(k))
      BY <3>2, <3>5, <3>7, <3>8, <3>9
    <3>11. PageSeq[s + k] + PageWords = base + PagesWords(k)
      BY <1>1, <1>3, <3>5, <3>7
    <3>. QED
      BY <2>2, <3>10, <3>11
  <2>. QED
    BY <2>3, <2>4
<1>. QED
  BY <1>4

(* What ExpandHeap gets: a new block, apart from all the heap has. *)
LEMMA Expansion ==
  ASSUME NEW s \in Nat, NEW n \in Nat \ {0}, s + n <= Len(PageSeq), InRow(s, n)
  PROVE  LET N == Extent(PageSeq[s + 1], n * PageWords) IN
         /\ PageSeq[s + 1] \in Word /\ N \subseteq Word
         /\ n * PageWords \in Nat /\ n * PageWords >= NODE /\ Whole(n * PageWords)
         /\ N \intersect PagesOf(0, s) = {}
         /\ PagesOf(0, s + n) = PagesOf(0, s) \union N
<1> DEFINE N == Extent(PageSeq[s + 1], n * PageWords)
<1>1. Len(PageSeq) \in Nat /\ PageWords \in Nat /\ PageWords >= NODE
  BY HeapAssumption, Constants
<1>2. N = PagesOf(s, n)
  BY Row DEF PagesWords
<1>3. n * PageWords \in Nat /\ n * PageWords >= NODE
  <2>1. PagesWords(n) \in Nat /\ PagesWords(n) >= PageWords /\ NODE \in Nat
    BY Products, Constants
  <2>2. PagesWords(n) >= NODE
    BY <1>1, <2>1
  <2>. QED
    BY <2>1, <2>2 DEF PagesWords
<1>4. \A i \in s + 1 .. s + n : i \in 1 .. Len(PageSeq)
  BY <1>1
<1>5. N \subseteq Word
  BY <1>2, <1>4, PageFacts DEF PagesOf
<1>6. N \intersect PagesOf(0, s) = {}
  <2>1. \A i \in s + 1 .. s + n, j \in 0 + 1 .. 0 + s :
          i \in 1 .. Len(PageSeq) /\ j \in 1 .. Len(PageSeq) /\ i # j
    BY <1>1
  <2>2. \A i \in s + 1 .. s + n, j \in 0 + 1 .. 0 + s :
          PageExtent(i) \intersect PageExtent(j) = {}
    BY <2>1, PageFacts
  <2>. QED
    BY <1>2, <2>2 DEF PagesOf
<1>7. PagesOf(0, s + n) = PagesOf(0, s) \union N
  <2>1. 0 + 1 .. 0 + (s + n) = (0 + 1 .. 0 + s) \union (s + 1 .. s + n)
    OBVIOUS
  <2>. QED
    BY <1>2, <2>1 DEF PagesOf
<1>8. PageSeq[s + 1] \in Word
  BY <1>1, PageFacts
<1>9. Whole(n * PageWords)
  BY WholeSizes
<1>. QED
  BY <1>3, <1>5, <1>6, <1>7, <1>8, <1>9

LEMMA HeapPages == ASSUME taken \in Nat PROVE HeapWords = PagesOf(0, taken)
<1>1. 0 + 1 .. 0 + taken = 1 .. taken
  OBVIOUS
<1>. QED
  BY <1>1 DEF HeapWords, PagesOf

(* The pages of each call are in a row. *)
LEMMA FirstCall == InRow(0, InitPages)
<1>1. SUFFICES ASSUME NEW i \in 0 + 2 .. 0 + InitPages
               PROVE  PageSeq[i] = PageSeq[i - 1] + PageWords
  BY DEF InRow
<1>2. i \in DOMAIN PageSeq /\ i # 1 /\ ~(i > InitPages)
  BY HeapAssumption DEF PagesOK
<1>3. ~StartsCall(i)
  BY <1>2 DEF StartsCall
<1>. QED
  BY <1>2, <1>3, HeapAssumption DEF Adjacent

LEMMA NextCall ==
  ASSUME Paged, taken > 0, taken + Expand <= Len(PageSeq)
  PROVE  InRow(taken, Expand) /\ (taken + Expand - InitPages) % Expand = 0
<1> DEFINE x == taken - InitPages
<1>1. /\ taken \in Nat /\ Len(PageSeq) \in Nat /\ Expand \in Nat \ {0} /\ InitPages \in Nat \ {0}
      /\ x \in Nat /\ x % Expand = 0 /\ DOMAIN PageSeq = 1 .. Len(PageSeq)
  BY Constants, HeapAssumption DEF Paged, PagesOK
<1>2. (x + Expand) % Expand = 0 /\ \A r \in 1 .. Expand - 1 : (x + r) % Expand # 0
  <2> HIDE DEF x
  <2>. QED
    BY <1>1, NextMultiple
<1>3. ASSUME NEW i \in taken + 2 .. taken + Expand
      PROVE  PageSeq[i] = PageSeq[i - 1] + PageWords
  <2> DEFINE r == i - taken - 1
  <2>1. /\ r \in 1 .. Expand - 1 /\ i - InitPages - 1 = x + r /\ i # 1
        /\ i \in DOMAIN PageSeq
    BY <1>1
  <2>2. (x + r) % Expand # 0
    <3>. HIDE DEF x, r
    <3>. QED
      BY <1>2, <2>1
  <2>3. ~StartsCall(i)
    BY <2>1, <2>2 DEF StartsCall
  <2>. QED
    BY <2>1, <2>3, HeapAssumption DEF Adjacent
<1>4. taken + Expand - InitPages = x + Expand
  BY <1>1
<1>. QED
  BY <1>2, <1>3, <1>4 DEF InRow

-----------------------------------------------------------------------------
(* The invariant holds initially. *)

LEMMA NoBlocks ==
  ASSUME NEW c \in CPUs, pc[c] = "idle", ret[c] = NULL, objects[c] = {}
  PROVE  InUse(c) = {} /\ OwnApart(c)
<1>1. Claimed(c) = {} /\ Linking(c) = {} /\ Owned(c) = {}
  BY DEF Claimed, Linking, InFree, Owned
<1>. QED
  BY <1>1 DEF InUse, OwnApart

LEMMA EmptyList ==
  ASSUME NEW m
  PROVE  GoodList(m, NULL) /\ Nodes(m, NULL) = {} /\ Space(m, NULL) = {}
<1>1. Nodes(m, NULL) = {}
  BY ReachNull DEF Nodes
<1>. QED
  BY <1>1 DEF GoodList, Nodes, IsList, NoOverlap, Space, Cover

LEMMA Starts == Init => Inv
<1> SUFFICES ASSUME Init PROVE Inv
  OBVIOUS
<1>1. /\ mem = [a \in Word |-> 0] /\ head = NULL /\ taken = 0
      /\ mallocLock = FALSE /\ freeLock = FALSE /\ reallocLock = FALSE
      /\ pc = [c \in CPUs |-> "idle"] /\ req = [c \in CPUs |-> 0]
      /\ cur = [c \in CPUs |-> NULL] /\ ret = [c \in CPUs |-> NULL]
      /\ node = [c \in CPUs |-> NULL] /\ object = [c \in CPUs |-> NoObject]
      /\ objects = [c \in CPUs |-> {}]
  BY DEF Init
<1>2. Typed
  <2>1. mem \in [Word -> Int] /\ head \in Word \union {NULL}
    BY <1>1
  <2>2. pc \in [CPUs -> Labels] /\ req \in [CPUs -> Sizes \union {0}]
    BY <1>1 DEF Labels
  <2>3. /\ cur \in [CPUs -> Word \union {NULL}] /\ ret \in [CPUs -> Word \union {NULL}]
        /\ node \in [CPUs -> Word \union {NULL}]
    BY <1>1
  <2>4. object \in [CPUs -> Objects \union {NoObject}] /\ objects \in [CPUs -> SUBSET Objects]
    BY <1>1
  <2>. QED
    BY <1>1, <2>1, <2>2, <2>3, <2>4 DEF Typed
<1>3. \A c \in CPUs : /\ ~InAlloc(c) /\ ~InFree(c) /\ ~Moving(c) /\ ~Moved(c) /\ ~Copied(c)
                      /\ InUse(c) = {} /\ OwnApart(c)
  BY <1>1, NoBlocks DEF InAlloc, InFree, Moving, Moved, Copied
<1>4. Locks /\ Serial
  BY <1>3 DEF Locks, Serial
<1>5. Paged
  BY <1>1, Constants DEF Paged
<1>6. GoodList(mem, head) /\ Space(mem, head) = {}
  BY <1>1, EmptyList
<1>7. \A c \in CPUs : Calling(c) /\ Holding(c) /\ Listed(c) /\ Searched(c) /\ Keeping(c)
  BY <1>1, <1>3 DEF Calling, Holding, Listed, Searched, Keeping
<1>8. Apart
  BY <1>3, <1>6 DEF Apart
<1>9. HeapWords = {}
  <2>1. 1 .. 0 = {}
    OBVIOUS
  <2>. QED
    BY <1>1, <2>1 DEF HeapWords
<1>10. Covered
  BY <1>3, <1>6, <1>9 DEF Covered
<1>. QED
  BY <1>2, <1>4, <1>5, <1>6, <1>7, <1>8, <1>10 DEF Inv

-----------------------------------------------------------------------------
(* Each action keeps the invariant. *)

(* InsertNode's stores to the node at n. *)
Writes(m, p, n, s, h) ==
  /\ m \in [Word -> Int] /\ n \in Word /\ s \in Nat /\ s >= NODE /\ Whole(s)
  /\ Extent(n, s) \subseteq Word /\ h \in Word \union {NULL}
  /\ p = [m EXCEPT ![n] = s, ![n + 1] = h]

LEMMA NodeWritten ==
  ASSUME NEW m, NEW p, NEW n, NEW s, NEW h, Writes(m, p, n, s, h)
  PROVE  /\ p \in [Word -> Int] /\ Sound(p, n) /\ p[n] = s /\ p[n + 1] = h
         /\ n \in Extent(n, s) /\ n + 1 \in Extent(n, s)
         /\ \A a \in Word : a \notin {n, n + 1} => p[a] = m[a]
<1>0. /\ m \in [Word -> Int] /\ n \in Word /\ s \in Nat /\ s >= NODE /\ Whole(s)
      /\ Extent(n, s) \subseteq Word /\ h \in Word \union {NULL}
      /\ p = [m EXCEPT ![n] = s, ![n + 1] = h]
  BY DEF Writes
<1>1. n \in Nat /\ NODE = 2 /\ h \in Int
  BY <1>0, Constants
<1>2. n \in Extent(n, s) /\ n + 1 \in Extent(n, s)
  BY <1>0, <1>1, InExtent
<1>3. n + 1 \in Word /\ n + 1 # n
  BY <1>0, <1>1, <1>2
<1>4. /\ p \in [Word -> Int] /\ p[n] = s /\ p[n + 1] = h
      /\ \A a \in Word : a \notin {n, n + 1} => p[a] = m[a]
  BY <1>0, <1>1, <1>3
<1>. QED
  BY <1>0, <1>2, <1>4 DEF Sound

LEMMA InitializeStep == ASSUME Inv, InitializeHeap PROVE Inv'
<1> DEFINE n == PageSeq[1]
           s == InitPages * PageWords
<1>1. /\ taken = 0 /\ taken' = InitPages /\ head' = n
      /\ mem' = [mem EXCEPT ![n] = s, ![n + 1] = head]
      /\ head = NULL /\ \A c \in CPUs : pc[c] = "idle" /\ objects[c] = {}
  BY DEF InitializeHeap, WriteNode, Booted, Inv, Paged
<1>2. UNCHANGED << mallocLock, freeLock, reallocLock, pc, req, cur, ret, node, object, objects >>
  BY DEF InitializeHeap, locks
<1>3. /\ n \in Word /\ s \in Nat /\ s >= NODE /\ Whole(s) /\ Extent(n, s) \subseteq Word
      /\ PagesOf(0, 0 + InitPages) = PagesOf(0, 0) \union Extent(n, s)
      /\ Len(PageSeq) \in Nat /\ InitPages \in Nat \ {0}
  <2>1. 0 + InitPages <= Len(PageSeq) /\ InitPages \in Nat \ {0} /\ Len(PageSeq) \in Nat
    BY Constants
  <2>2. /\ PageSeq[0 + 1] \in Word /\ Extent(PageSeq[0 + 1], InitPages * PageWords) \subseteq Word
        /\ InitPages * PageWords \in Nat /\ InitPages * PageWords >= NODE
        /\ Whole(InitPages * PageWords)
        /\ PagesOf(0, 0 + InitPages)
             = PagesOf(0, 0) \union Extent(PageSeq[0 + 1], InitPages * PageWords)
    BY <2>1, FirstCall, Expansion
  <2>3. 0 + 1 = 1
    OBVIOUS
  <2>. QED
    BY <2>1, <2>2, <2>3
<1>4. mem \in [Word -> Int] /\ head \in Word \union {NULL}
  BY DEF Inv, Typed
<1>5. mem' \in [Word -> Int] /\ Sound(mem', n) /\ mem'[n] = s /\ mem'[n + 1] = NULL
  <2> HIDE DEF n, s
  <2>. QED
    <3>1. Writes(mem, mem', n, s, head)
      BY <1>1, <1>3, <1>4 DEF Writes
    <3>2. head = NULL
      BY <1>1
    <3>. QED
      BY <3>1, <3>2, NodeWritten
<1>6. GoodList(mem', NULL) /\ Nodes(mem', NULL) = {} /\ Space(mem', NULL) = {}
  BY EmptyList
<1>7. GoodList(mem', head') /\ Space(mem', head') = Extent(n, s)
  <2> HIDE DEF n, s
  <2>. QED
    <3>1. Pushable(mem', NULL, n)
      BY <1>5, <1>6 DEF Pushable
    <3>2. head' = n /\ mem'[n] = s
      BY <1>1, <1>5
    <3>3. GoodList(mem', n) /\ Space(mem', n) = Space(mem', NULL) \union Extent(n, mem'[n])
      BY <3>1, ListPushed
    <3>. QED
      BY <1>6, <3>2, <3>3
<1>8. HeapWords' = Extent(n, s)
  <2>1. HeapWords' = PagesOf(0, taken')
    <3>1. 0 + 1 .. 0 + taken' = 1 .. taken'
      BY <1>1, <1>3
    <3>. QED
      BY <3>1 DEF HeapWords, PagesOf
  <2>2. PagesOf(0, 0) = {}
    BY DEF PagesOf
  <2>3. 0 + InitPages = InitPages
    BY <1>3
  <2>. QED
    BY <1>1, <1>3, <2>1, <2>2, <2>3
<1>9. ASSUME NEW d \in CPUs
      PROVE  /\ Same(d) /\ ~AtList(d) /\ InUse(d) = {}
             /\ ~InAlloc(d) /\ ~InFree(d) /\ ~Moving(d)
  <2>1. pc[d] = "idle" /\ objects[d] = {} /\ ret[d] = NULL /\ ~Moving(d)
    BY <1>1 DEF Inv, Calling
  <2>. QED
    BY <1>2, <2>1, NoBlocks DEF Same, AtList, InAlloc, InFree
<1>10. ASSUME NEW d \in CPUs
       PROVE  /\ InUse(d)' = {} /\ OwnApart(d)'
              /\ Calling(d)' /\ Holding(d)' /\ Listed(d)' /\ Searched(d)' /\ Keeping(d)'
  BY <1>9, Elsewhere, NotAtList
<1>11. Typed'
  BY <1>1, <1>2, <1>3, <1>5 DEF Inv, Typed
<1>12. Locks' /\ Serial'
  BY <1>2, <1>9 DEF Inv, Locks, Serial, InAlloc, InFree, Moving
<1>13. Paged'
  <2>1. (InitPages - InitPages) % Expand = 0
    BY <1>3, HeapAssumption
  <2>. QED
    BY <1>1, <1>3, <2>1, Constants DEF Paged
<1>14. Apart' /\ Covered'
  BY <1>7, <1>8, <1>10 DEF Apart, Covered
<1>. QED
  BY <1>7, <1>10, <1>11, <1>12, <1>13, <1>14 DEF Inv

(* A step of c within the heap's pages. *)
LEMMA ActsWithin ==
  ASSUME Inv, NEW c \in CPUs, taken > 0, taken' = taken,
         \A d \in CPUs \ {c} : Same(d),
         \A a \in Word : a \notin InUse(c) \union Space(mem, head) => mem'[a] = mem[a],
         \/ \A d \in CPUs \ {c} : ~AtList(d)
         \/ head' = head /\ \A a \in Space(mem, head) : mem'[a] = mem[a],
         Typed', Locks', Serial', GoodList(mem', head'),
         Calling(c)', Holding(c)', Listed(c)', Searched(c)', Keeping(c)', OwnApart(c)',
         InUse(c)' \intersect Space(mem', head') = {},
         InUse(c)' \union Space(mem', head') = InUse(c) \union Space(mem, head)
  PROVE  Inv'
<1>1. PICK N : N = {}
  OBVIOUS
<1>2. N \intersect HeapWords = {} /\ HeapWords' = HeapWords \union N
  BY <1>1 DEF HeapWords
<1>3. \A a \in Word : a \notin InUse(c) \union Space(mem, head) \union N => mem'[a] = mem[a]
  BY <1>1
<1>4. InUse(c)' \union Space(mem', head') = InUse(c) \union Space(mem, head) \union N
  BY <1>1
<1>5. Paged'
  BY DEF Inv, Paged
<1>. QED
  BY <1>2, <1>3, <1>4, <1>5, Acts

(* A step of c that moves no block and writes nothing. *)
LEMMA Still ==
  ASSUME Inv, NEW c \in CPUs, UNCHANGED << mem, head, taken, objects >>, taken > 0,
         \A d \in CPUs \ {c} : Same(d),
         Claimed(c)' = Claimed(c), Linking(c)' = Linking(c),
         Typed', Locks', Serial', Calling(c)', Holding(c)', Listed(c)', Searched(c)'
  PROVE  Inv'
<1>1. /\ OwnApart(c) /\ InUse(c) \intersect Space(mem, head) = {} /\ Keeping(c)
      /\ GoodList(mem, head)
  BY DEF Inv, Apart
<1>2. InUse(c)' = InUse(c) /\ OwnApart(c)'
  BY <1>1 DEF InUse, Owned, OwnApart
<1>3. Keeping(c)'
  BY <1>1 DEF Keeping
<1>4. /\ \A a \in Word : mem'[a] = mem[a]
      /\ head' = head /\ \A a \in Space(mem, head) : mem'[a] = mem[a]
  OBVIOUS
<1>5. GoodList(mem', head') /\ Space(mem', head') = Space(mem, head)
  BY <1>1
<1>. QED
  BY <1>1, <1>2, <1>3, <1>4, <1>5, ActsWithin

LEMMA AllocAcquireStep ==
  ASSUME Inv, NEW c \in CPUs, AllocAcquire(c), Serial' PROVE Inv'
<1>1. /\ taken > 0 /\ ~mallocLock /\ mallocLock' /\ pc[c] \in { "idle", "allocWait" }
      /\ pc' = [pc EXCEPT ![c] = "find"] /\ cur' = [cur EXCEPT ![c] = NULL]
      /\ UNCHANGED << mem, head, taken, freeLock, reallocLock, ret, node, object, objects >>
  BY DEF AllocAcquire, Goto, Booted
<1>2. /\ req' \in [CPUs -> Sizes \union {0}] /\ req'[c] \in Sizes
      /\ \A d \in CPUs \ {c} : req'[d] = req[d]
      /\ pc[c] = "allocWait" => req' = req
  BY DEF AllocAcquire, Inv, Typed, Calling
<1>3. Typed /\ Calling(c) /\ Locks /\ GoodList(mem, head)
  BY DEF Inv
<1>4. Typed'
  BY <1>1, <1>2, <1>3 DEF Typed, Labels
<1>5. /\ pc'[c] = "find" /\ cur'[c] = NULL /\ ret'[c] = NULL
      /\ Moving(c)' = Moving(c) /\ object'[c] = object[c]
      /\ ~InAlloc(c) /\ ~InFree(c) /\ InAlloc(c)' /\ ~InFree(c)'
      /\ ~Moved(c)' /\ ~Copied(c)'
      /\ \A d \in CPUs \ {c} : Same(d)
  BY <1>1, <1>2, <1>3 DEF Typed, Calling, Moving, InAlloc, InFree, Moved, Copied, Same
<1>6. /\ Claimed(c)' = Claimed(c) /\ Linking(c)' = Linking(c)
  BY <1>1, <1>3, <1>5 DEF Claimed, Linking, Calling
<1>7. Locks'
  <2>1. /\ InAlloc(c)' => mallocLock' /\ (InAlloc(c) \/ ~mallocLock)
        /\ InFree(c)'  => freeLock' /\ (InFree(c) \/ ~freeLock)
        /\ mallocLock => mallocLock' \/ InAlloc(c)
        /\ freeLock => freeLock' \/ InFree(c)
    BY <1>1, <1>5
  <2>2. /\ Moving(c)'  => reallocLock' /\ (Moving(c) \/ ~reallocLock)
        /\ reallocLock => reallocLock' \/ Moving(c)
    BY <1>1, <1>3, <1>5 DEF Locks
  <2>. QED
    BY <1>3, <1>5, <2>1, <2>2, LocksStep
<1>8. Calling(c)' /\ Holding(c)'
  BY <1>1, <1>2, <1>3, <1>5 DEF Calling, Holding
<1>9. Candidate(c)' = head /\ Nodes(mem', head') = Nodes(mem, head)
  BY <1>1, <1>5 DEF Candidate
<1>10. Listed(c)' /\ Searched(c)'
  BY <1>1, <1>5, <1>9 DEF Listed, Searched, Passed
<1>. QED
  BY <1>1, <1>4, <1>5, <1>6, <1>7, <1>8, <1>10, Still

LEMMA LocksSame ==
  ASSUME Locks, NEW c \in CPUs, \A d \in CPUs \ {c} : Same(d),
         mallocLock' = mallocLock, freeLock' = freeLock, reallocLock' = reallocLock,
         InAlloc(c)' => InAlloc(c), InFree(c)' => InFree(c), Moving(c)' => Moving(c)
  PROVE  Locks'
<1>1. /\ InAlloc(c) => mallocLock
      /\ InFree(c)  => freeLock
      /\ Moving(c)  => reallocLock
  BY DEF Locks
<1>2. /\ InAlloc(c)' => mallocLock' /\ (InAlloc(c) \/ ~mallocLock)
      /\ InFree(c)'  => freeLock' /\ (InFree(c) \/ ~freeLock)
      /\ Moving(c)'  => reallocLock' /\ (Moving(c) \/ ~reallocLock)
  BY <1>1
<1>3. /\ mallocLock => mallocLock' \/ InAlloc(c)
      /\ freeLock => freeLock' \/ InFree(c)
      /\ reallocLock => reallocLock' \/ Moving(c)
  OBVIOUS
<1>. QED
  BY <1>2, <1>3, LocksStep

(* Before any call there are pages. *)
LEMMA Running ==
  ASSUME Inv, NEW c \in CPUs, pc[c] # "idle" \/ objects[c] # {}
  PROVE  taken > 0 /\ taken \in Nat
<1>1. taken \in Nat /\ taken # 0
  BY Constants DEF Inv, Paged
<1>. QED
  BY <1>1

(* The node a search looks at is in the list. *)
LEMMA AtCandidate ==
  ASSUME Inv, NEW c \in CPUs, pc[c] = "find"
  PROVE  Candidate(c) \in Nodes(mem, head) \union {NULL}
BY ListFacts DEF Inv, Listed, Candidate, NextOf

LEMMA FindAdvanceStep ==
  ASSUME Inv, NEW c \in CPUs, FindAdvance(c), Serial' PROVE Inv'
<1> DEFINE k == Candidate(c)
<1>1. /\ pc[c] = "find" /\ k # NULL /\ ~Fits(k, req[c]) /\ cur' = [cur EXCEPT ![c] = k]
      /\ UNCHANGED << mem, head, taken, mallocLock, freeLock, reallocLock, pc, req, ret, node,
                      object, objects >>
  BY DEF FindAdvance, locks
<1>2. Typed /\ Calling(c) /\ Locks /\ GoodList(mem, head) /\ Searched(c)
  BY DEF Inv
<1>3. k \in Nodes(mem, head) /\ k \in Word
  BY <1>1, <1>2, AtCandidate, ListFacts
<1>4. Typed'
  BY <1>1, <1>2, <1>3 DEF Typed
<1>5. /\ cur'[c] = k /\ ret[c] = NULL /\ req[c] \in Sizes
      /\ \A d \in CPUs \ {c} : Same(d)
  BY <1>1, <1>2, <1>3 DEF Typed, Calling, Same, InAlloc
<1>6. /\ InAlloc(c)' = InAlloc(c) /\ InFree(c)' = InFree(c) /\ Moving(c)' = Moving(c)
      /\ ~Moved(c)' /\ ~Copied(c)' /\ ~InFree(c)'
  BY <1>1 DEF InAlloc, InFree, Moving, Moved, Copied
<1>7. Locks'
  BY <1>1, <1>2, <1>5, <1>6, LocksSame
<1>8. Claimed(c)' = Claimed(c) /\ Linking(c)' = Linking(c)
  BY <1>1, <1>6 DEF Claimed, Linking, SizeOf
<1>9. Calling(c)' /\ Holding(c)'
  BY <1>1, <1>2, <1>6 DEF Calling, Holding
<1>10. mem[k] < NODE + req[c]
  <2>1. mem[k] \in Nat
    BY <1>2, <1>3, ListFacts DEF Sound
  <2>2. req[c] \in Nat \ {0}
    BY <1>5, Constants
  <2>. QED
    BY <1>1, <2>1, <2>2, Constants DEF Fits, SizeOf
<1>11. Candidate(c)' = Links(mem)[k] /\ Candidate(c)' = mem[k + 1]
  <2>1. Candidate(c)' = mem[k + 1]
    BY <1>1, <1>5 DEF Candidate, NextOf
  <2>. QED
    BY <1>2, <1>3, <2>1, ListFacts
<1>12. Nodes(mem, k) \subseteq Nodes(mem, Candidate(c)') \union {k}
  BY <1>3, <1>11, LinksTyped, ReachStep DEF Nodes
<1>13. Passed(c)' \subseteq Passed(c) \union {k}
  <2>1. Passed(c) = Nodes(mem, head) \ Nodes(mem, k)
    BY DEF Passed
  <2>2. Passed(c)' = Nodes(mem, head) \ Nodes(mem, Candidate(c)')
    BY <1>1 DEF Passed
  <2>. QED
    BY <1>12, <2>1, <2>2
<1>14. Listed(c)' /\ Searched(c)'
  BY <1>1, <1>2, <1>3, <1>5, <1>10, <1>13 DEF Listed, Searched
<1>. QED
  BY <1>1, <1>4, <1>5, <1>7, <1>8, <1>9, <1>14, Running, Still

LEMMA FindTakeStep ==
  ASSUME Inv, NEW c \in CPUs, FindTake(c), Serial' PROVE Inv'
<1> DEFINE k == Candidate(c)
<1>1. /\ pc[c] = "find" /\ k # NULL /\ Fits(k, req[c]) /\ ret' = [ret EXCEPT ![c] = k]
      /\ pc' = [pc EXCEPT ![c] = "unlink"]
      /\ UNCHANGED << mem, head, taken, mallocLock, freeLock, reallocLock, req, cur, node,
                      object, objects >>
  BY DEF FindTake, locks, Goto
<1>2. Typed /\ Calling(c) /\ Locks /\ GoodList(mem, head) /\ Listed(c)
  BY DEF Inv
<1>3. k \in Nodes(mem, head) /\ k \in Word
  BY <1>1, <1>2, AtCandidate, ListFacts
<1>4. Typed'
  BY <1>1, <1>2, <1>3 DEF Typed, Labels
<1>5. /\ ret'[c] = k /\ ret[c] = NULL /\ pc'[c] = "unlink"
      /\ \A d \in CPUs \ {c} : Same(d)
  BY <1>1, <1>2, <1>3 DEF Typed, Calling, Same
<1>6. /\ InAlloc(c)' /\ InAlloc(c) /\ ~InFree(c) /\ Moving(c)' = Moving(c)
      /\ ~Moved(c)' /\ ~Copied(c)' /\ ~InFree(c)'
  BY <1>1, <1>5 DEF InAlloc, InFree, Moving, Moved, Copied
<1>7. Locks'
  BY <1>1, <1>2, <1>5, <1>6, LocksSame
<1>8. Claimed(c)' = Claimed(c) /\ Linking(c)' = Linking(c)
  BY <1>1, <1>5, <1>6 DEF Claimed, Linking
<1>9. Calling(c)' /\ Holding(c)'
  BY <1>1, <1>2, <1>5, <1>6 DEF Calling, Holding
<1>10. Candidate(c)' = k
  BY <1>1, <1>5 DEF Candidate, NextOf
<1>11. mem[k] >= NODE + req[c]
  BY <1>1 DEF Fits, SizeOf
<1>12. Listed(c)' /\ Searched(c)'
  BY <1>1, <1>2, <1>3, <1>5, <1>10, <1>11 DEF Listed, Searched
<1>. QED
  BY <1>1, <1>4, <1>5, <1>7, <1>8, <1>9, <1>12, Running, Still

(* What c's objects say survives writes elsewhere. *)
LEMMA KeepsObjects ==
  ASSUME Inv, NEW c \in CPUs, objects'[c] \subseteq objects[c],
         \A o \in objects'[c] : \A a \in Block(o) : mem'[a] = mem[a]
  PROVE  Keeping(c)'
<1>1. ASSUME NEW o \in objects'[c]
      PROVE  /\ mem'[o.at - NODE] = NODE + o.size
             /\ \A a \in Extent(o.at, o.size) : mem'[a] = Data(c)
  BY BlockFacts DEF Inv, Keeping
<1>. QED
  BY <1>1 DEF Keeping

LEMMA FindExpandStep ==
  ASSUME Inv, NEW c \in CPUs, FindExpand(c), Serial' PROVE Inv'
<1> DEFINE n == PageSeq[taken + 1]
           s == Expand * PageWords
           N == Extent(n, s)
<1>1. /\ pc[c] = "find" /\ Candidate(c) = NULL
      /\ UNCHANGED << head, mallocLock, freeLock, reallocLock, req, cur, ret, object, objects >>
  BY DEF FindExpand, locks
<1>2. Typed /\ Calling(c) /\ Locks /\ GoodList(mem, head) /\ Searched(c) /\ Paged /\ OwnApart(c)
      /\ InUse(c) \intersect Space(mem, head) = {}
  BY DEF Inv, Apart
<1>3. /\ ret[c] = NULL /\ ret'[c] = NULL /\ InAlloc(c) /\ ~InFree(c)
      /\ Moving(c)' = Moving(c) /\ taken > 0 /\ taken \in Nat
  BY <1>1, <1>2, Running DEF Calling, InAlloc, InFree, Moving
<1>4. Claimed(c) = {} /\ Linking(c) = {} /\ Claimed(c)' = {}
  BY <1>1, <1>3 DEF Claimed, Linking
<1>5. CASE taken + Expand <= Len(PageSeq)
  <2>1. /\ taken' = taken + Expand /\ mem' = [mem EXCEPT ![n] = s, ![n + 1] = head]
        /\ node' = [node EXCEPT ![c] = n] /\ pc' = [pc EXCEPT ![c] = "publish"]
    BY <1>5 DEF FindExpand, WriteNode, Goto
  <2>2. /\ n \in Word /\ N \subseteq Word /\ s \in Nat /\ s >= NODE /\ Whole(s)
        /\ N \intersect HeapWords = {} /\ HeapWords' = HeapWords \union N
    <3>1. InRow(taken, Expand) /\ Expand \in Nat \ {0}
      BY <1>2, <1>3, <1>5, NextCall, Constants
    <3>2. /\ n \in Word /\ N \subseteq Word /\ s \in Nat /\ s >= NODE /\ Whole(s)
          /\ N \intersect PagesOf(0, taken) = {}
          /\ PagesOf(0, taken + Expand) = PagesOf(0, taken) \union N
      BY <1>3, <1>5, <3>1, Expansion
    <3>3. HeapWords = PagesOf(0, taken)
      BY <1>3, HeapPages
    <3>4. HeapWords' = PagesOf(0, taken + Expand)
      <4>1. 0 + 1 .. 0 + (taken + Expand) = 1 .. taken + Expand
        BY <1>3, <3>1
      <4>. QED
        BY <2>1, <4>1 DEF HeapWords, PagesOf
    <3>. QED
      BY <3>2, <3>3, <3>4
  <2>3. mem \in [Word -> Int] /\ head \in Word \union {NULL}
    BY <1>2 DEF Typed
  <2>4. Writes(mem, mem', n, s, head)
    BY <2>1, <2>2, <2>3 DEF Writes
  <2>5. /\ mem' \in [Word -> Int] /\ Sound(mem', n) /\ mem'[n] = s /\ mem'[n + 1] = head
        /\ \A a \in Word : a \notin N => mem'[a] = mem[a]
    <3>1. /\ mem' \in [Word -> Int] /\ Sound(mem', n) /\ mem'[n] = s /\ mem'[n + 1] = head
          /\ n \in N /\ n + 1 \in N
          /\ \A a \in Word : a \notin {n, n + 1} => mem'[a] = mem[a]
      <4>. HIDE DEF n, s
      <4>. QED
        BY <2>4, NodeWritten
    <3>. QED
      BY <3>1
  <2>6. /\ pc'[c] = "publish" /\ node'[c] = n
        /\ \A d \in CPUs \ {c} : Same(d)
    BY <1>1, <1>2, <2>1, <2>2 DEF Typed, Same
  <2>7. Typed'
    BY <1>1, <1>2, <2>1, <2>2, <2>5 DEF Typed, Labels
  <2>8. InAlloc(c)' /\ ~InFree(c)' /\ ~Moved(c)' /\ ~Copied(c)'
    BY <2>6 DEF InAlloc, InFree, Moved, Copied
  <2>9. Locks'
    BY <1>1, <1>2, <1>3, <2>6, <2>8, LocksSame
  <2>10. Paged'
    <3>1. (taken + Expand - InitPages) % Expand = 0
      BY <1>2, <1>3, <1>5, NextCall
    <3>2. taken' \in 0 .. Len(PageSeq) /\ taken' > 0 /\ taken' >= InitPages
      BY <1>2, <1>3, <1>5, <2>1, Constants DEF Paged
    <3>3. taken' - InitPages = taken + Expand - InitPages
      BY <1>3, <2>1, Constants
    <3>4. (taken' - InitPages) % Expand = 0
      BY <3>1, <3>3
    <3>5. taken' # 0
      BY <3>2
    <3>. QED
      BY <3>2, <3>4, <3>5 DEF Paged
  <2>11. /\ InUse(c) \subseteq HeapWords /\ Space(mem, head) \subseteq HeapWords
         /\ HeapWords \subseteq Word
    BY Pieces
  <2>12. \A a \in InUse(c) \union Space(mem, head) : mem'[a] = mem[a]
    BY <2>2, <2>5, <2>11
  <2>13. /\ GoodList(mem', head') /\ Nodes(mem', head') = Nodes(mem, head)
         /\ Space(mem', head') = Space(mem, head)
    BY <1>1, <1>2, <2>12, ListKept
  <2>14. Linking(c)' = N
    BY <1>3, <2>5, <2>6 DEF Linking, SizeOf
  <2>15. InUse(c) = Owned(c) /\ InUse(c)' = Owned(c) \union N /\ Owned(c)' = Owned(c)
    BY <1>1, <1>4, <2>14 DEF InUse, Owned
  <2>16. OwnApart(c)'
    BY <1>1, <1>2, <1>4, <2>2, <2>11, <2>14, <2>15 DEF OwnApart
  <2>17. Keeping(c)'
    <3>1. \A o \in objects'[c] : \A a \in Block(o) : mem'[a] = mem[a]
      BY <1>1, <2>12, BlockFacts
    <3>. QED
      BY <1>1, <3>1, KeepsObjects
  <2>18. Calling(c)' /\ Holding(c)'
    BY <1>1, <1>2, <1>3, <2>5, <2>6, <2>8 DEF Calling, Holding
  <2>19. Listed(c)' /\ Searched(c)'
    <3>1. Passed(c) = Nodes(mem, head)
      BY <1>1, EmptyList DEF Passed
    <3>2. \A k \in Nodes(mem, head) : mem'[k] = mem[k]
      BY <1>2, <2>12, ListFacts
    <3>3. \A k \in Nodes(mem', head') : mem'[k] < NODE + req'[c]
      BY <1>1, <1>2, <2>13, <3>1, <3>2 DEF Searched
    <3>. QED
      BY <1>1, <2>5, <2>6, <3>3 DEF Listed, Searched
  <2>20. /\ InUse(c)' \intersect Space(mem', head') = {}
         /\ InUse(c)' \union Space(mem', head') = InUse(c) \union Space(mem, head) \union N
    BY <1>2, <2>2, <2>11, <2>13, <2>15
  <2>21. \A a \in Word : a \notin InUse(c) \union Space(mem, head) \union N => mem'[a] = mem[a]
    BY <2>5
  <2>22. head' = head /\ \A a \in Space(mem, head) : mem'[a] = mem[a]
    BY <1>1, <2>12
  <2>. HIDE DEF N
  <2>. QED
    BY <2>2, <2>6, <2>7, <2>9, <2>10, <2>13, <2>16, <2>17, <2>18, <2>19, <2>20, <2>21, <2>22, Acts
<1>6. CASE ~(taken + Expand <= Len(PageSeq))
  <2>1. pc' = [pc EXCEPT ![c] = "fault"] /\ UNCHANGED << mem, taken, node >>
    BY <1>6 DEF FindExpand, Goto
  <2>2. pc'[c] = "fault" /\ \A d \in CPUs \ {c} : Same(d)
    BY <1>1, <1>2, <2>1 DEF Typed, Same
  <2>3. Typed'
    BY <1>1, <1>2, <2>1 DEF Typed, Labels
  <2>4. /\ InAlloc(c)' /\ ~InFree(c)' /\ ~Moved(c)' /\ ~Copied(c)'
        /\ Linking(c)' = {}
    BY <2>2 DEF InAlloc, InFree, Moved, Copied, Linking
  <2>5. Locks'
    BY <1>1, <1>2, <1>3, <2>2, <2>4, LocksSame
  <2>6. Calling(c)' /\ Holding(c)' /\ Listed(c)' /\ Searched(c)'
    BY <1>1, <1>2, <1>3, <2>2, <2>4 DEF Calling, Holding, Listed, Searched
  <2>. QED
    BY <1>1, <1>3, <1>4, <2>1, <2>2, <2>3, <2>4, <2>5, <2>6, Still
<1>. QED
  BY <1>5, <1>6

LEMMA AllocUnlinkStep ==
  ASSUME Inv, NEW c \in CPUs, AllocUnlink(c), Serial' PROVE Inv'
<1> DEFINE r == ret[c]
           k == cur[c]
           B == Extent(r, mem[r])
<1>1. /\ pc[c] = "unlink" /\ pc' = [pc EXCEPT ![c] = "split"]
      /\ UNCHANGED << taken, mallocLock, freeLock, reallocLock, req, cur, ret, node, object,
                      objects >>
      /\ k = NULL => head' = mem[r + 1] /\ mem' = mem
      /\ k # NULL => mem' = [mem EXCEPT ![k + 1] = mem[r + 1]] /\ head' = head
  BY DEF AllocUnlink, Goto, locks, NextOf
<1>2. Typed /\ Calling(c) /\ Locks /\ GoodList(mem, head) /\ Listed(c) /\ OwnApart(c)
      /\ InUse(c) \intersect Space(mem, head) = {}
  BY DEF Inv, Apart
<1>3. /\ k \in Nodes(mem, head) \union {NULL} /\ r \in Nodes(mem, head) /\ r \in Word
      /\ mem[r] >= NODE + req[c] /\ r = IF k = NULL THEN head ELSE mem[k + 1]
      /\ Sound(mem, r) /\ B \subseteq Space(mem, head) /\ r # NULL /\ req[c] \in Sizes
  <2>1. /\ k \in Nodes(mem, head) \union {NULL} /\ r \in Nodes(mem, head)
        /\ mem[r] >= NODE + req[c] /\ r = IF k = NULL THEN head ELSE mem[k + 1]
    BY <1>1, <1>2 DEF Listed, Candidate, NextOf
  <2>2. r \in Word /\ Sound(mem, r) /\ B \subseteq Space(mem, head) /\ r # NULL
    BY <1>2, <2>1, ListFacts, Constants
  <2>3. req[c] \in Sizes
    BY <1>1, <1>2 DEF Calling, InAlloc
  <2>. QED
    BY <2>1, <2>2, <2>3
<1>4. /\ GoodList(mem', head') /\ Nodes(mem', head') = Nodes(mem, head) \ {r}
      /\ Space(mem', head') = Space(mem, head) \ B
      /\ mem'[r] = mem[r] /\ mem' \in [Word -> Int]
      /\ \A a \in Word : a \notin Space(mem, head) => mem'[a] = mem[a]
  <2>1. CASE k = NULL
    <3>1. r = head /\ head' = mem[head + 1] /\ mem' = mem /\ head # NULL
      BY <1>1, <1>3, <2>1
    <3>2. /\ GoodList(mem, mem[head + 1]) /\ Nodes(mem, mem[head + 1]) = Nodes(mem, head) \ {head}
          /\ Space(mem, mem[head + 1]) = Space(mem, head) \ Extent(head, mem[head])
      BY <1>2, <3>1, ListPopped
    <3>. QED
      BY <1>2, <3>1, <3>2 DEF Typed
  <2>2. CASE k # NULL
    <3>1. /\ k \in Nodes(mem, head) /\ r = mem[k + 1] /\ mem[k + 1] # NULL /\ head' = head
          /\ mem \in [Word -> Int] /\ mem' = [mem EXCEPT ![k + 1] = mem[mem[k + 1] + 1]]
      BY <1>1, <1>2, <1>3, <2>2 DEF Typed
    <3>2. /\ GoodList(mem', head) /\ Nodes(mem', head) = Nodes(mem, head) \ {mem[k + 1]}
          /\ Space(mem', head) = Space(mem, head) \ Extent(mem[k + 1], mem[mem[k + 1]])
          /\ mem'[mem[k + 1]] = mem[mem[k + 1]]
      <4>. HIDE DEF k
      <4>. QED
        <5>1. UnlinksBehind(mem, head, k, mem')
          BY <1>2, <3>1 DEF UnlinksBehind
        <5>. QED
          BY <5>1, ListUnlinked
    <3>3. k + 1 \in Space(mem, head) /\ mem[r + 1] \in Int
      <4>1. r + 1 \in Word
        BY <1>3, HoldsNode
      <4>. QED
        BY <1>2, <3>1, <4>1, ListFacts
    <3>4. mem' \in [Word -> Int] /\ \A a \in Word : a # k + 1 => mem'[a] = mem[a]
      BY <3>1, <3>3
    <3>. QED
      BY <3>1, <3>2, <3>3, <3>4
  <2>. QED
    BY <2>1, <2>2
<1>5. /\ pc'[c] = "split" /\ ret'[c] = r /\ req'[c] = req[c]
      /\ \A d \in CPUs \ {c} : Same(d)
  BY <1>1, <1>2 DEF Typed, Same
<1>6. Typed'
  BY <1>1, <1>2, <1>4 DEF Typed, Labels, GoodList
<1>7. /\ InAlloc(c) /\ InAlloc(c)' /\ ~InFree(c) /\ ~InFree(c)' /\ Moving(c)' = Moving(c)
      /\ ~Moved(c)' /\ ~Copied(c)'
  BY <1>1, <1>5 DEF InAlloc, InFree, Moving, Moved, Copied
<1>8. Locks'
  BY <1>1, <1>2, <1>5, <1>7, LocksSame
<1>9. /\ Claimed(c) = {} /\ Linking(c) = {} /\ Linking(c)' = {} /\ Claimed(c)' = B
      /\ Owned(c)' = Owned(c)
  BY <1>1, <1>3, <1>4, <1>5, <1>7 DEF Claimed, Linking, Owned, SizeOf
<1>10. InUse(c) = Owned(c) /\ InUse(c)' = Owned(c) \union B
  BY <1>9 DEF InUse
<1>11. OwnApart(c)'
  BY <1>1, <1>2, <1>3, <1>9, <1>10 DEF OwnApart
<1>12. Keeping(c)'
  <2>1. \A o \in objects'[c] : \A a \in Block(o) : mem'[a] = mem[a]
    BY <1>1, <1>2, <1>4, BlockFacts
  <2>. QED
    BY <1>1, <2>1, KeepsObjects
<1>13. Calling(c)' /\ Holding(c)'
  <2>1. Sound(mem', r) /\ mem'[r] >= NODE + req[c]
    BY <1>3, <1>4 DEF Sound
  <2>. QED
    BY <1>1, <1>2, <1>5, <1>7, <2>1 DEF Calling, Holding
<1>14. Listed(c)' /\ Searched(c)'
  BY <1>5 DEF Listed, Searched
<1>15. /\ InUse(c)' \intersect Space(mem', head') = {}
       /\ InUse(c)' \union Space(mem', head') = InUse(c) \union Space(mem, head)
  BY <1>2, <1>3, <1>4, <1>10
<1>16. /\ \A a \in Word : a \notin InUse(c) \union Space(mem, head) => mem'[a] = mem[a]
       /\ \A d \in CPUs \ {c} : ~AtList(d)
  BY <1>1, <1>4, <1>7, Alone
<1>17. taken > 0 /\ taken' = taken
  BY <1>1, Running
<1>. QED
  BY <1>4, <1>5, <1>6, <1>8, <1>11, <1>12, <1>13, <1>14, <1>15, <1>16, <1>17, ActsWithin

LEMMA AllocSplitStep ==
  ASSUME Inv, NoSliver, NEW c \in CPUs, AllocSplit(c), Serial' PROVE Inv'
<1> DEFINE r == ret[c]
           q == NODE + req[c]
           s == mem[r]
           top == r + q
           extra == s - q
           B == Extent(r, s)
<1>1. /\ pc[c] = "split"
      /\ UNCHANGED << head, taken, mallocLock, freeLock, reallocLock, req, cur, ret, object,
                      objects >>
  BY DEF AllocSplit, locks
<1>2. Typed /\ Calling(c) /\ Holding(c) /\ Locks /\ GoodList(mem, head) /\ OwnApart(c)
      /\ InUse(c) \intersect Space(mem, head) = {}
  BY DEF Inv, Apart
<1>3. /\ r \in Word /\ r \in Nat /\ s \in Nat /\ req[c] \in Sizes /\ req[c] \in Nat \ {0}
      /\ q \in Nat /\ q >= NODE /\ s >= q /\ NODE = 2 /\ B \subseteq Word /\ r # NULL /\ Sound(mem, r)
  <2>1. Sound(mem, r) /\ s >= q /\ req[c] \in Sizes
    BY <1>1, <1>2 DEF Holding, Calling, InAlloc
  <2>2. r \in Word /\ r \in Nat /\ s \in Nat /\ B \subseteq Word /\ r # NULL
    BY <2>1, Constants DEF Sound
  <2>3. req[c] \in Nat \ {0} /\ NODE = 2
    BY <2>1, Constants
  <2>4. q \in Nat /\ q >= NODE
    BY <2>3
  <2>. QED
    BY <2>1, <2>2, <2>3, <2>4
<1>4. /\ Claimed(c) = B /\ B \subseteq InUse(c) /\ InUse(c) \subseteq Word
      /\ Linking(c) = {}
  BY <1>1, Words, Pieces DEF Linking, InFree
<1>5. extra # 1
  BY <1>1 DEF NoSliver
<1>6. InAlloc(c) /\ ~InFree(c) /\ taken > 0
  BY <1>1, Running DEF InAlloc, InFree
<1>7. CASE extra # 0
  <2>1. /\ mem' = [mem EXCEPT ![top] = extra, ![top + 1] = head]
        /\ node' = [node EXCEPT ![c] = top] /\ pc' = [pc EXCEPT ![c] = "publish"]
    BY <1>7 DEF AllocSplit, WriteNode, Goto, SizeOf
  <2>2. /\ extra \in Nat /\ extra >= NODE /\ s = q + extra /\ top \in Nat /\ top > r
        /\ top = r + NODE + req[c]
    <3>1. extra \in Nat /\ extra >= NODE /\ s = q + extra /\ top \in Nat /\ top > r
      <4>. HIDE DEF q, r, s
      <4>. QED
        BY <1>3, <1>5, <1>7
    <3>2. top = r + NODE + req[c]
      <4>. HIDE DEF r
      <4>. QED
        BY <1>3
    <3>. QED
      BY <3>1, <3>2
  <2>3. /\ Extent(top, extra) \subseteq B /\ top \in B /\ r \in B /\ r \notin Extent(top, extra)
    <3>. HIDE DEF q, r, s, top, extra
    <3>. QED
      BY <1>3, <2>2, InExtent DEF top, extra
  <2>4. Writes(mem, mem', top, extra, head)
    <3>1. mem \in [Word -> Int] /\ head \in Word \union {NULL}
      BY <1>2 DEF Typed
    <3>2. top \in Word /\ Extent(top, extra) \subseteq Word
      BY <1>3, <2>3
    <3>3. Whole(extra)
      <4>1. Whole(q) /\ Whole(s)
        BY <1>3, WholeSizes DEF Sound
      <4>. HIDE DEF q, s, extra
      <4>. QED
        BY <1>3, <2>2, <4>1, WholeSizes
    <3>. HIDE DEF top, extra
    <3>. QED
      BY <2>1, <2>2, <3>1, <3>2, <3>3 DEF Writes
  <2>5. /\ mem' \in [Word -> Int] /\ Sound(mem', top) /\ mem'[top] = extra
        /\ mem'[top + 1] = head
        /\ \A a \in Word : a \notin Extent(top, extra) => mem'[a] = mem[a]
    <3>. HIDE DEF top, extra
    <3>. QED
      BY <2>4, NodeWritten
  <2>6. mem'[r] = s /\ Sound(mem', r) /\ \A a \in Word : a \notin B => mem'[a] = mem[a]
    <3>1. mem'[r] = s /\ \A a \in Word : a \notin B => mem'[a] = mem[a]
      BY <1>3, <2>3, <2>5
    <3>. QED
      BY <1>3, <3>1 DEF Sound
  <2>7. /\ pc'[c] = "publish" /\ node'[c] = top /\ ret'[c] = r /\ req'[c] = req[c]
        /\ \A d \in CPUs \ {c} : Same(d)
    <3>1. top \in Word \union {NULL}
      BY <2>4 DEF Writes
    <3>. QED
      BY <1>1, <1>2, <2>1 DEF Typed, Same
  <2>8. Typed'
    <3>1. top \in Word
      BY <2>4 DEF Writes
    <3>2. node' \in [CPUs -> Word \union {NULL}] /\ pc' \in [CPUs -> Labels]
      BY <1>2, <2>1, <3>1 DEF Typed, Labels
    <3>. QED
      BY <1>1, <1>2, <2>5, <3>2 DEF Typed
  <2>9. InAlloc(c)' /\ ~InFree(c)' /\ ~Moved(c)' /\ ~Copied(c)' /\ Moving(c)' = Moving(c)
    BY <1>1, <2>7 DEF InAlloc, InFree, Moved, Copied, Moving
  <2>10. Locks'
    BY <1>1, <1>2, <1>6, <2>7, <2>9, LocksSame
  <2>11. Space(mem, head) \subseteq Word /\ \A a \in Space(mem, head) : mem'[a] = mem[a]
    BY <1>2, <1>4, <2>6, Pieces
  <2>12. /\ GoodList(mem', head') /\ Nodes(mem', head') = Nodes(mem, head)
         /\ Space(mem', head') = Space(mem, head)
    BY <1>1, <1>2, <2>11, ListKept
  <2>13. /\ Claimed(c)' = B /\ Linking(c)' = {} /\ Owned(c)' = Owned(c)
    BY <1>1, <1>3, <2>6, <2>7, <2>9 DEF Claimed, Linking, Owned, SizeOf
  <2>14. InUse(c)' = InUse(c)
    BY <1>4, <2>13 DEF InUse
  <2>15. OwnApart(c)'
    BY <1>1, <1>2, <1>4, <2>13 DEF OwnApart
  <2>16. Keeping(c)'
    <3>1. \A o \in objects[c] : Block(o) \intersect B = {} /\ Block(o) \subseteq Word
      BY <1>2, <1>4, BlockFacts DEF OwnApart, Owned
    <3>2. \A o \in objects'[c] : \A a \in Block(o) : mem'[a] = mem[a]
      BY <1>1, <2>6, <3>1
    <3>. QED
      BY <1>1, <3>2, KeepsObjects
  <2>17. Calling(c)'
    BY <1>1, <1>2, <1>6, <2>7, <2>9 DEF Calling
  <2>18. Holding(c)'
    <3>1. mem'[r] = NODE + req[c] + mem'[top]
      <4>1. s = NODE + req[c] + extra
        <5>. HIDE DEF s, r, extra
        <5>. QED
          BY <1>3, <2>2
      <4>. QED
        BY <2>5, <2>6, <4>1
    <3>. HIDE DEF top, extra, r, q
    <3>. QED
      BY <2>2, <2>5, <2>6, <2>7, <2>9, <3>1 DEF Holding
  <2>19. Listed(c)' /\ Searched(c)'
    <3>. HIDE DEF top, extra, r, q
    <3>. QED
      BY <1>1, <1>3, <2>5, <2>7 DEF Listed, Searched
  <2>20. /\ InUse(c)' \intersect Space(mem', head') = {}
         /\ InUse(c)' \union Space(mem', head') = InUse(c) \union Space(mem, head)
         /\ \A a \in Word : a \notin InUse(c) \union Space(mem, head) => mem'[a] = mem[a]
         /\ head' = head /\ taken' = taken
    BY <1>1, <1>2, <1>4, <2>6, <2>12, <2>14
  <2>. QED
    BY <1>6, <2>7, <2>8, <2>10, <2>11, <2>12, <2>15, <2>16, <2>17, <2>18, <2>19, <2>20, ActsWithin
<1>8. CASE extra = 0
  <2>1. pc' = [pc EXCEPT ![c] = "finish"] /\ UNCHANGED << mem, node >>
    BY <1>8 DEF AllocSplit, Goto, SizeOf
  <2>2. s = q
    <3>. HIDE DEF s, q
    <3>. QED
      BY <1>3, <1>8
  <2>3. /\ pc'[c] = "finish" /\ ret'[c] = r /\ req'[c] = req[c]
        /\ \A d \in CPUs \ {c} : Same(d)
    BY <1>1, <1>2, <2>1 DEF Typed, Same
  <2>4. Typed'
    BY <1>1, <1>2, <2>1 DEF Typed, Labels
  <2>5. InAlloc(c)' /\ ~InFree(c)' /\ ~Moved(c)' /\ ~Copied(c)' /\ Moving(c)' = Moving(c)
    BY <1>1, <2>3 DEF InAlloc, InFree, Moved, Copied, Moving
  <2>6. Locks'
    BY <1>1, <1>2, <1>6, <2>3, <2>5, LocksSame
  <2>7. Claimed(c)' = Claimed(c) /\ Linking(c)' = Linking(c)
    BY <1>3, <1>4, <2>2, <2>3, <2>5 DEF Claimed, Linking
  <2>8. Calling(c)' /\ Listed(c)' /\ Searched(c)'
    BY <1>1, <1>2, <1>6, <2>3, <2>5 DEF Calling, Listed, Searched
  <2>9. Holding(c)'
    BY <1>3, <2>2, <2>3, <2>5 DEF Holding
  <2>. QED
    BY <1>1, <1>6, <2>1, <2>3, <2>4, <2>6, <2>7, <2>8, <2>9, Still
<1>. QED
  BY <1>7, <1>8

LEMMA AllocPublishStep ==
  ASSUME Inv, NEW c \in CPUs, AllocPublish(c), Serial' PROVE Inv'
<1> DEFINE r == ret[c]
           n == node[c]
           q == NODE + req[c]
           s == mem[n]
           B == Extent(n, s)
<1>1. /\ pc[c] = "publish" /\ head' = n
      /\ UNCHANGED << mem, taken, mallocLock, freeLock, reallocLock, req, ret, node, object,
                      objects >>
      /\ r = NULL => pc' = [pc EXCEPT ![c] = "find"] /\ cur' = [cur EXCEPT ![c] = NULL]
      /\ r # NULL => pc' = [pc EXCEPT ![c] = "finish"] /\ cur' = cur
  BY DEF AllocPublish, Goto, locks
<1>2. /\ Typed /\ Calling(c) /\ Holding(c) /\ Listed(c) /\ Locks /\ GoodList(mem, head)
      /\ OwnApart(c) /\ InUse(c) \intersect Space(mem, head) = {} /\ Keeping(c)
  BY DEF Inv, Apart
<1>3. InAlloc(c) /\ ~InFree(c) /\ taken > 0 /\ req[c] \in Sizes
  BY <1>1, <1>2, Running DEF InAlloc, InFree, Calling
<1>4. /\ Sound(mem, n) /\ mem[n + 1] = head /\ n \in Word
  BY <1>1, <1>2 DEF Holding, Listed, Sound
<1>5. B \subseteq InUse(c) /\ (r = NULL => B = Linking(c))
  BY <1>1, Words, Pieces
<1>6. /\ GoodList(mem, n) /\ Nodes(mem, n) = Nodes(mem, head) \union {n}
      /\ Space(mem, n) = Space(mem, head) \union B
  <2>1. Pushable(mem, head, n)
    BY <1>2, <1>4, <1>5 DEF Pushable
  <2>. QED
    BY <2>1, ListPushed
<1>7. GoodList(mem', head') /\ Space(mem', head') = Space(mem, head) \union B
  BY <1>1, <1>6
<1>8. /\ \A d \in CPUs \ {c} : Same(d) /\ ~AtList(d)
      /\ \A a \in Word : mem'[a] = mem[a]
      /\ Keeping(c)' /\ Owned(c)' = Owned(c)
  <2>1. \A d \in CPUs \ {c} : Same(d)
    BY <1>1, <1>2 DEF Typed, Same
  <2>2. Keeping(c)' /\ Owned(c)' = Owned(c)
    BY <1>1, <1>2 DEF Keeping, Owned
  <2>. QED
    BY <1>1, <1>3, <2>1, <2>2, Alone
<1>9. CASE r = NULL
  <2>1. pc'[c] = "find" /\ cur'[c] = NULL
    BY <1>1, <1>2, <1>9 DEF Typed
  <2>2. Typed'
    BY <1>1, <1>2, <1>4, <1>9 DEF Typed, Labels
  <2>3. InAlloc(c)' /\ ~InFree(c)' /\ ~Moved(c)' /\ ~Copied(c)' /\ Moving(c)' = Moving(c)
    BY <1>1, <2>1 DEF InAlloc, InFree, Moved, Copied, Moving
  <2>4. Locks'
    BY <1>1, <1>2, <1>3, <1>8, <2>3, LocksSame
  <2>5. Claimed(c) = {} /\ Claimed(c)' = {} /\ Linking(c)' = {}
    BY <1>1, <1>9, <2>1, <2>3 DEF Claimed, Linking
  <2>6. InUse(c) = Owned(c) \union B /\ InUse(c)' = Owned(c) /\ OwnApart(c)'
    BY <1>1, <1>2, <1>5, <1>8, <1>9, <2>5 DEF InUse, OwnApart
  <2>7. B \intersect Owned(c) = {}
    BY <1>2, <1>5, <1>9 DEF OwnApart
  <2>8. Calling(c)' /\ Holding(c)'
    BY <1>1, <1>2, <1>3, <1>9, <2>1, <2>3 DEF Calling, Holding
  <2>9. Candidate(c)' = head'
    BY <2>1 DEF Candidate
  <2>10. Listed(c)' /\ Searched(c)'
    BY <2>1, <2>9 DEF Listed, Searched, Passed
  <2>11. /\ InUse(c)' \intersect Space(mem', head') = {}
         /\ InUse(c)' \union Space(mem', head') = InUse(c) \union Space(mem, head)
    BY <1>2, <1>7, <2>6, <2>7
  <2>. QED
    BY <1>1, <1>3, <1>7, <1>8, <2>2, <2>4, <2>6, <2>8, <2>10, <2>11, ActsWithin
<1>10. CASE r # NULL
  <2>1. pc'[c] = "finish"
    BY <1>1, <1>2, <1>10 DEF Typed
  <2>2. Typed'
    BY <1>1, <1>2, <1>4, <1>10 DEF Typed, Labels
  <2>3. InAlloc(c)' /\ ~InFree(c)' /\ ~Moved(c)' /\ ~Copied(c)' /\ Moving(c)' = Moving(c)
    BY <1>1, <2>1 DEF InAlloc, InFree, Moved, Copied, Moving
  <2>4. Locks'
    BY <1>1, <1>2, <1>3, <1>8, <2>3, LocksSame
  <2>5. /\ Claimed(c) = Extent(r, q) \union B /\ Extent(r, q) \intersect B = {}
        /\ Linking(c) = {} /\ r \in Word /\ Extent(r, mem[r]) \subseteq Word
    <3>1. /\ Claimed(c) = Extent(r, mem[r]) /\ Linking(c) = {} /\ r \in Word
          /\ mem[r] = NODE + req[c] + s /\ n = r + NODE + req[c] /\ s \in Nat
          /\ Extent(r, mem[r]) \subseteq Word
      BY <1>1, <1>2, <1>4, <1>10, Words DEF Holding, Sound
    <3>2. q \in Nat /\ r \in Nat /\ NODE \in Nat /\ req[c] \in Nat
      <4>1. r \in Word
        BY <3>1
      <4>2. r \in Nat /\ NODE \in Nat /\ req[c] \in Nat
        <5>. HIDE DEF r
        <5>. QED
          BY <1>3, <4>1, Constants
      <4>. QED
        BY <4>2
    <3>3. mem[r] = q + s /\ n = r + q
      <4>1. s \in Nat /\ mem[r] = NODE + req[c] + s /\ n = r + NODE + req[c]
        BY <3>1
      <4>. HIDE DEF r, s, n
      <4>. QED
        BY <3>2, <4>1
    <3>4. /\ Extent(r, q + s) = Extent(r, q) \union Extent(r + q, s)
          /\ Extent(r, q) \intersect Extent(r + q, s) = {}
      <4>1. r \in Int /\ q \in Nat /\ s \in Nat
        BY <3>1, <3>2
      <4>. HIDE DEF r, q, s
      <4>. QED
        BY <4>1, Cut
    <3>. HIDE DEF r, q, s, n
    <3>. QED
      BY <3>1, <3>3, <3>4
  <2>6. Claimed(c)' = Extent(r, q) /\ Linking(c)' = {}
    BY <1>1, <1>10, <2>1, <2>3 DEF Claimed, Linking
  <2>7. /\ InUse(c) = Extent(r, q) \union B \union Owned(c)
        /\ InUse(c)' = Extent(r, q) \union Owned(c)
    BY <1>8, <2>5, <2>6 DEF InUse
  <2>8. B \intersect Owned(c) = {} /\ OwnApart(c)'
    <3>. HIDE DEF B
    <3>. QED
      BY <1>1, <1>2, <1>8, <2>5, <2>6 DEF OwnApart
  <2>9. Calling(c)' /\ Holding(c)'
    <3>1. Extent(r, q) \subseteq Word
      BY <2>5, <1>5, Pieces
    <3>. QED
      BY <1>1, <1>2, <1>3, <2>1, <2>3, <2>5, <3>1 DEF Calling, Holding
  <2>10. Listed(c)' /\ Searched(c)'
    BY <2>1 DEF Listed, Searched
  <2>11. /\ InUse(c)' \intersect Space(mem', head') = {}
         /\ InUse(c)' \union Space(mem', head') = InUse(c) \union Space(mem, head)
    <3>. HIDE DEF B, r, q
    <3>. QED
      BY <1>2, <1>7, <2>5, <2>7, <2>8
  <2>. QED
    BY <1>1, <1>3, <1>7, <1>8, <2>2, <2>4, <2>8, <2>9, <2>10, <2>11, ActsWithin
<1>. QED
  BY <1>9, <1>10

LEMMA AllocFinishStep ==
  ASSUME Inv, NEW c \in CPUs, AllocFinish(c), Serial' PROVE Inv'
<1> DEFINE r == ret[c]
           q == req[c]
           B == Extent(r, NODE + q)
           W == Extent(r + NODE, q)
           o == [at |-> r + NODE, size |-> q]
<1>1. /\ pc[c] = "finish" /\ mallocLock' = FALSE
      /\ UNCHANGED << head, taken, freeLock, reallocLock >>
  BY DEF AllocFinish
<1>2. /\ Typed /\ Calling(c) /\ Holding(c) /\ Locks /\ GoodList(mem, head)
      /\ OwnApart(c) /\ InUse(c) \intersect Space(mem, head) = {} /\ Keeping(c)
  BY DEF Inv, Apart
<1>3. /\ InAlloc(c) /\ ~InFree(c) /\ taken > 0 /\ q \in Sizes /\ q \in Nat \ {0}
      /\ r \in Word /\ r \in Nat /\ B \subseteq Word /\ r # NULL /\ NODE = 2
  <2>1. InAlloc(c) /\ ~InFree(c) /\ taken > 0
    BY <1>1, Running DEF InAlloc, InFree
  <2>2. q \in Sizes /\ r \in Word /\ B \subseteq Word
    BY <1>1, <1>2, <2>1 DEF Calling, Holding
  <2>. HIDE DEF q, r, B
  <2>. QED
    BY <2>1, <2>2, Constants
<1>4. /\ Claimed(c) = B /\ Linking(c) = {} /\ B \intersect Owned(c) = {}
      /\ InUse(c) = B \union Owned(c) /\ B \subseteq InUse(c)
  <2>1. Claimed(c) = B
    BY <1>1, Words
  <2>2. Linking(c) = {}
    BY <1>1, <1>3 DEF Linking
  <2>. QED
    BY <1>2, <2>1, <2>2 DEF OwnApart, InUse
<1>5. /\ r \in B /\ W \subseteq B /\ r \notin W /\ r + NODE \in Word
      /\ (r + NODE) - NODE = r /\ Block(o) = B
  <2>1. /\ r \in B /\ W \subseteq B /\ r \notin W /\ r + NODE \in B
        /\ (r + NODE) - NODE = r
    <3>. HIDE DEF r, q
    <3>. QED
      BY <1>3 DEF Extent
  <2>2. Block(o) = B
    BY <2>1 DEF Block
  <2>. QED
    BY <1>3, <2>1, <2>2
<1>6. Owned(c) \subseteq Word /\ Space(mem, head) \subseteq Word
  BY Pieces
<1>7. CASE object[c] = NoObject
  <2>1. /\ mem' = Filled([mem EXCEPT ![r] = NODE + q], W, c)
        /\ objects' = [objects EXCEPT ![c] = @ \union {o}]
        /\ pc' = [pc EXCEPT ![c] = "idle"] /\ req' = [req EXCEPT ![c] = 0]
        /\ cur' = [cur EXCEPT ![c] = NULL] /\ ret' = [ret EXCEPT ![c] = NULL]
        /\ node' = [node EXCEPT ![c] = NULL] /\ object' = [object EXCEPT ![c] = NoObject]
    BY <1>7 DEF AllocFinish, Return, Goto
  <2>2. /\ mem' \in [Word -> Int] /\ mem'[r] = NODE + q /\ \A a \in W : mem'[a] = Data(c)
        /\ \A a \in Word : a \notin B => mem'[a] = mem[a]
    <3> DEFINE sized == [mem EXCEPT ![r] = NODE + q]
    <3>1. /\ mem \in [Word -> Int] /\ NODE + q \in Int /\ r \in Word /\ Data(c) \in Int
          /\ r \notin W /\ W \subseteq B /\ r \in B /\ B \subseteq Word
      BY <1>2, <1>3, <1>5, Constants DEF Typed, Data
    <3>2. mem' = [a \in Word |-> IF a \in W THEN Data(c) ELSE sized[a]]
      BY <2>1 DEF Filled
    <3>3. sized \in [Word -> Int] /\ sized[r] = NODE + q /\ \A a \in Word : a # r => sized[a] = mem[a]
      <4>. HIDE DEF r, q
      <4>. QED
        BY <3>1
    <3>. HIDE DEF sized, r, q, W, B
    <3>. QED
      BY <3>1, <3>2, <3>3
  <2>3. o \in Objects
    BY <1>3, <1>5 DEF Objects
  <2>4. /\ pc'[c] = "idle" /\ req'[c] = 0 /\ cur'[c] = NULL /\ ret'[c] = NULL
        /\ node'[c] = NULL /\ object'[c] = NoObject /\ objects'[c] = objects[c] \union {o}
        /\ \A d \in CPUs \ {c} : Same(d)
    BY <1>2, <2>1 DEF Typed, Same
  <2>5. Typed'
    <3>1. /\ pc' \in [CPUs -> Labels] /\ req' \in [CPUs -> Sizes \union {0}]
          /\ object' \in [CPUs -> Objects \union {NoObject}]
      BY <1>2, <2>1 DEF Typed, Labels
    <3>2. /\ cur' \in [CPUs -> Word \union {NULL}] /\ ret' \in [CPUs -> Word \union {NULL}]
          /\ node' \in [CPUs -> Word \union {NULL}]
      BY <1>2, <2>1 DEF Typed
    <3>3. objects' \in [CPUs -> SUBSET Objects]
      <4>. HIDE DEF o
      <4>. QED
        BY <1>2, <2>1, <2>3 DEF Typed
    <3>. QED
      BY <1>1, <1>2, <2>2, <3>1, <3>2, <3>3 DEF Typed
  <2>6. ~InAlloc(c)' /\ ~InFree(c)' /\ ~Moved(c)' /\ ~Copied(c)' /\ ~Moving(c)' /\ ~Moving(c)
    BY <1>7, <2>4 DEF InAlloc, InFree, Moved, Copied, Moving
  <2>7. Locks'
    <3>1. /\ InAlloc(c)' => mallocLock' /\ (InAlloc(c) \/ ~mallocLock)
          /\ InFree(c)'  => freeLock' /\ (InFree(c) \/ ~freeLock)
          /\ Moving(c)'  => reallocLock' /\ (Moving(c) \/ ~reallocLock)
          /\ mallocLock => mallocLock' \/ InAlloc(c)
          /\ freeLock => freeLock' \/ InFree(c)
          /\ reallocLock => reallocLock' \/ Moving(c)
      BY <1>1, <1>3, <2>6
    <3>. QED
      BY <1>2, <2>4, <3>1, LocksStep
  <2>8. /\ Claimed(c)' = {} /\ Linking(c)' = {} /\ Owned(c)' = Owned(c) \union B
        /\ InUse(c)' = InUse(c)
    <3>1. Claimed(c)' = {} /\ Linking(c)' = {}
      BY <2>4, <2>6 DEF Claimed, Linking
    <3>2. Owned(c)' = Owned(c) \union B
      BY <1>5, <2>4 DEF Owned
    <3>. QED
      BY <1>4, <3>1, <3>2 DEF InUse
  <2>9. OwnApart(c)'
    <3>1. \A x \in objects[c] : Block(x) \intersect B = {}
      BY <1>4 DEF Owned
    <3>2. \A x, y \in objects'[c] : x # y => Block(x) \intersect Block(y) = {}
      <4>. HIDE DEF o, B
      <4>. QED
        BY <1>2, <1>5, <2>4, <3>1 DEF OwnApart
    <3>. QED
      BY <2>8, <3>2 DEF OwnApart
  <2>10. \A x \in objects[c] : /\ mem'[x.at - NODE] = NODE + x.size
                               /\ \A a \in Extent(x.at, x.size) : mem'[a] = Data(c)
    <3>1. SUFFICES ASSUME NEW x \in objects[c]
                   PROVE  /\ mem'[x.at - NODE] = NODE + x.size
                          /\ \A a \in Extent(x.at, x.size) : mem'[a] = Data(c)
      OBVIOUS
    <3>2. \A a \in Block(x) : a \in Word /\ a \notin B
      BY <1>4, <1>6 DEF Owned
    <3>3. \A a \in Block(x) : mem'[a] = mem[a]
      BY <2>2, <3>2
    <3>. HIDE DEF B, o
    <3>. QED
      BY <1>2, <3>3, BlockFacts DEF Keeping
  <2>11. Keeping(c)'
    <3>1. mem'[o.at - NODE] = NODE + o.size /\ \A a \in Extent(o.at, o.size) : mem'[a] = Data(c)
      BY <1>5, <2>2
    <3>. HIDE DEF o
    <3>. QED
      BY <2>4, <2>10, <3>1 DEF Keeping
  <2>12. Calling(c)' /\ Holding(c)' /\ Listed(c)' /\ Searched(c)'
    BY <2>4, <2>6 DEF Calling, Holding, Listed, Searched
  <2>13. /\ GoodList(mem', head') /\ Space(mem', head') = Space(mem, head)
         /\ head' = head /\ \A a \in Space(mem, head) : mem'[a] = mem[a]
    <3>1. \A a \in Space(mem, head) : mem'[a] = mem[a]
      BY <1>2, <1>4, <1>6, <2>2
    <3>. QED
      BY <1>1, <1>2, <3>1, ListKept
  <2>14. /\ InUse(c)' \intersect Space(mem', head') = {}
         /\ InUse(c)' \union Space(mem', head') = InUse(c) \union Space(mem, head)
         /\ \A a \in Word : a \notin InUse(c) \union Space(mem, head) => mem'[a] = mem[a]
         /\ taken' = taken
    BY <1>1, <1>2, <1>4, <2>2, <2>8, <2>13
  <2>. QED
    BY <1>3, <2>4, <2>5, <2>7, <2>9, <2>11, <2>12, <2>13, <2>14, ActsWithin
<1>8. CASE object[c] # NoObject
  <2>1. /\ mem' = [mem EXCEPT ![r] = NODE + q] /\ pc' = [pc EXCEPT ![c] = "copy"]
        /\ UNCHANGED << req, cur, ret, node, object, objects >>
    BY <1>8 DEF AllocFinish, Goto
  <2>2. /\ mem' \in [Word -> Int] /\ mem'[r] = NODE + q
        /\ \A a \in Word : a \notin B => mem'[a] = mem[a]
    <3>1. mem \in [Word -> Int] /\ NODE + q \in Int /\ r \in Word /\ r \in B
      BY <1>2, <1>3, <1>5 DEF Typed
    <3>. HIDE DEF r, q, B
    <3>. QED
      BY <2>1, <3>1
  <2>4. /\ pc'[c] = "copy" /\ \A d \in CPUs \ {c} : Same(d)
    BY <1>2, <2>1 DEF Typed, Same
  <2>5. Typed'
    BY <1>1, <1>2, <2>1, <2>2 DEF Typed, Labels
  <2>6. /\ ~InAlloc(c)' /\ ~InFree(c)' /\ Moved(c)' /\ ~Copied(c)' /\ Moving(c)' /\ Moving(c)
    BY <1>8, <2>1, <2>4 DEF InAlloc, InFree, Moved, Copied, Moving
  <2>7. Locks'
    <3>1. /\ InAlloc(c)' => mallocLock' /\ (InAlloc(c) \/ ~mallocLock)
          /\ InFree(c)'  => freeLock' /\ (InFree(c) \/ ~freeLock)
          /\ Moving(c)'  => reallocLock' /\ (Moving(c) \/ ~reallocLock)
          /\ mallocLock => mallocLock' \/ InAlloc(c)
          /\ freeLock => freeLock' \/ InFree(c)
          /\ reallocLock => reallocLock' \/ Moving(c)
      BY <1>1, <1>2, <1>3, <2>6 DEF Locks
    <3>. QED
      BY <1>2, <2>4, <3>1, LocksStep
  <2>8. /\ Claimed(c)' = B /\ Linking(c)' = {} /\ Owned(c)' = Owned(c)
        /\ InUse(c)' = InUse(c)
    <3>1. Claimed(c)' = B /\ Linking(c)' = {}
      BY <1>3, <2>1, <2>4, <2>6 DEF Claimed, Linking
    <3>2. Owned(c)' = Owned(c)
      BY <2>1 DEF Owned
    <3>. QED
      BY <1>4, <3>1, <3>2 DEF InUse
  <2>9. OwnApart(c)'
    BY <1>2, <1>4, <2>1, <2>8 DEF OwnApart
  <2>11. Keeping(c)'
    <3>1. \A x \in objects'[c] : \A a \in Block(x) : mem'[a] = mem[a]
      BY <1>4, <1>6, <2>1, <2>2 DEF Owned
    <3>. QED
      BY <2>1, <3>1, KeepsObjects
  <2>12. Calling(c)' /\ Holding(c)' /\ Listed(c)' /\ Searched(c)'
    <3>1. Calling(c)'
      <4>. HIDE DEF q, r
      <4>. QED
        BY <1>1, <1>2, <1>3, <2>1, <2>4, <2>6 DEF Calling
    <3>2. Holding(c)'
      BY <1>3, <2>1, <2>2, <2>4, <2>6 DEF Holding
    <3>. QED
      BY <2>4, <3>1, <3>2 DEF Listed, Searched
  <2>13. /\ GoodList(mem', head') /\ Space(mem', head') = Space(mem, head)
         /\ head' = head /\ \A a \in Space(mem, head) : mem'[a] = mem[a]
    <3>1. \A a \in Space(mem, head) : mem'[a] = mem[a]
      BY <1>2, <1>4, <1>6, <2>2
    <3>. QED
      BY <1>1, <1>2, <3>1, ListKept
  <2>14. /\ InUse(c)' \intersect Space(mem', head') = {}
         /\ InUse(c)' \union Space(mem', head') = InUse(c) \union Space(mem, head)
         /\ \A a \in Word : a \notin InUse(c) \union Space(mem, head) => mem'[a] = mem[a]
         /\ taken' = taken
    BY <1>1, <1>2, <1>4, <2>2, <2>8, <2>13
  <2>. QED
    BY <1>3, <2>4, <2>5, <2>7, <2>9, <2>11, <2>12, <2>13, <2>14, ActsWithin
<1>. QED
  BY <1>7, <1>8

LEMMA FreeAcquireStep ==
  ASSUME Inv, NEW c \in CPUs, FreeAcquire(c), Serial' PROVE Inv'
<1>1. /\ ~freeLock /\ freeLock' /\ pc[c] \in { "idle", "freeWait" }
      /\ pc' = [pc EXCEPT ![c] = "freeLink"]
      /\ UNCHANGED << mem, head, taken, mallocLock, reallocLock, req, cur, ret, object >>
  BY DEF FreeAcquire, Goto
<1>2. PICK o \in objects[c] :
        /\ pc[c] = "freeWait" => o = object[c]
        /\ node' = [node EXCEPT ![c] = o.at - NODE]
        /\ objects' = [objects EXCEPT ![c] = @ \ {o}]
  BY DEF FreeAcquire
<1> DEFINE n == o.at - NODE
           s == NODE + o.size
           B == Extent(n, s)
<1>3. /\ Typed /\ Calling(c) /\ Holding(c) /\ Locks /\ GoodList(mem, head)
      /\ OwnApart(c) /\ InUse(c) \intersect Space(mem, head) = {} /\ Keeping(c)
  BY DEF Inv, Apart
<1>4. /\ n \in Word /\ o.size \in Nat \ {0} /\ Block(o) = B /\ B \subseteq Word /\ mem[n] = s
      /\ NODE = 2 /\ s \in Nat /\ s >= NODE /\ Sound(mem, n)
  <2>1. /\ n \in Word /\ o.size \in Nat \ {0} /\ Block(o) = B /\ B \subseteq Word
        /\ mem[n] = s /\ NODE = 2
    BY <1>3, BlockFacts, Constants DEF Keeping
  <2>2. s \in Nat /\ s >= NODE
    BY <2>1
  <2>3. Whole(s)
    BY WholeSizes, BlockFacts
  <2>. QED
    BY <2>1, <2>2, <2>3 DEF Sound
<1>5. taken > 0
  BY Running
<1>6. /\ pc'[c] = "freeLink" /\ node'[c] = n /\ objects'[c] = objects[c] \ {o}
      /\ \A d \in CPUs \ {c} : Same(d)
  BY <1>1, <1>2, <1>3, <1>4 DEF Typed, Same
<1>7. Typed'
  <2>1. /\ pc' \in [CPUs -> Labels] /\ node' \in [CPUs -> Word \union {NULL}]
        /\ objects' \in [CPUs -> SUBSET Objects]
    BY <1>1, <1>2, <1>3, <1>4 DEF Typed, Labels
  <2>. QED
    BY <1>1, <1>3, <2>1 DEF Typed
<1>8. /\ ~InAlloc(c) /\ ~InAlloc(c)' /\ ~InFree(c) /\ InFree(c)'
      /\ Moving(c)' = Moving(c)
  BY <1>1, <1>6 DEF InAlloc, InFree, Moving
<1>9. Locks'
  <2>1. /\ InAlloc(c)' => mallocLock' /\ (InAlloc(c) \/ ~mallocLock)
        /\ InFree(c)'  => freeLock' /\ (InFree(c) \/ ~freeLock)
        /\ Moving(c)'  => reallocLock' /\ (Moving(c) \/ ~reallocLock)
        /\ mallocLock => mallocLock' \/ InAlloc(c)
        /\ freeLock => freeLock' \/ InFree(c)
        /\ reallocLock => reallocLock' \/ Moving(c)
    BY <1>1, <1>3, <1>8 DEF Locks
  <2>. QED
    BY <1>3, <1>6, <2>1, LocksStep
<1>10. /\ pc[c] = "idle" => ~Moving(c) /\ ret[c] = NULL
       /\ pc[c] = "freeWait" => Moving(c) /\ o = object[c]
       /\ Moving(c) => pc[c] = "freeWait"
  BY <1>1, <1>2, <1>3 DEF Calling
<1>11. /\ Linking(c) = {} /\ Linking(c)' = B /\ Claimed(c)' = Claimed(c)
       /\ Owned(c) = Owned(c)' \union B /\ Owned(c)' \intersect B = {}
       /\ Owned(c)' \subseteq Owned(c) /\ B \subseteq Owned(c)
  <2>1. Linking(c) = {}
    BY <1>1, <1>8 DEF Linking
  <2>2. Linking(c)' = B
    BY <1>1, <1>4, <1>6, <1>8 DEF Linking, SizeOf
  <2>3. Claimed(c)' = Claimed(c)
    BY <1>1, <1>6, <1>10 DEF Claimed
  <2>4. Owned(c) = Owned(c)' \union B /\ Owned(c)' \intersect B = {}
    <3>1. \A x \in objects[c] \ {o} : Block(x) \intersect B = {}
      BY <1>3, <1>4 DEF OwnApart
    <3>2. \A a : a \in Owned(c)' <=> \E x \in objects[c] \ {o} : a \in Block(x)
      BY <1>6 DEF Owned
    <3>3. \A a : a \in Owned(c) <=> a \in B \/ \E x \in objects[c] \ {o} : a \in Block(x)
      <4>1. \A a : a \in Owned(c) <=> \E x \in objects[c] : a \in Block(x)
        BY DEF Owned
      <4>. HIDE DEF B
      <4>. QED
        BY <1>4, <4>1
    <3>. HIDE DEF B
    <3>. QED
      BY <3>1, <3>2, <3>3
  <2>. QED
    BY <2>1, <2>2, <2>3, <2>4
<1>12. InUse(c)' = InUse(c)
  BY <1>11 DEF InUse
<1>13. OwnApart(c)'
  <2>1. \A x, y \in objects'[c] : x # y => Block(x) \intersect Block(y) = {}
    BY <1>3, <1>6 DEF OwnApart
  <2>2. Claimed(c) \intersect Owned(c) = {}
    BY <1>3 DEF OwnApart
  <2>. HIDE DEF B
  <2>. QED
    BY <1>11, <2>1, <2>2 DEF OwnApart
<1>14. Keeping(c)'
  <2>1. objects'[c] \subseteq objects[c] /\ \A x \in objects'[c] : \A a \in Block(x) : mem'[a] = mem[a]
    BY <1>1, <1>6
  <2>. QED
    BY <2>1, KeepsObjects
<1>15. Calling(c)'
  BY <1>1, <1>3, <1>6, <1>8, <1>10 DEF Calling
<1>16. Holding(c)'
  <2>1. Moved(c)' => Moving(c) /\ Moved(c) /\ Copied(c)
    BY <1>1, <1>6, <1>8, <1>10 DEF Moved, Copied, Moving
  <2>2. Copied(c)' => Moving(c) /\ Moved(c) /\ Copied(c)
    BY <1>1, <1>6, <1>8, <1>10 DEF Moved, Copied, Moving
  <2>3. Copied(c) => \A a \in Extent(ret[c] + NODE, object[c].size) : mem[a] = Data(c)
    BY <1>3 DEF Holding
  <2>4. Moved(c) => /\ ret[c] \in Word /\ Extent(ret[c], NODE + req[c]) \subseteq Word
                    /\ mem[ret[c]] = NODE + req[c]
    BY <1>3 DEF Holding
  <2>5. Data(c)' = Data(c)
    BY DEF Data
  <2>6. Sound(mem', node'[c])
    BY <1>1, <1>4, <1>6
  <2>. HIDE DEF n
  <2>. QED
    BY <1>1, <1>6, <2>1, <2>2, <2>3, <2>4, <2>5, <2>6 DEF Holding
<1>17. Listed(c)' /\ Searched(c)'
  BY <1>6 DEF Listed, Searched
<1>18. /\ GoodList(mem', head') /\ Space(mem', head') = Space(mem, head)
       /\ head' = head /\ \A a \in Space(mem, head) : mem'[a] = mem[a]
       /\ InUse(c)' \intersect Space(mem', head') = {}
       /\ InUse(c)' \union Space(mem', head') = InUse(c) \union Space(mem, head)
       /\ \A a \in Word : a \notin InUse(c) \union Space(mem, head) => mem'[a] = mem[a]
       /\ taken' = taken
  BY <1>1, <1>3, <1>12
<1>. QED
  BY <1>5, <1>6, <1>7, <1>9, <1>13, <1>14, <1>15, <1>16, <1>17, <1>18, ActsWithin

LEMMA FreeLinkStep ==
  ASSUME Inv, NEW c \in CPUs, FreeLink(c), Serial' PROVE Inv'
<1> DEFINE n == node[c]
           s == mem[n]
           B == Extent(n, s)
<1>1. /\ pc[c] = "freeLink" /\ mem' = [mem EXCEPT ![n] = s, ![n + 1] = head]
      /\ pc' = [pc EXCEPT ![c] = "freePublish"]
      /\ UNCHANGED << head, taken, mallocLock, freeLock, reallocLock, req, cur, ret, node,
                      object, objects >>
  BY DEF FreeLink, WriteNode, SizeOf, Goto, locks
<1>2. /\ Typed /\ Calling(c) /\ Holding(c) /\ Locks /\ GoodList(mem, head)
      /\ OwnApart(c) /\ InUse(c) \intersect Space(mem, head) = {} /\ Keeping(c)
  BY DEF Inv, Apart
<1>3. InFree(c) /\ ~InAlloc(c) /\ taken > 0
  BY <1>1, Running DEF InAlloc, InFree
<1>4. Sound(mem, n)
  BY <1>2, <1>3 DEF Holding
<1>5. Linking(c) = B /\ B \subseteq InUse(c) /\ InUse(c) \subseteq Word
  BY <1>3, Words, Pieces
<1>6. /\ mem' \in [Word -> Int] /\ Sound(mem', n) /\ mem'[n] = s /\ mem'[n + 1] = head
      /\ \A a \in Word : a \notin B => mem'[a] = mem[a]
  <2>1. Writes(mem, mem', n, s, head)
    <3>1. mem \in [Word -> Int] /\ head \in Word \union {NULL}
      BY <1>2 DEF Typed
    <3>. QED
      BY <1>1, <1>4, <3>1 DEF Writes, Sound
  <2>. HIDE DEF n, s
  <2>. QED
    BY <2>1, NodeWritten
<1>7. /\ pc'[c] = "freePublish" /\ \A d \in CPUs \ {c} : Same(d)
  BY <1>1, <1>2 DEF Typed, Same
<1>8. Typed'
  <2>1. pc' \in [CPUs -> Labels]
    BY <1>1, <1>2 DEF Typed, Labels
  <2>. QED
    BY <1>1, <1>2, <1>6, <2>1 DEF Typed
<1>9. /\ ~InAlloc(c)' /\ InFree(c)' /\ Moving(c)' = Moving(c)
      /\ Moved(c)' = Moved(c) /\ Copied(c)' = Copied(c)
  BY <1>1, <1>7 DEF InAlloc, InFree, Moving, Moved, Copied
<1>10. Locks'
  BY <1>1, <1>2, <1>3, <1>7, <1>9, LocksSame
<1>11. /\ Linking(c)' = B /\ Claimed(c)' = Claimed(c) /\ Owned(c)' = Owned(c)
       /\ InUse(c)' = InUse(c)
  <2>1. Linking(c)' = B
    BY <1>1, <1>6, <1>9 DEF Linking, SizeOf
  <2>2. Claimed(c)' = Claimed(c)
    BY <1>1, <1>7 DEF Claimed
  <2>3. Owned(c)' = Owned(c)
    BY <1>1 DEF Owned
  <2>. QED
    BY <1>5, <2>1, <2>2, <2>3 DEF InUse
<1>12. OwnApart(c)'
  BY <1>1, <1>2, <1>5, <1>11 DEF OwnApart
<1>13. B \intersect Claimed(c) = {} /\ B \intersect Owned(c) = {}
  <2>. HIDE DEF B
  <2>. QED
    BY <1>2, <1>5 DEF OwnApart
<1>14. Keeping(c)'
  <2>1. \A x \in objects[c] : Block(x) \subseteq Word /\ Block(x) \subseteq Owned(c)
    BY BlockFacts DEF Owned
  <2>2. \A x \in objects'[c] : \A a \in Block(x) : mem'[a] = mem[a]
    <3>. HIDE DEF B
    <3>. QED
      BY <1>1, <1>6, <1>13, <2>1
  <2>. QED
    BY <1>1, <2>2, KeepsObjects
<1>15. Calling(c)'
  BY <1>1, <1>2, <1>3, <1>7, <1>9 DEF Calling
<1>16. Holding(c)'
  <2>1. Moved(c) => /\ ret[c] \in Claimed(c) /\ ret[c] \in Word
    BY <1>2, Words DEF Holding
  <2>2. Copied(c) => Extent(ret[c] + NODE, object[c].size) \subseteq Claimed(c)
    BY Words
  <2>3. Claimed(c) \subseteq Word
    BY Pieces
  <2>4. Moved(c) => mem'[ret[c]] = mem[ret[c]]
    <3>. HIDE DEF B
    <3>. QED
      BY <1>6, <1>13, <2>1
  <2>5. Copied(c) => \A a \in Extent(ret[c] + NODE, object[c].size) : mem'[a] = mem[a]
    <3>. HIDE DEF B
    <3>. QED
      BY <1>6, <1>13, <2>2, <2>3
  <2>6. Copied(c) => \A a \in Extent(ret[c] + NODE, object[c].size) : mem[a] = Data(c)
    BY <1>2 DEF Holding
  <2>7. Moved(c) => /\ ret[c] \in Word /\ Extent(ret[c], NODE + req[c]) \subseteq Word
                    /\ mem'[ret[c]] = NODE + req[c]
    BY <1>2, <2>4 DEF Holding
  <2>8. Copied(c) => \A a \in Extent(ret[c] + NODE, object[c].size) : mem'[a] = Data(c)
    BY <2>5, <2>6
  <2>9. Sound(mem', node'[c]) /\ Data(c)' = Data(c)
    BY <1>1, <1>6 DEF Data
  <2>10. ret'[c] = ret[c] /\ req'[c] = req[c] /\ object'[c] = object[c]
    BY <1>1
  <2>. HIDE DEF n
  <2>. QED
    BY <1>7, <1>9, <2>7, <2>8, <2>9, <2>10 DEF Holding
<1>17. Listed(c)' /\ Searched(c)'
  BY <1>1, <1>6, <1>7 DEF Listed, Searched
<1>18. /\ GoodList(mem', head') /\ Space(mem', head') = Space(mem, head)
       /\ head' = head /\ \A a \in Space(mem, head) : mem'[a] = mem[a]
  <2>1. Space(mem, head) \subseteq Word
    BY <1>5, Pieces
  <2>2. \A a \in Space(mem, head) : mem'[a] = mem[a]
    <3>. HIDE DEF B
    <3>. QED
      BY <1>2, <1>5, <1>6, <2>1
  <2>3. GoodList(mem, head) /\ head' = head
    BY <1>1, <1>2
  <2>. QED
    BY <2>2, <2>3, ListKept
<1>19. /\ InUse(c)' \intersect Space(mem', head') = {}
       /\ InUse(c)' \union Space(mem', head') = InUse(c) \union Space(mem, head)
       /\ \A a \in Word : a \notin InUse(c) \union Space(mem, head) => mem'[a] = mem[a]
       /\ taken' = taken
  <2>. HIDE DEF B
  <2>. QED
    BY <1>1, <1>2, <1>5, <1>6, <1>11, <1>18
<1>. QED
  BY <1>3, <1>7, <1>8, <1>10, <1>12, <1>14, <1>15, <1>16, <1>17, <1>18, <1>19, ActsWithin

LEMMA FreePublishStep ==
  ASSUME Inv, NEW c \in CPUs, FreePublish(c), Serial' PROVE Inv'
<1> DEFINE n == node[c]
           s == mem[n]
           B == Extent(n, s)
<1>1. /\ pc[c] = "freePublish" /\ head' = n /\ freeLock' = FALSE
      /\ UNCHANGED << mem, taken, mallocLock, reallocLock, objects >>
  BY DEF FreePublish
<1>2. /\ Typed /\ Calling(c) /\ Holding(c) /\ Listed(c) /\ Locks /\ GoodList(mem, head)
      /\ OwnApart(c) /\ InUse(c) \intersect Space(mem, head) = {} /\ Keeping(c)
  BY DEF Inv, Apart
<1>3. InFree(c) /\ ~InAlloc(c) /\ taken > 0
  BY <1>1, Running DEF InAlloc, InFree
<1>4. /\ Sound(mem, n) /\ mem[n + 1] = head /\ n \in Word
  BY <1>1, <1>2, <1>3 DEF Holding, Listed, Sound
<1>5. Linking(c) = B /\ B \subseteq InUse(c) /\ B \intersect Claimed(c) = {} /\ B \intersect Owned(c) = {}
  <2>1. Linking(c) = B /\ B \subseteq InUse(c)
    BY <1>3, Words, Pieces
  <2>. HIDE DEF B
  <2>. QED
    BY <1>2, <2>1 DEF OwnApart
<1>6. GoodList(mem, n) /\ Space(mem, n) = Space(mem, head) \union B
  <2>1. Pushable(mem, head, n)
    BY <1>2, <1>4, <1>5 DEF Pushable
  <2>. QED
    BY <2>1, ListPushed
<1>7. GoodList(mem', head') /\ Space(mem', head') = Space(mem, head) \union B
  BY <1>1, <1>6
<1>8. \/ /\ ~Moving(c) /\ pc' = [pc EXCEPT ![c] = "idle"] /\ req' = [req EXCEPT ![c] = 0]
         /\ cur' = [cur EXCEPT ![c] = NULL] /\ ret' = [ret EXCEPT ![c] = NULL]
         /\ node' = [node EXCEPT ![c] = NULL] /\ object' = [object EXCEPT ![c] = NoObject]
      \/ /\ Moving(c) /\ pc' = [pc EXCEPT ![c] = "done"]
         /\ UNCHANGED << req, cur, ret, node, object >>
  BY DEF FreePublish, Return, Goto, Moving
<1>9. /\ \A d \in CPUs \ {c} : Same(d) /\ ~AtList(d)
      /\ \A a \in Word : mem'[a] = mem[a]
      /\ Keeping(c)' /\ Owned(c)' = Owned(c)
  <2>1. \A d \in CPUs \ {c} : Same(d)
    BY <1>1, <1>2, <1>8 DEF Typed, Same
  <2>2. Keeping(c)' /\ Owned(c)' = Owned(c)
    BY <1>1, <1>2 DEF Keeping, Owned
  <2>. QED
    BY <1>1, <1>3, <2>1, <2>2, Alone
<1>10. /\ pc'[c] \in { "idle", "done" }
       /\ ~Moving(c) => /\ pc'[c] = "idle" /\ ret'[c] = NULL /\ object'[c] = NoObject
       /\ Moving(c) => /\ pc'[c] = "done" /\ ret'[c] = ret[c] /\ req'[c] = req[c]
                       /\ object'[c] = object[c]
  BY <1>2, <1>8 DEF Typed
<1>11. /\ ~InAlloc(c)' /\ ~InFree(c)' /\ Moving(c)' = Moving(c)
       /\ Moved(c)' = Moved(c) /\ Copied(c)' = Copied(c) /\ Moved(c) = Moving(c)
       /\ Copied(c) = Moving(c)
  BY <1>1, <1>3, <1>10 DEF InAlloc, InFree, Moving, Moved, Copied
<1>12. Typed'
  <2>1. /\ pc' \in [CPUs -> Labels] /\ req' \in [CPUs -> Sizes \union {0}]
        /\ object' \in [CPUs -> Objects \union {NoObject}]
    BY <1>2, <1>8 DEF Typed, Labels
  <2>2. /\ cur' \in [CPUs -> Word \union {NULL}] /\ ret' \in [CPUs -> Word \union {NULL}]
        /\ node' \in [CPUs -> Word \union {NULL}]
    BY <1>2, <1>8 DEF Typed
  <2>. QED
    BY <1>1, <1>2, <1>4, <2>1, <2>2 DEF Typed
<1>13. Locks'
  <2>1. /\ InAlloc(c)' => mallocLock' /\ (InAlloc(c) \/ ~mallocLock)
        /\ InFree(c)'  => freeLock' /\ (InFree(c) \/ ~freeLock)
        /\ Moving(c)'  => reallocLock' /\ (Moving(c) \/ ~reallocLock)
        /\ mallocLock => mallocLock' \/ InAlloc(c)
        /\ freeLock => freeLock' \/ InFree(c)
        /\ reallocLock => reallocLock' \/ Moving(c)
    BY <1>1, <1>2, <1>3, <1>11 DEF Locks
  <2>. QED
    BY <1>2, <1>9, <2>1, LocksStep
<1>14. Claimed(c)' = Claimed(c) /\ Linking(c)' = {}
  <2>1. ~Moving(c) => ret[c] = NULL
    BY <1>2, <1>3 DEF Calling
  <2>2. Claimed(c)' = Claimed(c)
    BY <1>1, <1>10, <2>1 DEF Claimed
  <2>. QED
    BY <1>10, <1>11, <2>2 DEF Linking
<1>15. InUse(c) = InUse(c)' \union B /\ InUse(c)' \intersect B = {}
  <2>. HIDE DEF B
  <2>. QED
    BY <1>5, <1>9, <1>14 DEF InUse
<1>16. OwnApart(c)'
  BY <1>1, <1>2, <1>9, <1>14 DEF OwnApart
<1>17. Calling(c)'
  <2>1. Moving(c) => object[c] \in Objects /\ req[c] > object[c].size /\ req[c] \in Sizes
    BY <1>2 DEF Calling
  <2>. QED
    BY <1>10, <1>11, <2>1 DEF Calling
<1>18. Holding(c)'
  <2>1. Moved(c) => /\ ret[c] \in Word /\ Extent(ret[c], NODE + req[c]) \subseteq Word
                    /\ mem[ret[c]] = NODE + req[c]
    BY <1>2 DEF Holding
  <2>2. Copied(c) => \A a \in Extent(ret[c] + NODE, object[c].size) : mem[a] = Data(c)
    BY <1>2 DEF Holding
  <2>3. mem' = mem /\ Data(c)' = Data(c)
    BY <1>1 DEF Data
  <2>. QED
    BY <1>10, <1>11, <2>1, <2>2, <2>3 DEF Holding
<1>19. Listed(c)' /\ Searched(c)'
  BY <1>10 DEF Listed, Searched
<1>20. /\ InUse(c)' \intersect Space(mem', head') = {}
       /\ InUse(c)' \union Space(mem', head') = InUse(c) \union Space(mem, head)
       /\ taken' = taken
  <2>. HIDE DEF B
  <2>. QED
    BY <1>1, <1>2, <1>7, <1>15
<1>. QED
  BY <1>3, <1>7, <1>9, <1>12, <1>13, <1>16, <1>17, <1>18, <1>19, <1>20, ActsWithin

LEMMA ReallocAcquireStep ==
  ASSUME Inv, NEW c \in CPUs, ReallocAcquire(c), Serial' PROVE Inv'
<1>1. /\ pc[c] = "idle" /\ ~reallocLock /\ reallocLock'
      /\ pc' = [pc EXCEPT ![c] = "allocWait"]
      /\ UNCHANGED << mem, head, taken, mallocLock, freeLock, cur, ret, node, objects >>
  BY DEF ReallocAcquire, Goto
<1>2. PICK o \in objects[c], s \in Sizes :
        /\ s > o.size /\ object' = [object EXCEPT ![c] = o] /\ req' = [req EXCEPT ![c] = s]
  BY DEF ReallocAcquire
<1>3. Typed /\ Calling(c) /\ Locks
  BY DEF Inv
<1>4. /\ o \in Objects /\ o # NoObject /\ taken > 0
  <2>1. o \in Objects /\ o.at \in Word /\ taken > 0
    BY BlockFacts, Running
  <2>. QED
    BY <2>1, Constants DEF NoObject
<1>5. Typed'
  <2>1. /\ pc' \in [CPUs -> Labels] /\ req' \in [CPUs -> Sizes \union {0}]
        /\ object' \in [CPUs -> Objects \union {NoObject}]
    BY <1>1, <1>2, <1>3, <1>4 DEF Typed, Labels
  <2>. QED
    BY <1>1, <1>3, <2>1 DEF Typed
<1>6. /\ pc'[c] = "allocWait" /\ object'[c] = o /\ req'[c] = s /\ ret'[c] = NULL
      /\ objects'[c] = objects[c] /\ ret[c] = NULL
      /\ \A d \in CPUs \ {c} : Same(d)
  BY <1>1, <1>2, <1>3 DEF Typed, Calling, Same
<1>7. /\ ~InAlloc(c) /\ ~InAlloc(c)' /\ ~InFree(c) /\ ~InFree(c)' /\ Moving(c)'
      /\ ~Moved(c)' /\ ~Copied(c)'
  BY <1>1, <1>4, <1>6 DEF InAlloc, InFree, Moving, Moved, Copied
<1>8. Locks'
  <2>1. /\ InAlloc(c)' => mallocLock' /\ (InAlloc(c) \/ ~mallocLock)
        /\ InFree(c)'  => freeLock' /\ (InFree(c) \/ ~freeLock)
        /\ Moving(c)'  => reallocLock' /\ (Moving(c) \/ ~reallocLock)
        /\ mallocLock => mallocLock' \/ InAlloc(c)
        /\ freeLock => freeLock' \/ InFree(c)
        /\ reallocLock => reallocLock' \/ Moving(c)
    BY <1>1, <1>7
  <2>. QED
    BY <1>3, <1>6, <2>1, LocksStep
<1>9. Claimed(c)' = Claimed(c) /\ Linking(c)' = Linking(c)
  BY <1>1, <1>6, <1>7 DEF Claimed, Linking
<1>10. Calling(c)' /\ Holding(c)' /\ Listed(c)' /\ Searched(c)'
  <2>1. Calling(c)'
    BY <1>2, <1>4, <1>6, <1>7 DEF Calling
  <2>. QED
    BY <1>6, <1>7, <2>1 DEF Holding, Listed, Searched
<1>. QED
  BY <1>1, <1>4, <1>5, <1>6, <1>8, <1>9, <1>10, Still

LEMMA ReallocCopyStep ==
  ASSUME Inv, NEW c \in CPUs, ReallocCopy(c), Serial' PROVE Inv'
<1> DEFINE o == object[c]
           old == o.at
           new == ret[c] + NODE
           size == mem[old - NODE] - NODE
           W == Extent(new, size)
<1>1. /\ pc[c] = "copy" /\ pc' = [pc EXCEPT ![c] = "freeWait"]
      /\ mem' = [a \in Word |-> IF a \in W THEN mem[old + (a - new)] ELSE mem[a]]
      /\ UNCHANGED << head, taken, mallocLock, freeLock, reallocLock, req, cur, ret, node,
                      object, objects >>
  BY DEF ReallocCopy, SizeOf, Goto, locks
<1>2. /\ Typed /\ Calling(c) /\ Holding(c) /\ Locks /\ GoodList(mem, head)
      /\ OwnApart(c) /\ InUse(c) \intersect Space(mem, head) = {} /\ Keeping(c)
  BY DEF Inv, Apart
<1>3. /\ Moving(c) /\ ~InFree(c) /\ ~InAlloc(c) /\ Moved(c) /\ taken > 0
      /\ o \in objects[c] /\ o \in Objects /\ req[c] > o.size /\ req[c] \in Sizes
      /\ ret[c] \in Word /\ mem[ret[c]] = NODE + req[c]
  <2>1. /\ ~InFree(c) /\ ~InAlloc(c) /\ Moved(c) /\ taken > 0
    BY <1>1, Running DEF InFree, InAlloc, Moved
  <2>. QED
    BY <1>1, <1>2, <2>1 DEF Calling, Holding
<1>4. /\ old \in Nat /\ o.size \in Nat /\ size = o.size /\ ret[c] \in Nat /\ NODE = 2
      /\ req[c] \in Nat /\ new \in Nat
  <2>1. o.size \in Nat /\ mem[old - NODE] = NODE + o.size
    BY <1>2, <1>3, BlockFacts DEF Keeping
  <2>2. old \in Nat /\ ret[c] \in Nat /\ NODE = 2 /\ req[c] \in Nat
    BY <1>3, Constants DEF Objects
  <2>3. size = o.size
    <3> DEFINE h == mem[old - NODE]
               z == o.size
    <3>1. z \in Nat /\ h = NODE + z /\ NODE = 2
      BY <2>1, <2>2
    <3>2. h - NODE = z
      <4>. HIDE DEF h, z
      <4>. QED
        BY <3>1
    <3>. QED
      BY <3>2
  <2>. QED
    BY <2>1, <2>2, <2>3
<1>5. /\ Claimed(c) = Extent(ret[c], NODE + req[c]) /\ W \subseteq Claimed(c)
      /\ ret[c] \in Claimed(c) /\ ret[c] \notin W
      /\ Claimed(c) \subseteq InUse(c) /\ InUse(c) \subseteq Word /\ Linking(c) = {}
  <2>1. /\ Claimed(c) = Extent(ret[c], NODE + req[c]) /\ ret[c] \in Claimed(c)
        /\ Claimed(c) \subseteq InUse(c) /\ InUse(c) \subseteq Word
    BY <1>3, Words, Pieces
  <2>2. Linking(c) = {}
    BY <1>1, <1>3 DEF Linking
  <2>3. Extent(new, o.size) \subseteq Extent(ret[c], NODE + req[c]) /\ ret[c] \notin Extent(new, o.size)
    <3> DEFINE r == ret[c]
               q == req[c]
               z == o.size
    <3>1. r \in Nat /\ q \in Nat /\ z \in Nat /\ q > z /\ NODE = 2
      BY <1>3, <1>4
    <3>2. Extent(r + NODE, z) \subseteq Extent(r, NODE + q) /\ r \notin Extent(r + NODE, z)
      <4>. HIDE DEF r, q, z
      <4>. QED
        BY <3>1 DEF Extent
    <3>. QED
      BY <3>2
  <2>. QED
    BY <1>4, <2>1, <2>2, <2>3
<1>6. \A a \in W : a \in Int /\ old + (a - new) \in Extent(old, o.size)
  <2> DEFINE z == o.size
  <2>1. new \in Nat /\ old \in Nat /\ z \in Nat /\ W = Extent(new, z)
    BY <1>4
  <2>. HIDE DEF new, old, z, W
  <2>2. \A a \in W : a \in Int /\ old + (a - new) \in Extent(old, z)
    BY <2>1 DEF Extent
  <2>. QED
    BY <2>2 DEF z
<1>7. \A a \in W : mem[old + (a - new)] = Data(c)
  <2>1. \A b \in Extent(old, o.size) : mem[b] = Data(c)
    BY <1>2, <1>3 DEF Keeping
  <2>. QED
    BY <1>6, <2>1
<1>8. /\ mem' \in [Word -> Int] /\ \A a \in W : mem'[a] = Data(c)
      /\ \A a \in Word : a \notin W => mem'[a] = mem[a]
  <2>1. mem \in [Word -> Int] /\ Data(c) \in Int /\ W \subseteq Word
    BY <1>2, <1>5, Constants DEF Typed, Data
  <2>2. mem' = [a \in Word |-> IF a \in W THEN Data(c) ELSE mem[a]]
    <3>. HIDE DEF W, old, new
    <3>. QED
      BY <1>1, <1>7
  <2>. HIDE DEF W
  <2>. QED
    BY <2>1, <2>2
<1>9. /\ pc'[c] = "freeWait" /\ \A d \in CPUs \ {c} : Same(d)
  BY <1>1, <1>2 DEF Typed, Same
<1>10. Typed'
  <2>1. pc' \in [CPUs -> Labels]
    BY <1>1, <1>2 DEF Typed, Labels
  <2>. QED
    BY <1>1, <1>2, <1>8, <2>1 DEF Typed
<1>11. /\ ~InAlloc(c)' /\ ~InFree(c)' /\ Moving(c)' /\ Moved(c)' /\ Copied(c)'
  BY <1>1, <1>3, <1>9 DEF InAlloc, InFree, Moving, Moved, Copied
<1>12. Locks'
  BY <1>1, <1>2, <1>3, <1>9, <1>11, LocksSame
<1>13. /\ Claimed(c)' = Claimed(c) /\ Linking(c)' = {} /\ Owned(c)' = Owned(c)
       /\ InUse(c)' = InUse(c) /\ OwnApart(c)'
  <2>1. Claimed(c)' = Claimed(c)
    BY <1>1, <1>9 DEF Claimed
  <2>2. Linking(c)' = {}
    BY <1>9, <1>11 DEF Linking
  <2>3. Owned(c)' = Owned(c)
    BY <1>1 DEF Owned
  <2>4. OwnApart(c)'
    BY <1>1, <1>2, <1>5, <2>1, <2>2, <2>3 DEF OwnApart
  <2>. QED
    BY <1>5, <2>1, <2>2, <2>3, <2>4 DEF InUse
<1>14. Keeping(c)'
  <2>1. \A x \in objects[c] : Block(x) \subseteq Word /\ Block(x) \subseteq Owned(c)
    BY BlockFacts DEF Owned
  <2>2. Claimed(c) \intersect Owned(c) = {}
    BY <1>2 DEF OwnApart
  <2>3. \A x \in objects'[c] : \A a \in Block(x) : mem'[a] = mem[a]
    <3>. HIDE DEF W
    <3>. QED
      BY <1>1, <1>5, <1>8, <2>1, <2>2
  <2>. QED
    BY <1>1, <2>3, KeepsObjects
<1>15. Calling(c)' /\ Listed(c)' /\ Searched(c)'
  <2>1. Calling(c)'
    <3>. HIDE DEF o
    <3>. QED
      BY <1>1, <1>2, <1>3, <1>9, <1>11 DEF Calling
  <2>. QED
    BY <1>9, <2>1 DEF Listed, Searched
<1>16. Holding(c)'
  <2>1. /\ ret'[c] = ret[c] /\ req'[c] = req[c] /\ object'[c] = object[c] /\ Data(c)' = Data(c)
    BY <1>1 DEF Data
  <2>2. /\ ret[c] \in Word /\ Extent(ret[c], NODE + req[c]) \subseteq Word
        /\ mem'[ret[c]] = NODE + req[c]
    <3>. HIDE DEF W
    <3>. QED
      BY <1>3, <1>5, <1>8
  <2>3. \A a \in Extent(ret[c] + NODE, object[c].size) : mem'[a] = Data(c)
    BY <1>4, <1>8
  <2>. QED
    BY <1>9, <1>11, <2>1, <2>2, <2>3 DEF Holding
<1>17. /\ GoodList(mem', head') /\ Space(mem', head') = Space(mem, head)
       /\ head' = head /\ \A a \in Space(mem, head) : mem'[a] = mem[a]
  <2>1. Space(mem, head) \subseteq Word
    BY <1>5, Pieces
  <2>2. \A a \in Space(mem, head) : mem'[a] = mem[a]
    <3>. HIDE DEF W
    <3>. QED
      BY <1>2, <1>5, <1>8, <2>1
  <2>3. GoodList(mem, head) /\ head' = head
    BY <1>1, <1>2
  <2>. QED
    BY <2>2, <2>3, ListKept
<1>18. /\ InUse(c)' \intersect Space(mem', head') = {}
       /\ InUse(c)' \union Space(mem', head') = InUse(c) \union Space(mem, head)
       /\ \A a \in Word : a \notin InUse(c) \union Space(mem, head) => mem'[a] = mem[a]
       /\ taken' = taken
  <2>. HIDE DEF W
  <2>. QED
    BY <1>1, <1>2, <1>5, <1>8, <1>13, <1>17
<1>. QED
  BY <1>3, <1>9, <1>10, <1>12, <1>13, <1>14, <1>15, <1>16, <1>17, <1>18, ActsWithin

LEMMA ReallocFinishStep ==
  ASSUME Inv, NEW c \in CPUs, ReallocFinish(c), Serial' PROVE Inv'
<1> DEFINE r == ret[c]
           q == req[c]
           z == object[c].size
           B == Extent(r, NODE + q)
           at == r + NODE
           W == Extent(at + z, q - z)
           o == [at |-> at, size |-> q]
<1>1. /\ pc[c] = "done" /\ reallocLock' = FALSE
      /\ mem' = Filled(mem, W, c) /\ objects' = [objects EXCEPT ![c] = @ \union {o}]
      /\ UNCHANGED << head, taken, mallocLock, freeLock >>
  BY DEF ReallocFinish
<1>2. /\ pc' = [pc EXCEPT ![c] = "idle"] /\ req' = [req EXCEPT ![c] = 0]
      /\ cur' = [cur EXCEPT ![c] = NULL] /\ ret' = [ret EXCEPT ![c] = NULL]
      /\ node' = [node EXCEPT ![c] = NULL] /\ object' = [object EXCEPT ![c] = NoObject]
  BY DEF ReallocFinish, Return, Goto
<1>3. /\ Typed /\ Calling(c) /\ Holding(c) /\ Locks /\ GoodList(mem, head)
      /\ OwnApart(c) /\ InUse(c) \intersect Space(mem, head) = {} /\ Keeping(c)
  BY DEF Inv, Apart
<1>4. /\ Moving(c) /\ ~InFree(c) /\ ~InAlloc(c) /\ Moved(c) /\ Copied(c) /\ taken > 0
  BY <1>1, <1>3, Running DEF InFree, InAlloc, Moved, Copied, Calling
<1>5. /\ r \in Word /\ B \subseteq Word /\ mem[r] = NODE + q /\ q \in Sizes
      /\ object[c] \in Objects /\ q > z
      /\ \A a \in Extent(r + NODE, z) : mem[a] = Data(c)
  BY <1>3, <1>4 DEF Calling, Holding
<1>6. r \in Nat /\ q \in Nat \ {0} /\ z \in Nat /\ NODE = 2 /\ at \in Nat /\ at = r + NODE
  <2>1. z \in Sizes
    BY <1>5 DEF Objects
  <2>2. r \in Nat /\ q \in Nat \ {0} /\ z \in Nat /\ NODE = 2
    <3>. HIDE DEF r, q, z
    <3>. QED
      BY <1>5, <2>1, Constants
  <2>. QED
    BY <2>2
<1>7. /\ r \in B /\ W \subseteq B /\ r \notin W /\ at \in B /\ at - NODE = r
      /\ Extent(at, q) = Extent(at, z) \union W /\ W \intersect Extent(at, z) = {}
      /\ Extent(at, q) \subseteq B
  <2>1. q > z
    BY <1>5
  <2>. HIDE DEF r, q, z, at
  <2>. QED
    BY <1>6, <2>1 DEF Extent
<1>8. Block(o) = B
  BY <1>7 DEF Block
<1>9. /\ Claimed(c) = B /\ Linking(c) = {} /\ B \intersect Owned(c) = {}
      /\ InUse(c) = B \union Owned(c) /\ Owned(c) \subseteq Word /\ Space(mem, head) \subseteq Word
  <2>1. Claimed(c) = B
    BY <1>4, Words
  <2>2. Linking(c) = {}
    BY <1>1, <1>4 DEF Linking
  <2>. QED
    BY <1>3, <2>1, <2>2, Pieces DEF OwnApart, InUse
<1>10. /\ mem' \in [Word -> Int] /\ \A a \in W : mem'[a] = Data(c)
       /\ \A a \in Word : a \notin W => mem'[a] = mem[a]
  <2>1. mem \in [Word -> Int] /\ Data(c) \in Int /\ W \subseteq Word
    BY <1>3, <1>5, <1>7, Constants DEF Typed, Data
  <2>2. mem' = [a \in Word |-> IF a \in W THEN Data(c) ELSE mem[a]]
    BY <1>1 DEF Filled
  <2>. HIDE DEF W
  <2>. QED
    BY <2>1, <2>2
<1>11. o \in Objects
  BY <1>5, <1>7 DEF Objects
<1>12. /\ pc'[c] = "idle" /\ ret'[c] = NULL /\ object'[c] = NoObject
       /\ objects'[c] = objects[c] \union {o}
       /\ \A d \in CPUs \ {c} : Same(d)
  <2>. HIDE DEF o
  <2>. QED
    BY <1>1, <1>2, <1>3 DEF Typed, Same
<1>13. Typed'
  <2>1. /\ pc' \in [CPUs -> Labels] /\ req' \in [CPUs -> Sizes \union {0}]
        /\ object' \in [CPUs -> Objects \union {NoObject}]
    BY <1>2, <1>3 DEF Typed, Labels
  <2>2. /\ cur' \in [CPUs -> Word \union {NULL}] /\ ret' \in [CPUs -> Word \union {NULL}]
        /\ node' \in [CPUs -> Word \union {NULL}]
    BY <1>2, <1>3 DEF Typed
  <2>3. objects' \in [CPUs -> SUBSET Objects]
    <3>. HIDE DEF o
    <3>. QED
      BY <1>1, <1>3, <1>11 DEF Typed
  <2>4. head' \in Word \union {NULL} /\ mallocLock' \in BOOLEAN /\ freeLock' \in BOOLEAN
        /\ reallocLock' \in BOOLEAN
    BY <1>1, <1>3 DEF Typed
  <2>. QED
    BY <1>10, <2>1, <2>2, <2>3, <2>4 DEF Typed
<1>14. ~InAlloc(c)' /\ ~InFree(c)' /\ ~Moved(c)' /\ ~Copied(c)' /\ ~Moving(c)'
  BY <1>12 DEF InAlloc, InFree, Moved, Copied, Moving
<1>15. Locks'
  <2>1. /\ InAlloc(c)' => mallocLock' /\ (InAlloc(c) \/ ~mallocLock)
        /\ InFree(c)'  => freeLock' /\ (InFree(c) \/ ~freeLock)
        /\ Moving(c)'  => reallocLock' /\ (Moving(c) \/ ~reallocLock)
        /\ mallocLock => mallocLock' \/ InAlloc(c)
        /\ freeLock => freeLock' \/ InFree(c)
        /\ reallocLock => reallocLock' \/ Moving(c)
    BY <1>1, <1>4, <1>14
  <2>. QED
    BY <1>3, <1>12, <2>1, LocksStep
<1>16. /\ Claimed(c)' = {} /\ Linking(c)' = {} /\ Owned(c)' = Owned(c) \union B
       /\ InUse(c)' = InUse(c)
  <2>1. Claimed(c)' = {} /\ Linking(c)' = {}
    BY <1>12, <1>14 DEF Claimed, Linking
  <2>2. Owned(c)' = Owned(c) \union B
    <3>1. \A a : a \in Owned(c)' <=> \E x \in objects[c] \union {o} : a \in Block(x)
      <4>. HIDE DEF o
      <4>. QED
        BY <1>12 DEF Owned
    <3>2. \A a : a \in Owned(c) <=> \E x \in objects[c] : a \in Block(x)
      BY DEF Owned
    <3>. HIDE DEF o, B
    <3>. QED
      BY <1>8, <3>1, <3>2
  <2>. QED
    BY <1>9, <2>1, <2>2 DEF InUse
<1>17. OwnApart(c)'
  <2>1. \A x \in objects[c] : Block(x) \intersect B = {}
    BY <1>9 DEF Owned
  <2>2. \A x, y \in objects'[c] : x # y => Block(x) \intersect Block(y) = {}
    <3>. HIDE DEF o, B
    <3>. QED
      BY <1>3, <1>8, <1>12, <2>1 DEF OwnApart
  <2>. QED
    BY <1>16, <2>2 DEF OwnApart
<1>18. \A x \in objects[c] : /\ mem'[x.at - NODE] = NODE + x.size
                             /\ \A a \in Extent(x.at, x.size) : mem'[a] = Data(c)
  <2>1. SUFFICES ASSUME NEW x \in objects[c]
                 PROVE  /\ mem'[x.at - NODE] = NODE + x.size
                        /\ \A a \in Extent(x.at, x.size) : mem'[a] = Data(c)
    OBVIOUS
  <2>2. \A a \in Block(x) : a \in Word /\ a \notin B
    BY <1>9 DEF Owned
  <2>3. \A a \in Block(x) : mem'[a] = mem[a]
    <3>. HIDE DEF B, W
    <3>. QED
      BY <1>7, <1>10, <2>2
  <2>. HIDE DEF B, W, o
  <2>. QED
    BY <1>3, <2>3, BlockFacts DEF Keeping
<1>19. Keeping(c)'
  <2>1. mem'[r] = NODE + q /\ \A a \in Extent(at, q) : mem'[a] = Data(c)
    <3>1. Extent(at, z) \subseteq Word /\ \A a \in Extent(at, z) : mem[a] = Data(c) /\ a \notin W
      <4>1. Extent(at, z) \subseteq B
        BY <1>7
      <4>. HIDE DEF B, W
      <4>. QED
        BY <1>5, <1>7, <4>1
    <3>. HIDE DEF r, z, q, at, W
    <3>. QED
      BY <1>5, <1>7, <1>10, <3>1
  <2>2. mem'[o.at - NODE] = NODE + o.size /\ \A a \in Extent(o.at, o.size) : mem'[a] = Data(c)
    BY <1>7, <2>1
  <2>3. Data(c)' = Data(c)
    BY DEF Data
  <2>. HIDE DEF o
  <2>. QED
    BY <1>12, <1>18, <2>2, <2>3 DEF Keeping
<1>20. Calling(c)' /\ Holding(c)' /\ Listed(c)' /\ Searched(c)'
  BY <1>12, <1>14 DEF Calling, Holding, Listed, Searched
<1>21. /\ GoodList(mem', head') /\ Space(mem', head') = Space(mem, head)
       /\ head' = head /\ \A a \in Space(mem, head) : mem'[a] = mem[a]
  <2>1. \A a \in Space(mem, head) : mem'[a] = mem[a]
    <3>. HIDE DEF B, W
    <3>. QED
      BY <1>3, <1>7, <1>9, <1>10
  <2>2. GoodList(mem, head) /\ head' = head
    BY <1>1, <1>3
  <2>. QED
    BY <2>1, <2>2, ListKept
<1>22. /\ InUse(c)' \intersect Space(mem', head') = {}
       /\ InUse(c)' \union Space(mem', head') = InUse(c) \union Space(mem, head)
       /\ \A a \in Word : a \notin InUse(c) \union Space(mem, head) => mem'[a] = mem[a]
       /\ taken' = taken
  <2>. HIDE DEF B, W
  <2>. QED
    BY <1>1, <1>3, <1>7, <1>9, <1>10, <1>16, <1>21
<1>. QED
  BY <1>4, <1>12, <1>13, <1>15, <1>17, <1>19, <1>20, <1>21, <1>22, ActsWithin

-----------------------------------------------------------------------------
(* Every step keeps the invariant, provided no split leaves a sliver. *)

LEMMA StutterStep == ASSUME Inv, UNCHANGED vars PROVE Inv'
<1>1. UNCHANGED << mem, head, taken, mallocLock, freeLock, reallocLock, pc, req, cur, ret,
                   node, object, objects >>
  BY DEF vars, locks
<1>2. Typed' /\ Locks' /\ Serial' /\ Paged' /\ GoodList(mem, head)'
  BY <1>1 DEF Inv, Typed, Locks, Serial, Paged, InAlloc, InFree, Moving
<1>3. \A d \in CPUs : Same(d) /\ \A a \in InUse(d) : mem'[a] = mem[a]
  BY <1>1 DEF Same
<1>4. \A d \in CPUs : /\ InUse(d)' = InUse(d) /\ OwnApart(d)'
                      /\ Calling(d)' /\ Holding(d)' /\ Keeping(d)'
  BY <1>3, Elsewhere
<1>5. \A d \in CPUs : Listed(d)' /\ Searched(d)'
  BY <1>1, <1>3, SameList
<1>6. Apart' /\ Covered'
  BY <1>1, <1>4 DEF Inv, Apart, Covered, HeapWords
<1>. QED
  BY <1>2, <1>4, <1>5, <1>6 DEF Inv

LEMMA Keeps == ASSUME Inv, NoSliver, [SerialNext]_vars PROVE Inv'
<1>1. CASE UNCHANGED vars
  BY <1>1, StutterStep
<1>2. CASE SerialNext
  <2>1. Serial'
    BY <1>2 DEF SerialNext
  <2>2. CASE InitializeHeap
    BY <2>2, InitializeStep
  <2>3. ASSUME NEW c \in CPUs, Step(c) PROVE Inv'
    <3>1. \/ AllocAcquire(c) \/ FindAdvance(c) \/ FindTake(c) \/ FindExpand(c)
          \/ AllocUnlink(c) \/ AllocSplit(c) \/ AllocPublish(c) \/ AllocFinish(c)
          \/ FreeAcquire(c) \/ FreeLink(c) \/ FreePublish(c)
          \/ ReallocAcquire(c) \/ ReallocCopy(c) \/ ReallocFinish(c)
      BY <2>3 DEF Step
    <3>2. CASE AllocAcquire(c)
      BY <2>1, <3>2, AllocAcquireStep
    <3>3. CASE FindAdvance(c)
      BY <2>1, <3>3, FindAdvanceStep
    <3>4. CASE FindTake(c)
      BY <2>1, <3>4, FindTakeStep
    <3>5. CASE FindExpand(c)
      BY <2>1, <3>5, FindExpandStep
    <3>6. CASE AllocUnlink(c)
      BY <2>1, <3>6, AllocUnlinkStep
    <3>7. CASE AllocSplit(c)
      BY <2>1, <3>7, AllocSplitStep
    <3>8. CASE AllocPublish(c)
      BY <2>1, <3>8, AllocPublishStep
    <3>9. CASE AllocFinish(c)
      BY <2>1, <3>9, AllocFinishStep
    <3>10. CASE FreeAcquire(c)
      BY <2>1, <3>10, FreeAcquireStep
    <3>11. CASE FreeLink(c)
      BY <2>1, <3>11, FreeLinkStep
    <3>12. CASE FreePublish(c)
      BY <2>1, <3>12, FreePublishStep
    <3>13. CASE ReallocAcquire(c)
      BY <2>1, <3>13, ReallocAcquireStep
    <3>14. CASE ReallocCopy(c)
      BY <2>1, <3>14, ReallocCopyStep
    <3>15. CASE ReallocFinish(c)
      BY <2>1, <3>15, ReallocFinishStep
    <3>. QED
      BY <3>1, <3>2, <3>3, <3>4, <3>5, <3>6, <3>7, <3>8, <3>9, <3>10, <3>11, <3>12, <3>13,
         <3>14, <3>15
  <2>. QED
    BY <1>2, <2>2, <2>3 DEF SerialNext, Next
<1>. QED
  BY <1>1, <1>2

-----------------------------------------------------------------------------
(* Walking the list finds its nodes. *)

Follow(a) == IF a = NULL THEN NULL ELSE mem[a + 1]

(* f is a walk of n nodes beyond the first. *)
IsWalk(f, n) == f = [k \in 0 .. n |-> IF k = 0 THEN head ELSE Follow(f[k - 1])]

LEMMA WalkExists == ASSUME NEW n \in Nat PROVE \E f : IsWalk(f, n)
<1> DEFINE T == { k \in Nat : ~ \E f : IsWalk(f, k) }
<1>1. SUFFICES ASSUME T # {} PROVE FALSE
  OBVIOUS
<1>2. PICK k \in T : \A j \in T : k <= j
  <2>1. T \subseteq Nat
    OBVIOUS
  <2>. HIDE DEF T
  <2>. QED
    BY <1>1, <2>1, Least
<1>3. k \in Nat /\ ~ \E f : IsWalk(f, k)
  OBVIOUS
<1>4. CASE k = 0
  <2> DEFINE f == [i \in 0 .. 0 |-> head]
  <2>1. f = [i \in 0 .. 0 |-> IF i = 0 THEN head ELSE Follow(f[i - 1])]
    OBVIOUS
  <2>2. IsWalk(f, 0)
    BY <2>1 DEF IsWalk
  <2>. QED
    BY <1>3, <1>4, <2>2
<1>5. CASE k # 0
  <2> DEFINE j == k - 1
  <2>1. j \in Nat /\ j < k /\ k = j + 1 /\ 0 .. k = (0 .. j) \union {k}
    BY <1>3, <1>5
  <2>2. j \notin T
    BY <1>2, <1>3, <2>1
  <2>3. PICK f : IsWalk(f, j)
    BY <2>1, <2>2
  <2> HIDE DEF j
  <2> DEFINE g == [i \in 0 .. k |-> IF i = k THEN Follow(f[j]) ELSE f[i]]
  <2>4. \A i \in 0 .. j : g[i] = f[i]
    BY <2>1, <1>3
  <2>5. \A i \in 0 .. j : f[i] = IF i = 0 THEN head ELSE Follow(f[i - 1])
    BY <2>3 DEF IsWalk
  <2>6. \A i \in 0 .. k : g[i] = IF i = 0 THEN head ELSE Follow(g[i - 1])
    <3>1. SUFFICES ASSUME NEW i \in 0 .. k
                   PROVE  g[i] = IF i = 0 THEN head ELSE Follow(g[i - 1])
      OBVIOUS
    <3>2. CASE i = k
      <4>1. i # 0 /\ i - 1 = j /\ j \in 0 .. j
        BY <1>5, <2>1, <3>2
      <4>2. g[i] = Follow(f[j])
        BY <3>2
      <4>. QED
        BY <2>4, <4>1, <4>2
    <3>3. CASE i # k
      <4>1. i \in 0 .. j /\ (i # 0 => i - 1 \in 0 .. j)
        BY <2>1, <3>3
      <4>. HIDE DEF g
      <4>. QED
        BY <2>4, <2>5, <4>1
    <3>. QED
      BY <3>2, <3>3
  <2>7. g = [i \in 0 .. k |-> g[i]]
    OBVIOUS
  <2>8. IsWalk(g, k)
    <3>. HIDE DEF g
    <3>. QED
      BY <2>6, <2>7 DEF IsWalk
  <2>. QED
    BY <1>3, <2>8
<1>. QED
  BY <1>4, <1>5

LEMMA WalkDefined ==
  /\ Walk = [k \in 0 .. MemTop |-> Walk[k]]
  /\ \A k \in 0 .. MemTop : Walk[k] = IF k = 0 THEN head ELSE Follow(Walk[k - 1])
<1>1. \E f : f = [k \in 0 .. MemTop |-> IF k = 0 THEN head ELSE Follow(f[k - 1])]
  BY WalkExists, Constants DEF IsWalk
<1>2. \E f : f = [k \in 0 .. MemTop |->
                   IF k = 0 THEN head
                   ELSE LET n == f[k - 1] IN IF n = NULL THEN NULL ELSE NextOf(n)]
  BY <1>1 DEF Follow, NextOf
<1>3. Walk = [k \in 0 .. MemTop |->
                   IF k = 0 THEN head
                   ELSE LET n == Walk[k - 1] IN IF n = NULL THEN NULL ELSE NextOf(n)]
  BY <1>2, Zenon DEF Walk
<1>. QED
  BY <1>3 DEF Follow, NextOf

LEMMA WalkInList ==
  ASSUME GoodList(mem, head)
  PROVE  \A k \in 0 .. MemTop : Walk[k] \in Nodes(mem, head) \union {NULL}
<1> DEFINE N == Nodes(mem, head)
<1>1. /\ MemTop \in Nat /\ NULL = 0
      /\ \A k \in 0 .. MemTop : Walk[k] = IF k = 0 THEN head ELSE Follow(Walk[k - 1])
  BY WalkDefined, Constants
<1>2. /\ NULL \notin Word /\ head \in N \union {NULL}
      /\ \A n \in N : mem[n + 1] \in N \union {NULL}
  BY ListFacts, Constants
<1> DEFINE T == { k \in 0 .. MemTop : Walk[k] \notin N \union {NULL} }
<1>3. SUFFICES ASSUME T # {} PROVE FALSE
  OBVIOUS
<1>4. PICK k \in T : \A j \in T : k <= j
  <2>1. T \subseteq Nat
    OBVIOUS
  <2>. HIDE DEF T
  <2>. QED
    BY <1>3, <2>1, Least
<1>5. k \in 0 .. MemTop /\ k # 0
  BY <1>1, <1>2
<1>6. k - 1 \in 0 .. MemTop /\ k - 1 < k
  BY <1>1, <1>5
<1>7. Walk[k - 1] \in N \union {NULL}
  BY <1>4, <1>6
<1>8. Walk[k] \in N \union {NULL}
  <2>. HIDE DEF N, T
  <2>. QED
    BY <1>1, <1>2, <1>5, <1>7 DEF Follow
<1>. QED
  BY <1>4, <1>8

(* More steps than there are words lead past the end of the list. *)
LEMMA WalkEnds == ASSUME GoodList(mem, head) PROVE Walk[MemTop] = NULL
<1> DEFINE N == Nodes(mem, head)
           L == Links(mem)
<1>1. /\ MemTop \in Nat /\ NULL = 0 /\ NODE = 2
      /\ \A k \in 0 .. MemTop : Walk[k] = IF k = 0 THEN head ELSE Follow(Walk[k - 1])
      /\ Walk = [k \in 0 .. MemTop |-> Walk[k]]
  BY WalkDefined, Constants
<1>2. /\ N \subseteq Word /\ NULL \notin Word /\ head \in N \union {NULL}
      /\ \A n \in N : mem[n + 1] \in N \union {NULL} /\ L[n] = mem[n + 1]
  BY ListFacts, Constants
<1>3. /\ head # NULL => \A n \in N : L[n] # head
      /\ \A m, n \in N : L[m] = L[n] /\ L[m] # NULL => m = n
  BY DEF GoodList, IsList, Nodes
<1>4. \A k \in 0 .. MemTop : Walk[k] \in N \union {NULL}
  BY WalkInList
<1>5. SUFFICES ASSUME Walk[MemTop] # NULL PROVE FALSE
  OBVIOUS
<1>6. \A k \in 0 .. MemTop : Walk[k] \in N
  <2> DEFINE T == { j \in 0 .. MemTop : Walk[MemTop - j] = NULL }
  <2>1. SUFFICES ASSUME T # {} PROVE FALSE
    <3>1. ASSUME NEW k \in 0 .. MemTop PROVE Walk[k] # NULL
      <4>1. MemTop - k \in 0 .. MemTop /\ MemTop - (MemTop - k) = k
        BY <1>1
      <4>. QED
        BY <2>1, <4>1
    <3>. QED
      BY <1>4, <3>1
  <2>2. PICK j \in T : \A i \in T : j <= i
    <3>1. T \subseteq Nat
      OBVIOUS
    <3>. HIDE DEF T
    <3>. QED
      BY <2>1, <3>1, Least
  <2>3. j \in 0 .. MemTop /\ Walk[MemTop - j] = NULL /\ j # 0
    <3>1. MemTop - 0 = MemTop
      BY <1>1
    <3>. QED
      BY <1>5, <3>1
  <2>4. /\ j - 1 \in 0 .. MemTop /\ j - 1 < j
        /\ MemTop - (j - 1) \in 0 .. MemTop /\ MemTop - (j - 1) # 0
        /\ (MemTop - (j - 1)) - 1 = MemTop - j
    BY <1>1, <2>3
  <2>5. Walk[MemTop - (j - 1)] = Follow(Walk[MemTop - j])
    BY <1>1, <2>4
  <2>6. Walk[MemTop - (j - 1)] = NULL
    BY <2>3, <2>5 DEF Follow
  <2>. QED
    BY <2>2, <2>4, <2>6
<1>7. \A k \in 0 .. MemTop : k # 0 => k - 1 \in 0 .. MemTop /\ Walk[k] = L[Walk[k - 1]]
  <2>1. SUFFICES ASSUME NEW k \in 0 .. MemTop, k # 0
                 PROVE  k - 1 \in 0 .. MemTop /\ Walk[k] = L[Walk[k - 1]]
    OBVIOUS
  <2>2. k - 1 \in 0 .. MemTop
    BY <1>1, <2>1
  <2>3. Walk[k - 1] \in N /\ Walk[k - 1] # NULL /\ Walk[k] = Follow(Walk[k - 1])
    BY <1>1, <1>2, <1>6, <2>1, <2>2
  <2>. QED
    BY <1>2, <2>2, <2>3 DEF Follow
<1>8. \A i, j \in 0 .. MemTop : i < j => Walk[i] # Walk[j]
  <2> DEFINE T == { i \in 0 .. MemTop : \E j \in 0 .. MemTop : i < j /\ Walk[i] = Walk[j] }
  <2>1. SUFFICES ASSUME T # {} PROVE FALSE
    OBVIOUS
  <2>2. PICK i \in T : \A k \in T : i <= k
    <3>1. T \subseteq Nat
      OBVIOUS
    <3>. HIDE DEF T
    <3>. QED
      BY <2>1, <3>1, Least
  <2>3. PICK j \in 0 .. MemTop : i < j /\ Walk[i] = Walk[j]
    OBVIOUS
  <2>4. i \in 0 .. MemTop /\ j # 0 /\ j - 1 \in 0 .. MemTop
    <3>1. i \in 0 .. MemTop
      OBVIOUS
    <3>. HIDE DEF T
    <3>. QED
      BY <1>1, <2>3, <3>1
  <2>5. Walk[j] = L[Walk[j - 1]] /\ Walk[j - 1] \in N
    BY <1>6, <1>7, <2>4
  <2>6. CASE i = 0
    <3>1. Walk[i] = head /\ head # NULL
      BY <1>1, <1>2, <1>6, <2>6, ZenonT(30)
    <3>. HIDE DEF L, N, T
    <3>. QED
      BY <1>3, <2>3, <2>5, <3>1
  <2>7. CASE i # 0
    <3>1. i - 1 \in 0 .. MemTop /\ Walk[i] = L[Walk[i - 1]] /\ Walk[i - 1] \in N
      BY <1>6, <1>7, <2>4, <2>7
    <3>2. Walk[i] \in N /\ Walk[i] # NULL
      BY <1>2, <1>6, <2>4
    <3>3. Walk[i - 1] = Walk[j - 1]
      <4>. HIDE DEF L, N, T
      <4>. QED
        BY <1>3, <2>3, <2>5, <3>1, <3>2
    <3>4. i - 1 < j - 1 /\ i - 1 < i
      BY <2>3, <2>4
    <3>5. i - 1 \in T
      BY <2>4, <3>1, <3>3, <3>4
    <3>. QED
      BY <2>2, <2>4, <3>4, <3>5
  <2>. QED
    BY <2>6, <2>7
<1>9. IsFiniteSet(0 .. MemTop) /\ Cardinality(0 .. MemTop) = MemTop + 1
  <2>1. 0 \in Int /\ MemTop \in Int /\ ~(0 > MemTop) /\ MemTop - 0 + 1 = MemTop + 1
    BY <1>1
  <2>. QED
    BY <2>1, FS_Interval
<1>10. IsFiniteSet(Word) /\ Cardinality(Word) < MemTop + 1
  <2>1. /\ IsFiniteSet(2 .. MemTop)
        /\ Cardinality(2 .. MemTop) = IF 2 > MemTop THEN 0 ELSE MemTop - 2 + 1
    <3>1. 2 \in Int /\ MemTop \in Int
      BY <1>1
    <3>. QED
      BY <3>1, FS_Interval
  <2>2. Word = 2 .. MemTop
    BY <1>1 DEF Word
  <2>. QED
    BY <1>1, <2>1, <2>2
<1>11. Walk \in [0 .. MemTop -> Word]
  BY <1>1, <1>2, <1>6
<1>12. PICK x, y \in 0 .. MemTop : x # y /\ Walk[x] = Walk[y]
  BY <1>9, <1>10, <1>11, FS_PigeonHole
<1>13. x < y \/ y < x
  BY <1>1, <1>12
<1>. QED
  BY <1>8, <1>12, <1>13

LEMMA FreeIsListed ==
  ASSUME GoodList(mem, head)
  PROVE  FreeNodes = Nodes(mem, head) /\ FreeWords = Space(mem, head)
<1> DEFINE N == Nodes(mem, head)
           L == Links(mem)
<1>1. /\ MemTop \in Nat /\ NULL = 0
      /\ \A k \in 0 .. MemTop : Walk[k] = IF k = 0 THEN head ELSE Follow(Walk[k - 1])
  BY WalkDefined, Constants
<1>2. /\ N \subseteq Word /\ NULL \notin Word /\ head \in N \union {NULL}
      /\ \A n \in N : mem[n + 1] \in N \union {NULL} /\ L[n] = mem[n + 1]
  BY ListFacts, Constants
<1>3. \A k \in 0 .. MemTop : Walk[k] \in N \union {NULL}
  BY WalkInList
<1>4. FreeNodes \subseteq N
  BY <1>3 DEF FreeNodes
<1>5. FreeNodes \in SUBSET Word /\ Closed(FreeNodes, head, L)
  <2>1. head # NULL => head \in FreeNodes
    <3>1. 0 \in 0 .. MemTop /\ Walk[0] = head
      BY <1>1
    <3>. QED
      BY <3>1 DEF FreeNodes
  <2>2. ASSUME NEW n \in FreeNodes, L[n] # NULL PROVE L[n] \in FreeNodes
    <3>1. PICK k \in 0 .. MemTop : n = Walk[k]
      BY DEF FreeNodes
    <3>2. n # NULL /\ n \in N
      BY <1>4 DEF FreeNodes
    <3>3. k # MemTop
      BY <3>1, <3>2, WalkEnds
    <3>4. k + 1 \in 0 .. MemTop /\ k + 1 # 0 /\ (k + 1) - 1 = k
      BY <1>1, <3>1, <3>3
    <3>5. Walk[k + 1] = L[n]
      BY <1>1, <1>2, <3>1, <3>2, <3>4 DEF Follow
    <3>. QED
      BY <2>2, <3>4, <3>5 DEF FreeNodes
  <2>. QED
    BY <1>2, <1>4, <2>1, <2>2 DEF Closed
<1>6. N \subseteq FreeNodes
  BY <1>5, ReachLeast DEF Nodes
<1>7. FreeNodes = N
  BY <1>4, <1>6
<1>. QED
  BY <1>7 DEF FreeWords, Space, Cover, SizeOf

-----------------------------------------------------------------------------
(* What the invariant is for. *)

(* A split that leaves a remainder of one word is the only thing that can
   break the heap: whatever the sizes, the invariant holds up to the first.
   (The steps before it, with nothing after them, are a behaviour that
   satisfies []NoSliver.)  The theorems below are to be read alike. *)
THEOREM OnlySlivers == SerialSpec /\ []NoSliver => []Inv
BY Starts, Keeps, PTL DEF SerialSpec

(* No split of whole nodes leaves less than a node. *)
LEMMA NoSliverLeft == ASSUME Inv, NodeSized PROVE NoSliver
<1> SUFFICES ASSUME NEW c \in CPUs, pc[c] = "split"
             PROVE  mem[ret[c]] - (NODE + req[c]) # 1
  BY DEF NoSliver
<1> DEFINE s == mem[ret[c]]
           q == req[c]
<1>1. /\ Sound(mem, ret[c]) /\ s >= NODE + q /\ q \in Sizes
  BY DEF Inv, Holding, Calling, InAlloc
<1>2. s \in Nat /\ s % NODE = 0 /\ q \in Nat /\ q % NODE = 0 /\ NODE = 2
  BY <1>1, Constants DEF Sound, Whole, NodeSized
<1> HIDE DEF s, q
<1>3. s - (2 + q) # 1
  BY <1>2
<1>. QED
  BY <1>2, <1>3 DEF s, q

(* A heap that is asked for whole nodes only, as heap_serial's is, never
   makes such a remainder: what the theorems suppose then always holds. *)
LEMMA WholeNodes == ASSUME NodeSized PROVE SerialSpec => []NoSliver
<1>1. Inv /\ [SerialNext]_vars => Inv'
  BY NoSliverLeft, Keeps
<1>2. Inv => NoSliver
  BY NoSliverLeft
<1>. QED
  BY <1>1, <1>2, Starts, PTL DEF SerialSpec

(* No word of memory serves two purposes: free blocks, blocks of calls in
   progress and the callers' blocks with their nodes are all apart, wherever
   Allocate, Free and Reallocate of different CPUs are. *)
THEOREM Apartness == SerialSpec /\ []NoSliver => []BlocksApart
<1>1. Inv => BlocksApart
  <2> SUFFICES ASSUME Inv PROVE BlocksApart
    OBVIOUS
  <2>1. FreeNodes = Nodes(mem, head) /\ FreeWords = Space(mem, head)
    BY FreeIsListed DEF Inv
  <2>2. \A m, n \in FreeNodes :
          m # n => Extent(m, SizeOf(m)) \intersect Extent(n, SizeOf(n)) = {}
    BY <2>1 DEF Inv, GoodList, NoOverlap, SizeOf
  <2>. QED
    BY <2>1, <2>2 DEF Inv, Apart, OwnApart, BlocksApart
<1>. QED
  BY <1>1, OnlySlivers, PTL

(* The free blocks, those of calls in progress and those of the callers are
   the pages AllocatePage gave the heap: no word is lost by splitting, freeing
   or moving, and none is taken that is not the heap's. *)
THEOREM NothingLost == SerialSpec /\ []NoSliver => []Conserved
<1>1. Inv => Conserved
  BY FreeIsListed DEF Inv, Covered, Conserved
<1>. QED
  BY <1>1, OnlySlivers, PTL

(* The node before every object says how long its block is when Free or
   Reallocate come to read it. *)
THEOREM HeadersKept == SerialSpec /\ []NoSliver => []HeaderRight
<1>1. Inv => HeaderRight
  BY DEF Inv, Keeping, HeaderRight, SizeOf
<1>. QED
  BY <1>1, OnlySlivers, PTL

(* An object holds what its owner put there, also after Reallocate has moved
   it, whatever the other CPUs do with the heap meanwhile. *)
THEOREM ContentsStay == SerialSpec /\ []NoSliver => []ContentsKept
<1>1. Inv => ContentsKept
  BY DEF Inv, Keeping, ContentsKept
<1>. QED
  BY <1>1, OnlySlivers, PTL

(* The heap grows only when the search has seen every free block and none is
   large enough, and what it gets is, so that the search it starts again does
   not grow it once more, unless nothing that one growth gives could be. *)
THEOREM Growth == SerialSpec /\ []NoSliver => []GrowthNeeded
<1>1. Inv => GrowthNeeded
  <2> SUFFICES ASSUME Inv, NEW c \in CPUs, pc[c] = "publish", ret[c] = NULL
               PROVE  /\ SizeOf(node[c]) >= NODE + req[c] \/ NODE + req[c] > Expand * PageWords
                      /\ \A n \in FreeNodes : ~(SizeOf(n) >= NODE + req[c])
    BY DEF GrowthNeeded
  <2>1. /\ mem[node[c]] = Expand * PageWords
        /\ \A n \in Nodes(mem, head) : mem[n] < NODE + req[c]
        /\ req[c] \in Sizes
    BY DEF Inv, Searched, Calling, InAlloc
  <2>2. /\ FreeNodes = Nodes(mem, head) /\ \A n \in FreeNodes : mem[n] \in Nat
        /\ Expand * PageWords \in Nat /\ NODE + req[c] \in Nat
    <3>1. FreeNodes = Nodes(mem, head) /\ \A n \in FreeNodes : mem[n] \in Nat
      BY FreeIsListed, ListFacts DEF Inv, Sound
    <3>2. Expand * PageWords \in Nat
      BY Constants, Products DEF PagesWords
    <3>3. NODE + req[c] \in Nat
      <4>1. NODE \in Nat /\ req[c] \in Nat
        BY <2>1, Constants
      <4>. QED
        BY <4>1
    <3>. QED
      BY <3>1, <3>2, <3>3
  <2> DEFINE w == NODE + req[c]
             e == Expand * PageWords
  <2>. HIDE DEF w, e
  <2>4. mem[node[c]] >= w \/ w > e
    BY <2>1, <2>2 DEF w, e
  <2>5. \A n \in FreeNodes : ~(mem[n] >= w)
    BY <2>1, <2>2 DEF w
  <2>. QED
    BY <2>4, <2>5 DEF w, e, SizeOf
<1>. QED
  BY <1>1, OnlySlivers, PTL

-----------------------------------------------------------------------------
(* The heap implements the allocator its callers see. *)

(* What the callers own before a call returns is apart from its block. *)
LEMMA Lends ==
  ASSUME Inv, NEW c \in CPUs, pc[c] = "finish" \/ Moved(c),
         objects' = [objects EXCEPT ![c] =
                       @ \union {[at |-> ret[c] + NODE, size |-> req[c]]}]
  PROVE  Promise!Lend(c)
<1> DEFINE r == ret[c]
           q == req[c]
           a == r + NODE
<1>1. /\ Claimed(c) = Extent(r, NODE + q) /\ q \in Nat \ {0} /\ r \in Word /\ r \in Nat
      /\ Claimed(c) \subseteq Word /\ q \in Sizes /\ NODE = 2
  <2>1. /\ Claimed(c) = Extent(r, NODE + q) /\ q \in Nat \ {0} /\ Claimed(c) \subseteq Word
    BY Words, Pieces
  <2>2. r \in Word /\ q \in Sizes
    BY DEF Inv, Holding, Calling, InAlloc, Moved
  <2>3. r \in Nat /\ NODE = 2
    <3>. HIDE DEF r
    <3>. QED
      BY <2>2, Constants
  <2>. QED
    BY <2>1, <2>2, <2>3
<1>2. a \in Claimed(c) /\ Extent(a, q) \subseteq Claimed(c)
  <2>1. a \in Extent(r, NODE + q) /\ Extent(a, q) \subseteq Extent(r, NODE + q)
    <3>. HIDE DEF r, q
    <3>. QED
      BY <1>1 DEF Extent
  <2>. QED
    BY <1>1, <2>1
<1>3. \A d \in CPUs : Claimed(c) \intersect Owned(d) = {}
  <2>1. \A d \in CPUs : Claimed(d) \subseteq InUse(d) /\ Owned(d) \subseteq InUse(d)
    BY Pieces
  <2>. QED
    BY <2>1 DEF Inv, Apart, OwnApart
<1>4. \A d \in CPUs : \A o \in objects[d] : Extent(o.at, o.size) \subseteq Owned(d)
  BY BlockFacts DEF Owned
<1>5. Promise!Extent(a, q) \subseteq Word \ Promise!Used
  <2>1. \A x \in Promise!Used : \E d \in CPUs : x \in Owned(d)
    <3>1. SUFFICES ASSUME NEW d \in CPUs, NEW o \in objects[d],
                          NEW x \in Extent(o.at, o.size)
                   PROVE  x \in Owned(d)
      BY DEF Promise!Used, Promise!Extent, Extent
    <3>. QED
      BY <1>4
  <2>2. Promise!Extent(a, q) = Extent(a, q)
    BY DEF Promise!Extent, Extent
  <2>. HIDE DEF a, q
  <2>. QED
    BY <1>1, <1>2, <1>3, <2>1, <2>2
<1>6. a \in Word /\ q \in Sizes
  BY <1>1, <1>2
<1>7. objects' = [objects EXCEPT ![c] = @ \union {[at |-> a, size |-> q]}]
  OBVIOUS
<1>. HIDE DEF a, q
<1>. QED
  BY <1>5, <1>6, <1>7 DEF Promise!Lend

(* Each call of the heap is a step of the allocator its callers see, taken
   when it returns or, for Free, when it begins, or changes nothing for them:
   an object lies where no other does until its owner gives it back. *)
THEOREM Refinement == SerialSpec /\ []NoSliver => KeepsPromise
<1>1. Init => Promise!Init
  BY DEF Init, Promise!Init
<1>2. Inv /\ [SerialNext]_vars => [Promise!Next]_objects
  <2> SUFFICES ASSUME Inv, [SerialNext]_vars, objects' # objects
               PROVE  Promise!Next
    OBVIOUS
  <2>1. PICK c \in CPUs : AllocFinish(c) \/ FreeAcquire(c) \/ ReallocFinish(c)
    <3>1. ~(UNCHANGED vars) /\ ~InitializeHeap
      BY DEF vars, InitializeHeap
    <3>2. PICK c \in CPUs : Step(c)
      BY <3>1 DEF SerialNext, Next
    <3>3. AllocFinish(c) \/ FreeAcquire(c) \/ ReallocFinish(c)
      BY <3>2 DEF Step, AllocAcquire, FindAdvance, FindTake, FindExpand, AllocUnlink, AllocSplit,
                  AllocPublish, FreeLink, FreePublish, ReallocAcquire, ReallocCopy
    <3>. QED
      BY <3>3
  <2>2. CASE AllocFinish(c)
    <3>1. /\ pc[c] = "finish"
          /\ objects' = [objects EXCEPT ![c] =
                           @ \union {[at |-> ret[c] + NODE, size |-> req[c]]}]
      BY <2>2 DEF AllocFinish
    <3>. QED
      BY <3>1, Lends DEF Promise!Next
  <2>3. CASE ReallocFinish(c)
    <3>1. /\ Moved(c)
          /\ objects' = [objects EXCEPT ![c] =
                           @ \union {[at |-> ret[c] + NODE, size |-> req[c]]}]
      BY <2>3 DEF ReallocFinish, Moved
    <3>. QED
      BY <3>1, Lends DEF Promise!Next
  <2>4. CASE FreeAcquire(c)
    <3>1. Promise!TakeBack(c)
      BY <2>4 DEF FreeAcquire, Promise!TakeBack
    <3>. QED
      BY <3>1 DEF Promise!Next
  <2>. QED
    BY <2>1, <2>2, <2>3, <2>4
<1>. QED
  BY <1>1, <1>2, OnlySlivers, PTL DEF SerialSpec, KeepsPromise, Promise!Spec
=============================================================================
