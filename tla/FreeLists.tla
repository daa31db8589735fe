----------------------------- MODULE FreeLists -----------------------------
(***************************************************************************)
(* The singly linked, last-in first-out free list that both allocators of  *)
(* the kernel thread through the memory they manage: pmm.cpp's PageNode    *)
(* and heap.cpp's Node.  A node is the address of its block, next[a] is    *)
(* the pointer field stored at address a, and 0 is the null pointer.       *)
(*                                                                         *)
(* The nodes of a list are defined as the smallest set that holds the head *)
(* and is closed under next, which needs no recursion.                     *)
(***************************************************************************)
EXTENDS Integers

NULL == 0

(* N holds the node h points to and every node its members point to. *)
Closed(N, h, next) ==
  /\ h # NULL => h \in N
  /\ \A n \in N : next[n] # NULL => next[n] \in N

(* The nodes found from head pointer h among the addresses S. *)
Reach(S, h, next) ==
  { a \in S : \A N \in SUBSET S : Closed(N, h, next) => a \in N }

(* The list is a simple path: nothing points back at its head and no two
   nodes share a successor. *)
IsList(S, h, next) ==
  LET nodes == Reach(S, h, next) IN
  /\ h # NULL => \A n \in nodes : next[n] # h
  /\ \A m, n \in nodes : next[m] = next[n] /\ next[m] # NULL => m = n

(* The addresses a block of the given size occupies, and a set of blocks. *)
Extent(base, size) == base .. (base + size - 1)
Cover(nodes, size) == UNION { Extent(n, size[n]) : n \in nodes }

(* No two blocks share an address. *)
NoOverlap(nodes, size) ==
  \A m, n \in nodes :
    m # n => Extent(m, size[m]) \intersect Extent(n, size[n]) = {}
=============================================================================
