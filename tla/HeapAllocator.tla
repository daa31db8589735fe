--------------------------- MODULE HeapAllocator ---------------------------
(***************************************************************************)
(* What the kernel heap promises its callers: an object lies in memory     *)
(* that no other object uses, and stays until its owner gives it back.     *)
(***************************************************************************)
EXTENDS FreeLists

CONSTANTS
  CPUs,     \* execution contexts that call the heap
  Word,     \* addresses of the heap's memory, in words
  Sizes     \* sizes the callers ask for, in words

VARIABLE objects   \* objects[c]: the objects c's callers own

Used == UNION { Extent(o.at, o.size) : o \in UNION { objects[c] : c \in CPUs } }

Init == objects = [c \in CPUs |-> {}]

Lend(c) ==
  \E a \in Word, n \in Sizes :
    /\ Extent(a, n) \subseteq Word \ Used
    /\ objects' = [objects EXCEPT ![c] = @ \union {[at |-> a, size |-> n]}]

TakeBack(c) ==
  \E o \in objects[c] : objects' = [objects EXCEPT ![c] = @ \ {o}]

Next == \E c \in CPUs : Lend(c) \/ TakeBack(c)

Spec == Init /\ [][Next]_objects
=============================================================================
