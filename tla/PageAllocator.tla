--------------------------- MODULE PageAllocator ---------------------------
(***************************************************************************)
(* What the physical memory manager promises its callers: a frame is lent  *)
(* to one CPU at a time, and comes back only from the CPU that holds it.   *)
(***************************************************************************)
CONSTANTS
  CPUs,     \* execution contexts that call the allocator
  Frames    \* physical frames of usable memory

VARIABLE held   \* held[c]: the frames lent to c

Lent == UNION { held[c] : c \in CPUs }

Init == held = [c \in CPUs |-> {}]

Lend(c) ==
  \E f \in Frames \ Lent : held' = [held EXCEPT ![c] = @ \union {f}]

TakeBack(c) ==
  \E f \in held[c] : held' = [held EXCEPT ![c] = @ \ {f}]

Next == \E c \in CPUs : Lend(c) \/ TakeBack(c)

Spec == Init /\ [][Next]_held
=============================================================================
