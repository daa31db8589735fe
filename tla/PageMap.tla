------------------------------ MODULE PageMap ------------------------------
(***************************************************************************)
(* What the virtual memory manager promises: one flat map from virtual to  *)
(* physical pages, in which a call changes the page it names, or every     *)
(* page of the large page it names, and no other.                          *)
(***************************************************************************)
EXTENDS Integers

CONSTANTS
  N,      \* entries of a page table
  Calls   \* the calls its callers make: [virt, phys, large]

NONE == -1   \* not mapped
Virt == 0 .. N * N * N * N - 1

VARIABLE map

(* A large page is as many pages as a table has entries. *)
Covers(call, v) == IF call.large THEN v \div N = call.virt \div N ELSE v = call.virt
Target(call, v) == IF call.large THEN call.phys + (v % N) ELSE call.phys

Init == map = [v \in Virt |-> NONE]

Map(call) ==
  map' = [v \in Virt |-> IF Covers(call, v) THEN Target(call, v) ELSE map[v]]

Next == \E call \in Calls : Map(call)

Spec == Init /\ [][Next]_map
=============================================================================
