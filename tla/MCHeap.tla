------------------------------- MODULE MCHeap -------------------------------
(* The pages of the instances TLC checks, by their first words. *)
EXTENDS Heap

OnePage    == << 2 >>           \* of sixteen words
ThreePages == << 2, 8, 12 >>    \* of four words; words 6 and 7 are not the heap's
=============================================================================
