------------------------------- MODULE MCVmm -------------------------------
(* Tables of two entries: sixteen virtual pages, the upper eight of them the
   direct map and the kernel's image. *)
EXTENDS Vmm

MCMemMap == << [base |-> 0, length |-> 2, type |-> "other"],
               [base |-> 2, length |-> 1, type |-> KERNEL] >>

MCFrames == [i \in 1 .. 11 |-> 20 + i]

Small(v, p) == [virt |-> v, phys |-> p, large |-> FALSE]
Large(v, p) == [virt |-> v, phys |-> p, large |-> TRUE]

(* Start-up maps devices and the kernel's module into the direct map; the
   keyboard's handler maps the reset register where it is, and a large page
   stands beside it. *)
MCCallsOf == [c \in Contexts |->
  IF c = Main THEN { Small(10, 2), Small(12, 4) }
              ELSE { Small(5, 5), Large(2, 2) }]
=============================================================================
