----------------------------- MODULE MCKeyboard -----------------------------
(* The machines TLC checks: one with each kind of reset register; where it is
   in memory there are no modules, or, for the run that is to fail, there is
   one of a page. *)
EXTENDS Keyboard

Machine(r, n) == [resetReg |-> r, pages |-> n]

MCMachines == { Machine("io", 2), Machine("pci", 1), Machine("none", 1), Machine("mmio", 0) }
MMIOModule == { Machine("mmio", 1) }
=============================================================================
