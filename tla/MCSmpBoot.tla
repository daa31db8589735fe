----------------------------- MODULE MCSmpBoot -----------------------------
(* Small instances of SmpBoot: the number of cores and the boot processor's
   place in the list come from the configuration. *)
EXTENDS SmpBoot
=============================================================================
