------------------------------- MODULE MCPmm -------------------------------
(* Small instances of Pmm: three usable entries of two, one and zero pages
   around a reserved one, and two or one callers. *)
EXTENDS Pmm

Entry(b, l, t) == [base |-> b, length |-> l, type |-> t]

MCMemMap == << Entry(0, 2, USABLE), Entry(2, 1, "other"),
               Entry(3, 0, USABLE), Entry(4, 2, USABLE) >>
=============================================================================
