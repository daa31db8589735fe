----------------------------- MODULE KernelLog ------------------------------
(***************************************************************************)
(* What the kernel log promises the code that calls it: the text of a call *)
(* appears in one piece, once, between the moment the call is made and the *)
(* moment it returns.                                                      *)
(***************************************************************************)
EXTENDS Naturals, Sequences

CONSTANT Cores   \* the cores that log

VARIABLES
  active,   \* the number of the call a core is in, 0 outside one
  done,     \* the number of calls each core has made before
  lines     \* the calls whose text is out, oldest first: << core, number >>

vars == << active, done, lines >>

Init ==
  /\ active = [c \in Cores |-> 0]
  /\ done = [c \in Cores |-> 0]
  /\ lines = << >>

Out(c) == \E i \in DOMAIN lines : lines[i] = << c, active[c] >>

Call(c) ==
  /\ active[c] = 0
  /\ active' = [active EXCEPT ![c] = done[c] + 1]
  /\ UNCHANGED << done, lines >>

Write(c) ==
  /\ active[c] # 0
  /\ ~Out(c)
  /\ lines' = Append(lines, << c, active[c] >>)
  /\ UNCHANGED << active, done >>

Return(c) ==
  /\ active[c] # 0
  /\ Out(c)
  /\ active' = [active EXCEPT ![c] = 0]
  /\ done' = [done EXCEPT ![c] = active[c]]
  /\ UNCHANGED lines

Next == \E c \in Cores : Call(c) \/ Write(c) \/ Return(c)

Spec == Init /\ [][Next]_vars
=============================================================================
