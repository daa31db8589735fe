------------------------------ MODULE PmTimer ------------------------------
(***************************************************************************)
(* PMTMRSleep of kernel/src/hal/acpi.cpp, the only clock of start-up: the  *)
(* APIC timer is calibrated by it.  It polls the ACPI timer, a counter of  *)
(* 24 or 32 bits that wraps around, and goes by the low 24 bits of the     *)
(* difference; how much time passes between two polls is not in its hands. *)
(***************************************************************************)
EXTENDS Integers

CONSTANTS
  Mask,      \* 2^24: the mask of the difference is one less
  SizeT,     \* 2^64: the difference is a size_t
  Wraps,     \* 2^24 and 2^32: where the counters of the two lengths wrap
  Targets,   \* the ticks to sleep for
  MaxDelay   \* the ticks that may pass between two polls

(* What the calls have in common: they are polled often enough. *)
PmTimerOK ==
  /\ Mask \in Nat \ {0} /\ SizeT \in Nat \ {0} /\ SizeT % Mask = 0
  /\ Wraps \subseteq { w \in 1 .. SizeT : w % Mask = 0 }
  /\ Targets \subseteq Nat
  /\ MaxDelay \in Nat \ {0}
  /\ \A t \in Targets : t + MaxDelay <= Mask

VARIABLES
  wrap, target,   \* the machine's counter, and the argument in ticks
  timer,          \* the counter
  passed,         \* ticks since PMTMRSleep read it first
  count,          \* that reading
  current,        \* the difference found by the last poll
  pc              \* where PMTMRSleep is

vars == << wrap, target, timer, passed, count, current, pc >>

Init ==
  /\ wrap \in Wraps
  /\ target \in Targets
  /\ timer \in 0 .. wrap - 1
  /\ passed = 0 /\ count = 0 /\ current = 0
  /\ pc = "start"

(* The firmware has no timer that may be used. *)
Unavailable ==
  /\ pc = "start"
  /\ pc' = "failed"
  /\ UNCHANGED << wrap, target, timer, passed, count, current >>

ReadCount ==
  /\ pc = "start"
  /\ count' = timer
  /\ pc' = "poll"
  /\ UNCHANGED << wrap, target, timer, passed, current >>

(* Mutant: the difference is not masked. *)
Difference_Unmasked(reading) == (reading - count) % SizeT

Difference(reading) == ((reading - count) % SizeT) % Mask

(* One turn of the loop, some ticks after the one before. *)
Poll ==
  /\ pc = "poll"
  /\ current < target
  /\ \E d \in 1 .. MaxDelay :
        /\ passed' = passed + d
        /\ timer' = (timer + d) % wrap
  /\ current' = Difference(timer')
  /\ UNCHANGED << wrap, target, count, pc >>

Return ==
  /\ pc = "poll"
  /\ current >= target
  /\ pc' = "done"
  /\ UNCHANGED << wrap, target, timer, passed, count, current >>
=============================================================================
