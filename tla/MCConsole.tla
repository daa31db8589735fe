------------------------------ MODULE MCConsole -----------------------------
(* The texts of the instance TLC checks: `l` is a character of the format,
   `n` its newline, P(i) and N(i) those of the i-th Print of a call. *)
EXTENDS Console

l == [run |-> 0, newline |-> FALSE]
n == [run |-> 0, newline |-> TRUE]
P(i) == [run |-> i, newline |-> FALSE]
N(i) == [run |-> i, newline |-> TRUE]

MCSplash == << P(1), N(1) >>
MCTexts == { << P(1), l, P(2) >> }    \* a line without a newline
MCReport == << << P(1), n >>, << P(1), n >>, << P(1), N(2), n >> >>
=============================================================================
