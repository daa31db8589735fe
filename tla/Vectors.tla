------------------------------ MODULE Vectors -------------------------------
(***************************************************************************)
(* Lib::Vector of kernel/include/libs/kernel.hpp: an array on the heap,    *)
(* whose length is the capacity, and the number of elements in use.  What  *)
(* new memory holds is not known: Garbage.                                 *)
(***************************************************************************)
EXTENDS Naturals, Sequences

Garbage == "garbage"

NewVector == [array |-> << Garbage >>, count |-> 0]

(* Reallocate keeps the old elements and doubles the capacity. *)
Grown(v) == [v EXCEPT !.array = @ \o [i \in 1 .. Len(@) |-> Garbage]]

PushBack(v, x) ==
  LET room == IF Len(v.array) = v.count THEN Grown(v) ELSE v
  IN [array |-> [room.array EXCEPT ![v.count + 1] = x], count |-> v.count + 1]

(* at() panics beyond the capacity, not beyond the elements. *)
InBounds(v, index) == index < Len(v.array)
At(v, index) == v.array[index + 1]

(* size() returns 16 bits. *)
Size(v) == v.count % 65536
=============================================================================
