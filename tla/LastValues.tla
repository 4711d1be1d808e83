----------------------------- MODULE LastValues -----------------------------
(***************************************************************************)
(* What the two sides of a thing promise about values, without saying how: *)
(* the device emits values per name, a consumer's view of a name only      *)
(* moves forward among the values emitted (or is forgotten, all at once),  *)
(* and its subscribers are told values in the order they were emitted.     *)
(* Values may be skipped; none is invented, and none is seen too early.    *)
(***************************************************************************)
EXTENDS Naturals

CONSTANTS Names, Kinds

VARIABLES
  emitted,   \* per name, how many values have been emitted
  view,      \* per name, the serial number of the value in view; 0 for none
  told       \* per kind and name, the serial number told last; 0 for none

vars == <<emitted, view, told>>

Init ==
  /\ emitted = [n \in Names |-> 0]
  /\ view = [n \in Names |-> 0]
  /\ told = [k \in Kinds |-> [n \in Names |-> 0]]

Emit(n) ==
  /\ emitted' = [emitted EXCEPT ![n] = @ + 1]
  /\ UNCHANGED <<view, told>>

Learn(n) ==
  /\ \E i \in view[n] + 1 .. emitted[n] : view' = [view EXCEPT ![n] = i]
  /\ UNCHANGED <<emitted, told>>

Forget ==
  /\ view' = [n \in Names |-> 0]
  /\ UNCHANGED <<emitted, told>>

Tell(k, n) ==
  /\ \E i \in told[k][n] + 1 .. emitted[n] : told' = [told EXCEPT ![k][n] = i]
  /\ UNCHANGED <<emitted, view>>

Next ==
  \/ \E n \in Names : Emit(n) \/ Learn(n)
  \/ \E k \in Kinds, n \in Names : Tell(k, n)
  \/ Forget

Spec == Init /\ [][Next]_vars
=============================================================================
