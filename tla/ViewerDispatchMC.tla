---------------------------- MODULE ViewerDispatchMC ----------------------------
(* ViewerDispatch for TLC: one viewer with one request more than the other. *)
EXTENDS ViewerDispatch

CONSTANTS i1, i2, i3, v1, v2

Owner == [i \in {i1, i2, i3} |-> IF i = i3 THEN v2 ELSE v1]

==============================================================================
