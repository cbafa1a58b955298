--------------------------- MODULE JavaExclusion ---------------------------
(***************************************************************************)
(* What the run lock promises the Java heap: at most one task interprets,  *)
(* and a task starts interpreting only when no task does, so that every    *)
(* change of interpreter passes through a state in which the heap is at    *)
(* rest.                                                                   *)
(***************************************************************************)
CONSTANT Tasks

VARIABLE inside     \* the tasks that interpret Java

Init == inside = {}

Enter(t) == inside = {} /\ inside' = {t}

Leave(t) == inside = {t} /\ inside' = {}

Next == \E t \in Tasks : Enter(t) \/ Leave(t)

Spec == Init /\ [][Next]_inside
=============================================================================
