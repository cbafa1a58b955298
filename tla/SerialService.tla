---------------------------- MODULE SerialService ----------------------------
(***************************************************************************)
(* What SerialWorker::submit promises its callers (the module docs of      *)
(* executors/serial_worker.rs): a call returns after its own closure has   *)
(* run, the closure of a call runs once, and closures do not overlap.      *)
(***************************************************************************)
CONSTANT Clients
VARIABLE call   \* each client is "out", "called" or "served"

Init == call = [c \in Clients |-> "out"]

Submit(c) == call[c] = "out" /\ call' = [call EXCEPT ![c] = "called"]
Serve(c) == call[c] = "called" /\ call' = [call EXCEPT ![c] = "served"]
Return(c) == call[c] = "served" /\ call' = [call EXCEPT ![c] = "out"]

Next == \E c \in Clients : Submit(c) \/ Serve(c) \/ Return(c)

Spec == Init /\ [][Next]_call
=============================================================================
