--------------------------- MODULE MCMainExecutor ---------------------------
(* MainExecutor for TLC: two futures, which between them are of every kind; *)
(* any others are one-shot.                                                 *)
EXTENDS MainExecutor, TLC

CONSTANTS f1, f2
MCKindsOf == (f1 :> {"OneShot", "FixedRate"}) @@ (f2 :> {"FixedDelay"})
             @@ [f \in Futures |-> {"OneShot"}]
=============================================================================
