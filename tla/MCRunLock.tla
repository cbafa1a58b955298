----------------------------- MODULE MCRunLock -----------------------------
\* RunLock for TLC.  No symmetry: one run checks safety and liveness.
EXTENDS RunLock
=============================================================================
