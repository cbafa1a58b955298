--------------------------- MODULE MCMonitorStore ---------------------------
\* MonitorStore for TLC: the children are interchangeable.
EXTENDS MonitorStore, TLC

ChildSymmetry == Permutations(Children)
=============================================================================
