-------------------------- MODULE MCThreadRegistry --------------------------
\* ThreadRegistry for TLC: children and Thread objects are interchangeable.
EXTENDS ThreadRegistry, TLC

Symmetry == Permutations(Children) \cup Permutations(Objs)
=============================================================================
