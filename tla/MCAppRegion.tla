---------------------------- MODULE MCAppRegion ----------------------------
(* AppRegion for TLC. *)
EXTENDS AppRegion, TLC

Symmetry == Permutations(Pkgs)

\* A board of two apps, the same with a system app, which a reflash may bake
\* in again, and one of a single app, whose link is lossy.
AllBoards == {[apps |-> 2, lossy |-> FALSE, system |-> {}, losses |-> 1],
              [apps |-> 1, lossy |-> TRUE, system |-> {}, losses |-> 2]}
             \cup {[apps |-> 2, lossy |-> FALSE, system |-> {p}, losses |-> 1] : p \in Pkgs}

SteadyBoards == {[apps |-> 2, lossy |-> FALSE, system |-> {}, losses |-> 0]}
=============================================================================
