---------------------------- MODULE MCObjectHeap ----------------------------
EXTENDS ObjectHeap

\* A span of one field, none of them written yet.
MCShapes == {<<1, 0>>}

\* What of a state can still matter: no live object reads a field that no span covers, and
\* what a collection that gives up has marked is dropped.
Relevant == <<objects, [p \in Arena |-> IF Covered(p) THEN fields_arena[p] ELSE Null], arena_len,
              first_free, sides, frames, natives, phase, work,
              IF exhausted THEN {} ELSE marks, exhausted, write_pos, slice, after>>
=============================================================================
