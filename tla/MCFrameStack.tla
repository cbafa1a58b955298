---------------------------- MODULE MCFrameStack ----------------------------
\* FrameStack for TLC: a superclass and two subclasses, one of them without an
\* initialiser of its own.
EXTENDS FrameStack
CONSTANTS A, B, C

MCSuper == (A :> None) @@ (B :> A) @@ (C :> A)
=============================================================================
