----------------------------- MODULE MCFdClose -----------------------------
(* Instances of FdClose for TLC: one number, so that it is reused. *)
EXTENDS FdClose

CONSTANTS d1, d2, b1, b2, k1, w1, w2

\* Threads, bodies and events are interchangeable.
Symmetry == Permutations(Drivers) \union Permutations(Bodies) \union Permutations(Watches)

=============================================================================
