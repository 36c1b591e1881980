----------------------------- MODULE MCTimerHeap -----------------------------
(* The instance of TimerHeap for TLC. *)
EXTENDS TimerHeap

\* Four timers to begin with.
Four == {<<1, 2, 1, 2>>}

=============================================================================
