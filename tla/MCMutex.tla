------------------------------ MODULE MCMutex ------------------------------
(* Instances of Mutex for TLC: three coroutines on one driver or on three. *)
EXTENDS Mutex

CONSTANTS c1, c2, c3

OneThread == [c \in Coroutines |-> c1]
OwnThreads == [c \in Coroutines |-> c]

=============================================================================
