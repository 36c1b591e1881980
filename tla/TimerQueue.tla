----------------------------- MODULE TimerQueue -----------------------------
(***************************************************************************)
(* What the driver needs of its timers: timers come out by time, those of  *)
(* one time in the order they were set, and one whose event nobody waits   *)
(* for any more may silently leave.                                        *)
(***************************************************************************)
EXTENDS Naturals

CONSTANT Times

VARIABLES
    timers,      \* the timers somebody waits for: [when, id], id in the order of setting
    next,        \* the id of the next timer
    fired        \* the timers that came out

\* Every variable keeps its type.
QueueTypeOK == timers \in SUBSET [when : Times, id : Nat] /\ next \in Nat /\ fired \in SUBSET Nat

Before(x, y) == x.when < y.when \/ (x.when = y.when /\ x.id < y.id)

QueueInit == QueueTypeOK /\ fired = {} /\ \A x \in timers : x.id < next

Set(t) ==
    /\ timers' = timers \union {[when |-> t, id |-> next]}
    /\ next' = next + 1
    /\ UNCHANGED fired

\* The first timer comes out.
TakeFirst ==
    \E x \in timers :
        /\ \A y \in timers \ {x} : Before(x, y)
        /\ timers' = timers \ {x}
        /\ fired' = fired \union {x.id}
        /\ UNCHANGED next

\* Nobody waits for x any more.
Abandon(x) ==
    /\ timers' = timers \ {x}
    /\ UNCHANGED <<next, fired>>

AbandonAll == timers' = {} /\ UNCHANGED <<next, fired>>

QueueNext ==
    \/ \E t \in Times : Set(t)
    \/ TakeFirst
    \/ \E x \in timers : Abandon(x)
    \/ AbandonAll

QueueSpec == QueueInit /\ [][QueueNext]_<<timers, next, fired>>

=============================================================================
