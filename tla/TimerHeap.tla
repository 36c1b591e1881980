------------------------------ MODULE TimerHeap ------------------------------
(***************************************************************************)
(* timer_heap: the driver's timers, a heap of arity 4 in an array that      *)
(* starts at 0.  Timers of one time are ordered by a counter that wraps     *)
(* around.  An entry whose event nobody waits for is empty: it leaves when  *)
(* it gets to the top, or when emplace finds it at a random position of a   *)
(* large heap.                                                             *)
(***************************************************************************)
EXTENDS Naturals, FiniteSets, Sequences

CONSTANTS
    Times,       \* when a timer may be due
    Arity,       \* traits_type::arity
    CullSize,    \* emplace looks for empty entries from this size on; 32 in the code
    OrderMod,    \* the counter wraps at this value; 2^32 in the code
    Orders,      \* the counter's values to begin with, after earlier timers came and went
    Early,       \* the times of timers that have been set already, in this order
    MaxTimers,   \* bound on the timers that are set
    MaxEmpty,    \* bound on the empty entries in the heap
    MaxOut       \* bound on the timers out of the heap again when one is popped

ASSUME HeapAssumption ==
    /\ Times \subseteq Nat
    /\ Arity \in Nat /\ Arity > 2
    /\ CullSize \in Nat \ {0}
    /\ OrderMod \in Nat /\ OrderMod % 2 = 0 /\ MaxTimers < OrderMod \div 2
    /\ Orders \subseteq 0 .. OrderMod - 1
    /\ \A s \in Early : s \in Seq(Times) /\ Len(s) <= Arity /\ \A i \in DOMAIN s : s[1] <= s[i]

VARIABLES
    es_,         \* the array
    order_,      \* the counter
    wanted,      \* the timers whose event somebody waits for
    set,         \* history: how many timers have been set
    fired        \* history: the timers that came out for somebody who waited

vars == <<es_, order_, wanted, set, fired>>

\* The first timers, none of them before the first, stay where they are put.
Init ==
    /\ \E s \in Early, o \in Orders :
        /\ es_ = [i \in 0 .. Len(s) - 1 |->
                    [when |-> s[i + 1], order |-> (o + i + 1) % OrderMod, id |-> i + 1]]
        /\ order_ = (o + Len(s)) % OrderMod
        /\ wanted = 1 .. Len(s)
        /\ set = Len(s)
    /\ fired = {}

-----------------------------------------------------------------------------
(* The heap h as an array 0 .. size - 1. *)

Size(h) == Cardinality(DOMAIN h)
Empty(e) == e.id \notin wanted

\* Mutant: the counter is compared as a plain number.
CircularLess_Plain(a, b) == a < b

\* circular_int's order: the difference as a signed number is negative.
CircularLess(a, b) == (OrderMod + a - b) % OrderMod >= OrderMod \div 2

Less(x, y) == x.when < y.when \/ (x.when = y.when /\ CircularLess(x.order, y.order))

heap_parent(i) == i \div Arity
heap_first_child(i) == i * Arity + (IF i = 0 THEN 1 ELSE 0)
heap_last_child(h, i) == IF i * Arity + Arity < Size(h) THEN i * Arity + Arity ELSE Size(h)

Swap(h, i, j) == [h EXCEPT ![i] = h[j], ![j] = h[i]]

RECURSIVE SiftUp(_, _)
SiftUp(h, pos) ==
    LET p == heap_parent(pos)
    IN IF pos = 0 \/ ~Less(h[pos], h[p]) THEN h ELSE SiftUp(Swap(h, pos, p), p)

\* The least of pos and its children, the first of them if several are.
Smallest(h, pos) ==
    LET cands == {pos} \union (heap_first_child(pos) .. heap_last_child(h, pos) - 1)
    IN CHOOSE s \in cands :
          \A c \in cands : ~Less(h[c], h[s]) /\ (c < s => Less(h[s], h[c]))

RECURSIVE SiftDown(_, _)
SiftDown(h, pos) ==
    LET s == Smallest(h, pos)
    IN IF s = pos THEN h ELSE SiftDown(Swap(h, pos, s), s)

\* The last entry takes the place of the one at pos.
Moved(h, pos) ==
    LET n == Size(h) - 1 IN [i \in 0 .. n - 1 |-> IF i = pos THEN h[n] ELSE h[i]]

\* Mutant: the entry in the place only goes down, as after pop().
HardCull_DownOnly(h, pos) ==
    IF pos = Size(h) - 1 THEN Moved(h, pos) ELSE SiftDown(Moved(h, pos), pos)

\* hard_cull(): the entry at pos leaves.  The one in its place comes from another
\* branch of the heap and may have to go up as well as down.
HardCull(h, pos) ==
    LET g == Moved(h, pos)
    IN IF pos = Size(h) - 1 THEN g
       ELSE IF pos = 0 \/ ~Less(g[pos], g[heap_parent(pos)]) THEN SiftDown(g, pos)
       ELSE SiftUp(g, pos)

\* What the loop at the top of emplace may leave: as long as the heap is large and the
\* random position has an empty entry, that one is removed.
RECURSIVE RandomCull(_)
RandomCull(h) ==
    IF Size(h) < CullSize THEN {h}
    ELSE LET empties == {pos \in DOMAIN h : Empty(h[pos])}
         IN (IF empties = DOMAIN h THEN {} ELSE {h})
                \union UNION {RandomCull(HardCull(h, pos)) : pos \in empties}

RECURSIVE Culled(_)
Culled(h) == IF Size(h) = 0 \/ ~Empty(h[0]) THEN h ELSE Culled(HardCull(h, 0))

-----------------------------------------------------------------------------
(* The operations. *)

Appended(h, e) == [i \in 0 .. Size(h) |-> IF i = Size(h) THEN e ELSE h[i]]

\* emplace(t, e)
Emplace(t) ==
    /\ set < MaxTimers
    /\ set' = set + 1
    /\ order_' = (order_ + 1) % OrderMod
    /\ wanted' = wanted \union {set'}
    /\ \E h \in RandomCull(es_) :
          es_' = SiftUp(Appended(h, [when |-> t, order |-> order_', id |-> set']), Size(h))
    /\ UNCHANGED fired

\* pop(), of a timer that is due: its event is triggered.
Pop ==
    /\ Size(es_) # 0 /\ set - Size(es_) < MaxOut
    /\ es_' = HardCull(es_, 0)
    /\ wanted' = wanted \ {es_[0].id}
    /\ fired' = fired \union (wanted \intersect {es_[0].id})
    /\ UNCHANGED <<order_, set>>

\* Mutant: only one empty entry is removed.
Cull_Once ==
    /\ es_' = IF Size(es_) # 0 /\ Empty(es_[0]) THEN HardCull(es_, 0) ELSE es_
    /\ UNCHANGED <<order_, wanted, set, fired>>

\* cull()
Cull ==
    /\ es_' = Culled(es_)
    /\ UNCHANGED <<order_, wanted, set, fired>>

\* clear()
Clear ==
    /\ es_' = << >>
    /\ wanted' = {}
    /\ UNCHANGED <<order_, set, fired>>

\* The event of timer x is triggered by hand, or whoever waited for it is gone.  Not
\* after the last timer was set, a bound.
Leave(x) ==
    /\ set < MaxTimers
    /\ Cardinality({pos \in DOMAIN es_ : Empty(es_[pos])}) < MaxEmpty
    /\ wanted' = wanted \ {x}
    /\ UNCHANGED <<es_, order_, set, fired>>

Next ==
    \/ \E t \in Times : Emplace(t)
    \/ Pop \/ Cull \/ Clear
    \/ \E x \in wanted : Leave(x)

Spec == Init /\ [][Next]_vars

-----------------------------------------------------------------------------
(* Correctness. *)

\* Every variable keeps its type.
TypeOK ==
    /\ es_ \in [0 .. Size(es_) - 1 -> [when : Times, order : 0 .. OrderMod - 1, id : 1 .. MaxTimers]]
    /\ order_ \in 0 .. OrderMod - 1
    /\ wanted \subseteq 1 .. set
    /\ set \in 0 .. MaxTimers
    /\ fired \subseteq 1 .. set

Live == {i \in DOMAIN es_ : ~Empty(es_[i])}

\* driver::loop takes its timeout, and the time virtual time jumps to, from the top
\* after cull(): that is the earliest time anybody waits for.
CullFinds ==
    [][Cull => IF wanted = {} THEN Size(es_') = 0
               ELSE /\ es_'[0].id \in wanted
                    /\ \A i \in Live : es_'[0].when <= es_[i].when]_vars

Queue == INSTANCE TimerQueue WITH
    timers <- {[when |-> es_[i].when, id |-> es_[i].id] : i \in Live},
    next <- set + 1

\* Timers come out by time and, at one time, in the order they were set, although the
\* counter wraps: the heap implements TimerQueue.
RefinesTimerQueue == Queue!QueueSpec

=============================================================================
