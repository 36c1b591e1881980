--------------------------- MODULE MCEventQuorum ---------------------------
(* Instances of EventQuorum for TLC. *)
EXTENDS EventQuorum, TLC

CONSTANTS t1, t2, c1, c2, c3, e1, e2, e3, q1, q2

Arguments(f) == [x \in Bodies |-> IF x \in DOMAIN f THEN f[x] ELSE 0]

\* q1 = any(e1, e2)
Flat == (q1 :> Arguments(e1 :> 1 @@ e2 :> 1))
FlatNeeds == (q1 :> 1)

\* q1 = all(e1, e2), q2 = any(q1, e2, e2)
Nested == (q1 :> Arguments(e1 :> 1 @@ e2 :> 1)) @@ (q2 :> Arguments(q1 :> 1 @@ e2 :> 2))
NestedNeeds == (q1 :> 2) @@ (q2 :> 1)

\* t1 has all events, t2 only e1.
HandedOut == [t \in Threads |-> IF t = t1 THEN Events ELSE {e1}]

OnT1 == [c \in Coroutines |-> t1]

\* Two coroutines of one driver and one of the other.
Mixed == [c \in Coroutines |-> IF c = c3 THEN t2 ELSE t1]

\* Whatever x has been through, it is as in the beginning.
Untouched(x) ==
    /\ body[x] = IF x \in Quorums THEN Fresh
                 ELSE [Fresh EXCEPT !.life = "live", !.ref = Cardinality({t \in Threads : x \in Given[t]})]
    /\ \A t \in Threads : held[t][x] = IF x \in Given[t] THEN 1 ELSE 0

\* A bound: either all coroutines wait for e3, whose copies go from thread to thread, or
\* c1 waits for the quorum or its members.  A quorum and two coroutines of one driver
\* are in MCEventQuorum_stranded.
QuorumOrCoroutines ==
    /\ \A c \in Coroutines : at[c] \in {None, e3} \/ c = c1
    /\ Untouched(e3) \/ \A x \in Bodies \ {e3} : Untouched(x)

=============================================================================
