----------------------------- MODULE MCTaskLife -----------------------------
(* Instances of TaskLife for TLC. *)
EXTENDS TaskLife, TLC

CONSTANTS o, g, m, r, f, l, b, e1, e2, e3, e4

S(op, x) == [op |-> op, on |-> x]

\* A combinator that owns the tasks own, and gets others by reference.
Combine(own, other) ==
    [i \in DOMAIN own |-> S("call", own[i])]
        \o [i \in DOMAIN own |-> S("start", own[i])] \o [i \in DOMAIN other |-> S("start", other[i])]
        \o Combinator

\* o awaits g, which is lazy, waits for e2 and forwards m; then it awaits r, which is
\* first(e3, f(), b).  f is lazy and forwards l, which has two resolution points.
\* b is the program's own, waits for e1, is lazy then, and after its first
\* resolution point triggers e3 and waits for e4.  So a co_await, a combinator and
\* start() find a lazy task at interest{}, and the last two also one before it.
RaceScript ==
    (o :> <<S("call", g), S("await", g), S("call", r), S("await", r)>>) @@
    (g :> <<S("interest", None), S("event", e2), S("call", m), S("forward", m)>>) @@
    (m :> <<S("resolve", None)>>) @@
    (r :> Combine(<<f>>, <<b>>)) @@
    (f :> <<S("interest", None), S("call", l), S("forward", l)>>) @@
    (l :> <<S("resolve", None), S("event", e1), S("resolve", None)>>) @@
    (b :> <<S("event", e1), S("interest", None), S("resolve", None), S("trigger", e3),
            S("event", e4), S("resolve", None)>>)

RaceArgs == [p \in Tasks |-> IF p = r THEN <<e3, f, b>> ELSE << >>]

RaceParent == (o :> None) @@ (g :> o) @@ (m :> g) @@ (r :> o) @@ (f :> r) @@ (l :> f) @@ (b :> None)

NoArgs == [p \in Tasks |-> << >>]

\* o awaits f, which gets lazy only after e1.
LazyScript == (o :> <<S("call", f), S("await", f)>>) @@
              (f :> <<S("event", e1), S("interest", None)>>)
LazyParent == (o :> None) @@ (f :> o)

\* o awaits r, which forwards f after e1, which forwards l, which is resolvable.
ForwardScript ==
    (o :> <<S("call", r), S("await", r)>>) @@
    (r :> <<S("event", e1), S("call", f), S("forward", f)>>) @@
    (f :> <<S("call", l), S("forward", l)>>) @@
    (l :> <<S("resolve", None)>>)
ForwardParent == (o :> None) @@ (r :> o) @@ (f :> r) @@ (l :> f)

=============================================================================
