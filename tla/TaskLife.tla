------------------------------ MODULE TaskLife ------------------------------
(***************************************************************************)
(* Tasks: calling, awaiting, lazy starting, resolution points, forwarding, *)
(* detaching and destroying them, and the combinators attempt, first and   *)
(* race.                                                                   *)
(*                                                                         *)
(* A coroutine that reaches resolve{} stops there unless somebody actively *)
(* awaits it; a race, or t.resolve(), moves it on.  forward(t) passes the  *)
(* resolution points of t to the coroutine that awaits it.  All of this    *)
(* happens on one driver's thread.  stack is its C++ stack, innermost      *)
(* first: coroutines that run, and calls of resolve() that drive them.     *)
(* The driver resumes a coroutine that waits for a triggered event when    *)
(* the stack is empty (DriverLoop and EventQuorum have the way there).     *)
(*                                                                         *)
(* A coroutine's body is a sequence of statements, Script[p].  A           *)
(* combinator ends in resolve, find, quorum, which it repeats until one of *)
(* its arguments has resolved.                                             *)
(***************************************************************************)
EXTENDS Naturals, Sequences, FiniteSets

CONSTANTS
    Tasks,       \* the coroutines
    Events,      \* the events they wait for
    Script,      \* what each coroutine does
    Args,        \* the arguments of a combinator: tasks and events, in order
    Parent,      \* the coroutine whose frame owns the task object; None: the program
    None

ASSUME TaskAssumption ==
    /\ IsFiniteSet(Tasks)
    /\ Parent \in [Tasks -> Tasks \union {None}]
    /\ Args \in [Tasks -> Seq(Tasks \union Events)]
    /\ Script \in [Tasks -> Seq([op : {"call", "start", "event", "trigger", "interest", "resolve",
                                       "await", "forward", "find", "quorum"},
                                 on : Tasks \union Events \union {None}])]

VARIABLES
    prom,        \* the coroutines' frames: task_promise_base and race_params
    trig,        \* the events that have triggered
    stack,       \* the C++ stack, innermost first
    used         \* history: the tasks whose result somebody took

vars == <<prom, trig, stack, used>>

\* awaiter_: nobody, a coroutine, or the quorum of a combinator.
Nobody == [kind |-> "nobody", who |-> None]
Awaiters == [kind : {"nobody", "coroutine", "quorum"}, who : Tasks \union {None}]

\* A handle to an event: null, or not yet triggered, or triggered.
Handles == {"null", "pending", "triggered"}

\* Every variable keeps its type.
TypeOK ==
    /\ prom \in [Tasks ->
          [life : {"new", "live", "done", "gone"}, at : Nat, idx : Nat,
           detached_ : BOOLEAN, has_interest_ : BOOLEAN, resolving_ : BOOLEAN,
           in_resolve_ : BOOLEAN, resolution_ : Handles, interest_ : Handles,
           awaiter_ : Awaiters, forward_ : Tasks \union {None},
           awaited : BOOLEAN, quorum : Handles]]
    /\ trig \in SUBSET Events
    /\ stack \in Seq([call : {"run", "resolve", "forward", "drive"}, on : Tasks])
    /\ used \in SUBSET Tasks

Fresh ==
    [life |-> "new", at |-> 1, idx |-> 1, detached_ |-> FALSE, has_interest_ |-> FALSE,
     resolving_ |-> FALSE, in_resolve_ |-> FALSE,
     resolution_ |-> "null", interest_ |-> "null", awaiter_ |-> Nobody,
     forward_ |-> None, awaited |-> FALSE, quorum |-> "null"]

Init ==
    /\ prom = [p \in Tasks |-> Fresh]
    /\ trig = {}
    /\ stack = << >>
    /\ used = {}

-----------------------------------------------------------------------------
(* Operators on the frames P. *)

Exists(P, p) == P[p].life \in {"live", "done"}
Done(P, p) == P[p].life = "done"
Fire(h) == IF h = "pending" THEN "triggered" ELSE h

\* p, and what Up leads to from there.
Closure(p, Up(_)) ==
    LET reach[n \in Nat] ==
            IF n = 0 THEN {p}
            ELSE LET nearer == reach[n - 1] IN nearer \union UNION {Up(y) : y \in nearer}
    IN reach[Cardinality(Tasks)]

\* The awaiting coroutine, if any; and, if it forwards, the way up to the next.
Awaiter(P, p) == IF P[p].awaiter_.kind = "coroutine" THEN {P[p].awaiter_.who} ELSE {}
Chain(P, p) == LET Up(x) == {a \in Awaiter(P, x) : P[a].forward_ # None} IN Closure(p, Up)

\* active_awaiter(): a coroutine that does not only forward.
Active(P, p) == \E x \in Chain(P, p) : \E a \in Awaiter(P, x) : P[a].forward_ = None

\* Mutant: the coroutine that forwards is not told.
ResolutionPoint_Local(P, p) ==
    [P EXCEPT ![p].resolving_ = TRUE, ![p].resolution_ = Fire(@)]

\* resolution_point(): up the chain, and to the quorum at its end.
ResolutionPoint(P, p) ==
    LET up == Chain(P, p)
        quorums == {P[x].awaiter_.who : x \in {y \in up : P[y].awaiter_.kind = "quorum"}}
    IN [x \in Tasks |->
          [P[x] EXCEPT !.resolving_ = @ \/ x \in up,
                       !.resolution_ = IF x \in up THEN Fire(@) ELSE @,
                       !.quorum = IF x \in quorums THEN Fire(@) ELSE @]]

\* Mutant: the arguments keep pointing to the quorum.
ClearAwaiters_None(P, rs) == P

\* clear_awaiter_s for the arguments of the combinators rs.
ClearAwaiters(P, rs) ==
    [x \in Tasks |->
        IF Exists(P, x) /\ \E r \in rs : \E i \in DOMAIN Args[r] : Args[r][i] = x
        THEN [P[x] EXCEPT !.awaiter_ = Nobody] ELSE P[x]]

\* The frames D are destroyed; ~race_params lets go of arguments still awaited.
Destroyed(P, D) ==
    LET Q == ClearAwaiters(P, {d \in D : P[d].awaited})
    IN [x \in Tasks |-> IF x \in D THEN [Fresh EXCEPT !.life = "gone"] ELSE Q[x]]

\* p and the tasks that its frame owns.
Family ==
    LET Up(y) == {Parent[y]} \ {None}
    IN [p \in Tasks |-> {x \in Tasks : p \in Closure(x, Up)}]

\* Mutant: a combinator's arguments are not started.
Started_Not(P, t) == P

\* task::start()
Started(P, t) ==
    IF P[t].life # "live" THEN P
    ELSE IF P[t].interest_ # "null" THEN [P EXCEPT ![t].interest_ = "triggered"]
    ELSE [P EXCEPT ![t].has_interest_ = TRUE]

\* task_awaiter::await_resume: clear_awaiter() of the awaitee.
Unlinked(P, t) ==
    [x \in Tasks |->
        IF x \in Awaiter(P, t) /\ P[x].forward_ # None
        THEN [P[x] EXCEPT !.forward_ = None, !.resolving_ = FALSE, !.resolution_ = "null"]
        ELSE P[x]]

\* The body of attempt, first and race after it started its arguments.
Combinator == [i \in 1 .. 3 |-> [op |-> <<"resolve", "find", "quorum">>[i], on |-> None]]

Statement(P, p) == Script[p][P[p].at]
NextStatement(P, p) == [P EXCEPT ![p].at = @ + 1]

\* p goes on after its co_await; a combinator repeats its loop.
Resumed(P, p) ==
    LET s == Statement(P, p)
    IN CASE s.op \in {"await", "forward"} -> NextStatement(Unlinked(P, s.on), p)
         [] s.op = "quorum" -> [ClearAwaiters(P, {p}) EXCEPT
                                   ![p].awaited = FALSE, ![p].quorum = "null", ![p].at = @ - 2]
         [] OTHER -> NextStatement(P, p)

\* What p takes over when it goes on.
Taken(P, p) == IF Statement(P, p).op \in {"await", "forward"} THEN {Statement(P, p).on} ELSE {}

-----------------------------------------------------------------------------
(* A coroutine runs. *)

Frame(c, p) == [call |-> c, on |-> p]
Top(c, p) == stack # << >> /\ Head(stack) = Frame(c, p)
Replace(new) == stack' = new \o Tail(stack)
Suspend == Replace(<< >>)

\* Coroutine p is at a statement op.
At(p, op) == Top("run", p) /\ prom[p].at <= Len(Script[p]) /\ Statement(prom, p).op = op
On(p) == Statement(prom, p).on

\* A task is called and runs until it suspends.
CallTask(p) ==
    /\ At(p, "call")
    /\ prom' = [NextStatement(prom, p) EXCEPT ![On(p)].life = "live"]
    /\ stack' = <<Frame("run", On(p))>> \o stack
    /\ UNCHANGED <<trig, used>>

\* A combinator starts its arguments; the program's code triggers an event.
Act(p) ==
    /\ \/ At(p, "start") /\ prom' = NextStatement(Started(prom, On(p)), p) /\ UNCHANGED trig
       \/ At(p, "trigger") /\ prom' = NextStatement(prom, p) /\ trig' = trig \union {On(p)}
    /\ UNCHANGED <<stack, used>>

\* co_await e
AwaitEvent(p) ==
    /\ At(p, "event")
    /\ \/ On(p) \in trig /\ prom' = NextStatement(prom, p) /\ UNCHANGED stack
       \/ On(p) \notin trig /\ Suspend /\ UNCHANGED prom
    /\ UNCHANGED <<trig, used>>

\* co_await interest{}: a null handle counts as triggered.
AwaitInterest(p) ==
    /\ At(p, "interest")
    /\ \/ /\ ~prom[p].has_interest_
          /\ prom' = [prom EXCEPT ![p].has_interest_ = TRUE, ![p].interest_ = "pending"]
          /\ Suspend
       \/ /\ prom[p].has_interest_
          /\ prom' = NextStatement(prom, p)
          /\ UNCHANGED stack
    /\ UNCHANGED <<trig, used>>

\* Mutant: a resolution point stops nobody.
AwaitResolve_Never(p) ==
    /\ At(p, "resolve")
    /\ prom' = NextStatement(prom, p)
    /\ UNCHANGED <<stack, trig, used>>

\* co_await resolve{}
AwaitResolve(p) ==
    /\ At(p, "resolve")
    /\ \/ Active(prom, p) /\ prom' = NextStatement(prom, p) /\ UNCHANGED stack
       \/ /\ ~Active(prom, p)
          /\ LET P == ResolutionPoint(prom, p)
             IN prom' = IF prom[p].detached_ THEN Destroyed(P, Family[p]) ELSE P
          /\ Suspend
    /\ UNCHANGED <<trig, used>>

\* p does not just co_await t but co_await forward(t).
Forwards(p) == Statement(prom, p).op = "forward"

\* task_awaiter::await_ready: a task that is done, or that resolve() completes, is not
\* waited for.  resolve() leaves a forwarded task at its resolution point alone.
AwaitReady(p) ==
    /\ At(p, "await") \/ At(p, "forward")
    /\ LET t == On(p)
       IN \/ /\ Done(prom, t)
             /\ prom' = Resumed(prom, p)
             /\ used' = used \union {t}
             /\ UNCHANGED stack
          \/ /\ ~Done(prom, t) /\ prom[t].resolving_ /\ ~Forwards(p)
             /\ stack' = <<Frame("resolve", t)>> \o stack
             /\ UNCHANGED <<prom, used>>
    /\ UNCHANGED trig

\* p awaits t, which learns of the interest; forward(t) links p to t.
Linked(p, t) ==
    [prom EXCEPT ![t].interest_ = Fire(@),
                 ![t].awaiter_ = [kind |-> "coroutine", who |-> p],
                 ![p].forward_ = IF Forwards(p) THEN t ELSE @]

\* prepare_awaiter: p suspends.  A forwarded task at a resolution point runs on if p
\* is awaited actively, else it passes the point on.
AwaitTask(p) ==
    /\ At(p, "await") \/ At(p, "forward")
    /\ LET t == On(p)
           P == Linked(p, t)
       IN /\ ~Done(prom, t)
          /\ \/ /\ ~prom[t].resolving_
                /\ prom' = P
                /\ Suspend
                /\ UNCHANGED used
             \/ /\ prom[t].resolving_ /\ Forwards(p) /\ Active(P, t)
                /\ prom' = Resumed([P EXCEPT ![t].resolving_ = FALSE, ![t].resolution_ = "null"], t)
                /\ used' = used \union Taken(P, t)
                /\ Replace(<<Frame("run", t)>>)
             \/ /\ prom[t].resolving_ /\ Forwards(p) /\ ~Active(P, t)
                /\ prom' = ResolutionPoint(P, p)
                /\ Suspend
                /\ UNCHANGED used
    /\ UNCHANGED trig

\* p returns, with the result of the arguments won.  Its locals go, then
\* task_final_awaiter: the awaiter goes on, unless resolve() drives p; a detached
\* task is destroyed.
Final(p, won) ==
    LET P1 == [Destroyed(prom, Family[p] \ {p}) EXCEPT ![p].life = "done"]
        P == ResolutionPoint(P1, p)
    IN \/ \E a \in Awaiter(P, p) :
          /\ ~P[p].in_resolve_
          /\ prom' = Resumed(P, a)
          /\ used' = used \union won \union {p}
          /\ Replace(<<Frame("run", a)>>)
       \/ /\ Awaiter(P, p) = {} \/ P[p].in_resolve_
          /\ prom' = IF P[p].detached_ THEN Destroyed(P, {p}) ELSE P
          /\ Suspend
          /\ used' = used \union won

Return(p) ==
    /\ Top("run", p) /\ prom[p].at > Len(Script[p])
    /\ Final(p, {})
    /\ UNCHANGED trig

\* Can resolve() do anything for t?
Resolvable(P, t) == P[t].life = "live" /\ P[t].resolving_

\* find_resolved, one argument: the first that has resolved is the result.
Find(p) ==
    /\ At(p, "find")
    /\ LET i == prom[p].idx
           x == Args[p][i]
       IN \/ /\ i > Len(Args[p])
             /\ prom' = [NextStatement(prom, p) EXCEPT ![p].idx = 1]
             /\ UNCHANGED <<stack, used>>
          \/ /\ i <= Len(Args[p]) /\ x \in trig
             /\ Final(p, {})
          \/ /\ i <= Len(Args[p]) /\ x \in Tasks /\ Done(prom, x)
             /\ Final(p, {x})
          \/ /\ i <= Len(Args[p]) /\ x \in Tasks /\ Resolvable(prom, x)
             /\ stack' = <<Frame("resolve", x)>> \o stack
             /\ UNCHANGED <<prom, used>>
          \/ /\ i <= Len(Args[p]) /\ x \notin trig
             /\ x \in Tasks => ~Done(prom, x) /\ ~Resolvable(prom, x)
             /\ prom' = [prom EXCEPT ![p].idx = @ + 1]
             /\ UNCHANGED <<stack, used>>
    /\ UNCHANGED trig

\* make_event(): the arguments point to the quorum, which has triggered if an event has.
MakeEvent(p) ==
    /\ At(p, "quorum")
    /\ LET args == {Args[p][i] : i \in DOMAIN Args[p]}
           P == [x \in Tasks |-> IF x \in args /\ Exists(prom, x)
                                 THEN [prom[x] EXCEPT !.awaiter_ = [kind |-> "quorum", who |-> p]]
                                 ELSE prom[x]]
       IN \/ /\ args \intersect trig = {}
             /\ prom' = [P EXCEPT ![p].awaited = TRUE, ![p].quorum = "pending"]
             /\ Suspend
          \/ /\ args \intersect trig # {}
             /\ prom' = Resumed(P, p)
             /\ UNCHANGED stack
    /\ UNCHANGED <<trig, used>>

Run(p) ==
    \/ CallTask(p) \/ Act(p) \/ AwaitEvent(p) \/ AwaitInterest(p) \/ AwaitResolve(p)
    \/ AwaitReady(p) \/ AwaitTask(p) \/ Return(p) \/ Find(p) \/ MakeEvent(p)

-----------------------------------------------------------------------------
(* task_promise_base::resolve() *)

\* Coroutine p is resumed by resolve().
DriveOn(p, P) ==
    /\ prom' = Resumed([P EXCEPT ![p].in_resolve_ = TRUE], p)
    /\ used' = used \union Taken(P, p)
    /\ Replace(<<Frame("run", p), Frame("drive", p)>>)

\* The top of resolve()'s loop: past the resolution point, by way of the forwarded
\* task if there is one.  The program takes the result of its own call.
Resolve(p) ==
    /\ Top("resolve", p)
    /\ \/ /\ ~Resolvable(prom, p)
          /\ used' = IF Done(prom, p) /\ Len(stack) = 1 THEN used \union {p} ELSE used
          /\ Suspend
          /\ UNCHANGED prom
       \/ /\ Resolvable(prom, p)
          /\ LET P == [prom EXCEPT ![p].resolving_ = FALSE, ![p].resolution_ = "null"]
             IN \/ prom[p].forward_ = None /\ DriveOn(p, P)
                \/ /\ prom[p].forward_ # None
                   /\ prom' = P
                   /\ Replace(<<Frame("resolve", prom[p].forward_), Frame("forward", p)>>)
                   /\ UNCHANGED used
    /\ UNCHANGED trig

\* Mutant: p goes on although the forwarded task is not done.
Forwarded_Always(p) ==
    /\ Top("forward", p)
    /\ DriveOn(p, prom)
    /\ UNCHANGED trig

\* The forwarded task has been resolved, or has not.
Forwarded(p) ==
    /\ Top("forward", p)
    /\ \/ Done(prom, prom[p].forward_) /\ DriveOn(p, prom)
       \/ /\ ~Done(prom, prom[p].forward_)
          /\ Replace(<<Frame("resolve", p)>>)
          /\ UNCHANGED <<prom, used>>
    /\ UNCHANGED trig

\* The coroutine has suspended or returned.
Driven(p) ==
    /\ Top("drive", p)
    /\ prom' = [prom EXCEPT ![p].in_resolve_ = FALSE]
    /\ Replace(<<Frame("resolve", p)>>)
    /\ UNCHANGED <<trig, used>>

-----------------------------------------------------------------------------
(* The driver and the program. *)

Quiet == stack = << >>

\* What a suspended coroutine waits for has triggered.
Ready(p) ==
    /\ prom[p].life = "live"
    /\ LET s == Statement(prom, p)
       IN \/ s.op = "event" /\ s.on \in trig
          \/ s.op = "interest" /\ prom[p].interest_ = "triggered"
          \/ s.op = "quorum" /\ prom[p].quorum = "triggered"

Wake(p) ==
    /\ Quiet /\ Ready(p)
    /\ prom' = Resumed(prom, p)
    /\ stack' = <<Frame("run", p)>>
    /\ UNCHANGED <<trig, used>>

Trigger(e) ==
    /\ Quiet /\ e \notin trig
    /\ trig' = trig \union {e}
    /\ UNCHANGED <<prom, stack, used>>

\* r has p as an argument that it does not own.
Borrows(r, p) == Parent[p] # r /\ \E i \in DOMAIN Args[r] : Args[r][i] = p

\* The program calls a coroutine, after those it passes by reference.
CallRoot(p) ==
    /\ Quiet /\ Parent[p] = None /\ prom[p].life = "new"
    /\ \A r \in Family[p], q \in Tasks : Borrows(r, q) => prom[q].life # "new"
    /\ prom' = [prom EXCEPT ![p].life = "live"]
    /\ stack' = <<Frame("run", p)>>
    /\ UNCHANGED <<trig, used>>

\* The program has the task object p, which is not empty.
Has(p) == Quiet /\ Parent[p] = None /\ Exists(prom, p) /\ ~prom[p].detached_

CallStart(p) ==
    /\ Has(p)
    /\ prom' = Started(prom, p)
    /\ UNCHANGED <<trig, stack, used>>

CallResolve(p) ==
    /\ Has(p) /\ (Done(prom, p) \/ Resolvable(prom, p))
    /\ stack' = <<Frame("resolve", p)>>
    /\ UNCHANGED <<prom, trig, used>>

\* p.resolution(); a null handle counts as triggered.
CallResolution(p) ==
    /\ Has(p) /\ prom[p].resolution_ = "null" /\ ~prom[p].resolving_
    /\ prom' = [prom EXCEPT ![p].resolution_ = "pending"]
    /\ UNCHANGED <<trig, stack, used>>

\* detach(), of a task that no combinator refers to.
CallDetach(p) ==
    /\ Has(p) /\ \A r \in Tasks : Borrows(r, p) => prom[r].life # "live"
    /\ prom' = IF prom[p].resolving_ THEN Destroyed(prom, Family[p])
               ELSE [prom EXCEPT ![p].detached_ = TRUE]
    /\ UNCHANGED <<trig, stack, used>>

CallDestroy(p) ==
    /\ Has(p)
    /\ prom' = Destroyed(prom, Family[p])
    /\ UNCHANGED <<trig, stack, used>>

Next ==
    \/ \E e \in Events : Trigger(e)
    \/ \E p \in Tasks :
          \/ Run(p) \/ Resolve(p) \/ Forwarded(p) \/ Driven(p) \/ Wake(p)
          \/ CallRoot(p) \/ CallStart(p) \/ CallResolve(p) \/ CallResolution(p)
          \/ CallDetach(p) \/ CallDestroy(p)

Spec == Init /\ [][Next]_vars

-----------------------------------------------------------------------------
(* Correctness. *)

\* awaiter_ and forward_ are bare pointers: while a task exists they point to a
\* coroutine that is alive, or to the quorum of a combinator that still waits for it.
AwaitersLive ==
    /\ \A p \in Tasks : Exists(prom, p) =>
          /\ \A a \in Awaiter(prom, p) : prom[a].life = "live"
          /\ prom[p].awaiter_.kind = "quorum" =>
                LET c == prom[p].awaiter_.who IN prom[c].life = "live" /\ prom[c].quorum # "null"
          /\ prom[p].forward_ # None => Exists(prom, prom[p].forward_)
    /\ \A i \in DOMAIN stack : Exists(prom, stack[i].on) \/ (i = 1 /\ stack[i].call = "drive")

\* A task whose last statement is a resolution point, its own or a forwarded one.
Careful(p) == Len(Script[p]) > 0 /\ Script[p][Len(Script[p])].op \in {"resolve", "forward", "quorum"}

\* "To ensure that work items are never dropped": a task that is past its last
\* resolution point has had its result taken.  Combinators move at most one argument
\* to completion, and only when their own result is wanted.
NothingLost == Quiet => \A p \in Tasks : Done(prom, p) /\ Careful(p) => p \in used

\* Nobody sleeps through what it waits for: a combinator that waits has no argument
\* that has resolved or could be resolved, and a coroutine that awaits a task awaits
\* one that is neither done nor stopped at a resolution point on its behalf.
NobodyStuck ==
    Quiet => \A p \in Tasks : prom[p].life = "live" =>
        /\ Statement(prom, p).op = "quorum" /\ prom[p].quorum = "pending" =>
              \A i \in DOMAIN Args[p] : LET x == Args[p][i] IN
                  x \in Tasks => ~Done(prom, x) /\ ~Resolvable(prom, x)
        /\ Statement(prom, p).op \in {"await", "forward"} =>
              LET t == Statement(prom, p).on IN
              /\ prom[t].life = "live" /\ p \in Awaiter(prom, t)
              /\ Active(prom, t) => ~prom[t].resolving_

\* "co_await t produces the task's return value": a coroutine goes on past co_await t,
\* or co_await forward(t), only when t is done. False of the code when t forwards a
\* task that forwards a resolvable one, which no instance but MCTaskLife_forward has.
AwaitsDone ==
    \A p \in Tasks : prom[p].life = "live" =>
        \A i \in 1 .. prom[p].at - 1 :
            Script[p][i].op \in {"await", "forward"} => Done(prom, Script[p][i].on)

\* A lazy task "resumes when another task starts waiting for the task with co_await t,
\* with co_await attempt(t, ...), or by calling t.start()": no task that is awaited
\* stays at interest{}. False of the code for a co_await that comes before the task
\* gets to interest{}, which no instance but MCTaskLife_interest has; a combinator,
\* which calls start(), may come as early as it likes.
InterestServed ==
    Quiet => \A p \in Tasks :
        /\ prom[p].life = "live" /\ Statement(prom, p).op = "interest"
        /\ prom[p].awaiter_ # Nobody
        => Ready(p)

=============================================================================
