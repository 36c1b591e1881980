---------------------------- MODULE EventQuorum ----------------------------
(***************************************************************************)
(* Events, the quorums any() and all() make of them, and their lifetimes.  *)
(*                                                                         *)
(* An event_body is reference counted and has a spinlock of its own.  A    *)
(* quorum_event_body listens to its members and holds a reference to each; *)
(* it triggers when enough of them have.  A quorum locks its members, and  *)
(* a member that triggers locks its quorums, so trigger() first marks the  *)
(* event triggered and unlocks it, and only then goes up; a quorum that    *)
(* finds a member marked leaves it in members_ and waits to be told.       *)
(*                                                                         *)
(* Threads run calls in steps that begin where they take a lock or read or *)
(* change a shared word.  stack[t] is what thread t has begun, innermost   *)
(* last: a call on one body leads to calls on its members and quorums.     *)
(* A coroutine that resumes releases its event and goes on when its thread *)
(* is idle.  What a trigger posts to another driver is in queue at once    *)
(* (DriverWake has the way there).                                         *)
(***************************************************************************)
EXTENDS Naturals, Sequences, FiniteSets, SequencesExt

CONSTANTS
    Threads,     \* the threads, each with its driver
    Coroutines, Home,   \* the coroutines, and the thread of each
    Events,      \* event bodies that are not quorums
    Quorums,     \* quorum_event_body objects
    Members,     \* Members[q][x]: how often x is an argument of the any() or all()
    Needed,      \* quorum_event_body::quorum_
    Timers,      \* events that a driver triggers, as asap() and at() have it
    Manual,      \* events that the program triggers
    Given,       \* the events each thread has a handle of from the start
    Shared,      \* bodies of which the program gives copies to other threads
    Prompt,      \* does the store of hard_deref's unlock() follow its decrement at once
    None

Bodies == Events \union Quorums

ASSUME QuorumAssumption ==
    /\ IsFiniteSet(Threads) /\ IsFiniteSet(Coroutines) /\ IsFiniteSet(Bodies)
    /\ Events \intersect Quorums = {} /\ None \notin Coroutines \union Bodies
    /\ Home \in [Coroutines -> Threads] /\ Timers \union Manual \subseteq Events
    /\ Members \in [Quorums -> [Bodies -> Nat]] /\ Needed \in [Quorums -> Nat]
    /\ Given \in [Threads -> SUBSET Events] /\ Events = UNION {Given[t] : t \in Threads}
    /\ Shared \subseteq Bodies /\ Prompt \in BOOLEAN

VARIABLES
    body,        \* the event bodies
    held,        \* the handles of each body that each thread's program has
    queue,       \* asap_ and migrate_ of each driver: handles
    at,          \* the body each coroutine is suspended on, or None
    coh,         \* the coroutine that each thread's driver_trigger has claimed
    stack        \* the calls each thread is in, innermost last

vars == <<body, held, queue, at, coh, stack>>

Nobody == [x \in Bodies |-> 0]

\* flags_ (lock, triggered, empty, nomem for ef_empty_members), refcount_, listeners_
\* (quorums and coroutines), members_ and triggered_.
BodyType ==
    [life : {"new", "live", "deleted"}, lock : BOOLEAN, triggered : BOOLEAN,
     empty : BOOLEAN, nomem : BOOLEAN, ref : Nat, quorums : [Bodies -> Nat],
     coroutines : SUBSET Coroutines, members : [Bodies -> Nat], count : Nat]

\* A call on body `on`: src is the member that triggered, left what the loop has
\* still to visit, to the drivers to post to, drv is set inside driver_trigger.
Ops == {"make", "trigger", "publish", "inform", "member", "member_end", "cull",
        "drop", "deref", "hard", "unlock", "hard_end", "drive", "claimed"}

FrameType == [op : Ops, on : Bodies, src : Bodies \union {None}, left : [Bodies -> Nat],
              to : SUBSET Threads, drv : BOOLEAN]

Frame(op, x, src, left, drv) ==
    [op |-> op, on |-> x, src |-> src, left |-> left, to |-> {}, drv |-> drv]

Call(op, x) == Frame(op, x, None, Nobody, FALSE)

\* ~event_handle looks at flags_ only for a quorum.
Release(x) == Call(IF x \in Quorums THEN "drop" ELSE "deref", x)

\* A loop that has nobody left to visit is over.
Loop(f) == IF f.left = Nobody THEN << >> ELSE <<f>>

\* Every variable keeps its type.
TypeOK ==
    /\ body \in [Bodies -> BodyType]
    /\ held \in [Threads -> [Bodies -> Nat]]
    /\ queue \in [Threads -> Seq(Bodies)]
    /\ at \in [Coroutines -> Bodies \union {None}]
    /\ coh \in [Threads -> Coroutines \union {None}]
    /\ stack \in [Threads -> Seq(FrameType)]

Fresh == [life |-> "new", lock |-> FALSE, triggered |-> FALSE, empty |-> TRUE,
          nomem |-> TRUE, ref |-> 0, quorums |-> Nobody, coroutines |-> {},
          members |-> Nobody, count |-> 0]

\* The events exist and have been handed out.
Init ==
    /\ body = [x \in Bodies |-> IF x \in Quorums THEN Fresh
                 ELSE [Fresh EXCEPT !.life = "live", !.ref = Cardinality({t \in Threads : x \in Given[t]})]]
    /\ held = [t \in Threads |-> [x \in Bodies |-> IF x \in Given[t] THEN 1 ELSE 0]]
    /\ queue = [t \in Threads |-> << >>]
    /\ at = [c \in Coroutines |-> None]
    /\ coh = [t \in Threads |-> None]
    /\ stack = [t \in Threads |-> << >>]

-----------------------------------------------------------------------------
(* Steps on one body. *)

Dec(bag, x) == [bag EXCEPT ![x] = IF bag[x] = 0 THEN 0 ELSE bag[x] - 1]
Inc(bag, x) == [bag EXCEPT ![x] = bag[x] + 1]

\* unlock() publishes ef_empty and ef_empty_members as the lists are now.
Unlocked(b) ==
    [b EXCEPT !.lock = FALSE,
              !.empty = b.quorums = Nobody /\ b.coroutines = {},
              !.nomem = b.members = Nobody]

Locked(b) == [b EXCEPT !.lock = TRUE]

\* n more references.
Refs(b, n) == [b EXCEPT !.ref = b.ref + n]

Deleted(b) == [Fresh EXCEPT !.life = "deleted", !.triggered = b.triggered]

Idle(t) == stack[t] = << >>
Frames(t) == {stack[t][i] : i \in DOMAIN stack[t]}
Top(t) == Last(stack[t])

\* With Prompt nobody else runs between hard_deref's decrement and its unlock().
Runs(t) == Prompt => \A u \in Threads \ {t} : \A f \in Frames(u) : f.op # "unlock"

\* Thread t is in call op, and goes on with the calls of new instead, the last first.
In(t, op) == ~Idle(t) /\ Top(t).op = op /\ Runs(t)
Replace(t, new) == stack' = [stack EXCEPT ![t] = Front(stack[t]) \o new]

-----------------------------------------------------------------------------
(* ~event_handle *)

\* Which way to go is decided on a relaxed load of flags_.
Drop(t) ==
    /\ In(t, "drop")
    /\ LET x == Top(t).on
       IN Replace(t, <<Call(IF body[x].nomem THEN "deref" ELSE "hard", x)>>)
    /\ UNCHANGED <<body, held, queue, at, coh>>

\* refcount_.fetch_sub(1); the last one deletes.
Deref(t) ==
    /\ In(t, "deref")
    /\ LET x == Top(t).on
           b == body[x]
       IN body' = [body EXCEPT ![x] = IF b.ref = 1 THEN Deleted(b) ELSE [b EXCEPT !.ref = b.ref - 1]]
    /\ Replace(t, << >>)
    /\ UNCHANGED <<held, queue, at, coh>>

\* quorum_event_body::hard_deref up to the decrement.
HardDeref(t) ==
    /\ In(t, "hard")
    /\ LET x == Top(t).on
           b == body[x]
       IN  /\ ~b.lock
           /\ body' = [body EXCEPT ![x] = [b EXCEPT !.lock = TRUE, !.ref = b.ref - 1]]
           /\ Replace(t, IF b.ref # 1 THEN <<Call("unlock", x)>>
                         ELSE IF b.triggered THEN <<Call("hard_end", x)>>
                         ELSE <<Call("hard_end", x)>> \o Loop(Frame("cull", x, None, b.members, FALSE)))
    /\ UNCHANGED <<held, queue, at, coh>>

Unlock(t) ==
    /\ In(t, "unlock")
    /\ LET x == Top(t).on
       IN body' = [body EXCEPT ![x] = Unlocked(body[x])]
    /\ Replace(t, << >>)
    /\ UNCHANGED <<held, queue, at, coh>>

\* "One of the concurrent trigger()s will delete us", if members are left.
HardEnd(t) ==
    /\ In(t, "hard_end")
    /\ LET x == Top(t).on
           b == body[x]
       IN body' = [body EXCEPT ![x] = IF b.members = Nobody THEN Deleted(b) ELSE Unlocked(b)]
    /\ Replace(t, << >>)
    /\ UNCHANGED <<held, queue, at, coh>>

\* Mutant: members that are being triggered are culled like the others.
Stays_Never(x) == FALSE

\* A triggered member stays: it will take itself out.
Stays(x) == body[x].triggered

\* The loop f has visited x.
Visited(f, x) == [f EXCEPT !.left = Dec(f.left, x)]

\* remove_listener, and quorum b without one occurrence of its member x.
Without(b, q) == Unlocked([b EXCEPT !.quorums = Dec(b.quorums, q)])
Lost(b, x) == [b EXCEPT !.members = Dec(b.members, x)]

\* One turn of cull_members; the handle of a member taken out is dropped.
Cull(t) ==
    /\ In(t, "cull")
    /\ LET f == Top(t)
       IN \E x \in Bodies :
          /\ f.left[x] > 0
          /\ \/ /\ Stays(x)
                /\ Replace(t, Loop(Visited(f, x)))
                /\ UNCHANGED body
             \/ /\ ~Stays(x) /\ ~body[x].lock
                /\ body' = [body EXCEPT ![x] = Without(body[x], f.on),
                                        ![f.on] = Lost(body[f.on], x)]
                /\ Replace(t, Loop(Visited(f, x)) \o <<Release(x)>>)
    /\ UNCHANGED <<held, queue, at, coh>>

-----------------------------------------------------------------------------
(* trigger() and trigger_unlock() *)

\* trigger_unlock on the locked body x: a quorum keeps itself alive and leaves
\* its members first.
TriggerUnlock(b, x, drv) ==
    IF x \in Quorums
    THEN <<Frame("publish", x, None, Nobody, drv)>> \o Loop(Frame("cull", x, None, b.members, drv))
    ELSE <<Frame("publish", x, None, Nobody, drv)>>

Referenced(b, x) == Refs(b, IF x \in Quorums THEN 1 ELSE 0)

\* untriggered_lock(): a triggered event needs nothing.
Trigger(t) ==
    /\ In(t, "trigger")
    /\ LET x == Top(t).on
           b == body[x]
       IN \/ /\ b.triggered
             /\ Replace(t, << >>)
             /\ UNCHANGED body
          \/ /\ ~b.triggered /\ ~b.lock
             /\ body' = [body EXCEPT ![x] = Referenced(Locked(b), x)]
             /\ Replace(t, TriggerUnlock(b, x, FALSE))
    /\ UNCHANGED <<held, queue, at, coh>>

\* Whether driver_trigger on thread t takes coroutine c of x with it.
Mine(t, x, drv) == {c \in body[x].coroutines : drv /\ Home[c] = t}

\* Mutant: the body stays locked while its listeners are told.
Publish_NoUnlock(t) ==
    /\ In(t, "publish")
    /\ LET f == Top(t)
           b == body[f.on]
       IN  /\ body' = [body EXCEPT ![f.on] = [b EXCEPT !.quorums = Nobody]]
           /\ Replace(t, <<[f EXCEPT !.op = "inform", !.left = b.quorums,
                                     !.to = {Home[c] : c \in b.coroutines}]>>)
    /\ UNCHANGED <<held, queue, at, coh>>

\* The listeners are sorted into quorums to inform, a coroutine to run and drivers
\* to post to; then the body is unlocked, triggered.
Publish(t) ==
    /\ In(t, "publish")
    /\ LET f == Top(t)
           x == f.on
           b == body[x]
           mine == Mine(t, x, f.drv)
       IN \E c \in IF mine # {} /\ coh[t] = None THEN mine ELSE {None} :
             /\ coh' = IF c = None THEN coh ELSE [coh EXCEPT ![t] = c]
             /\ body' = [body EXCEPT ![x] =
                   Unlocked([b EXCEPT !.triggered = TRUE, !.quorums = Nobody,
                                      !.coroutines = b.coroutines \ {c}])]
             /\ Replace(t, <<[f EXCEPT !.op = "inform", !.left = b.quorums,
                                       !.to = {Home[d] : d \in b.coroutines \ mine}]>>)
    /\ UNCHANGED <<held, queue, at>>

\* Each quorum is told.
Inform(t) ==
    /\ In(t, "inform")
    /\ LET f == Top(t)
       IN \E q \in Quorums :
             /\ f.left[q] > 0
             /\ Replace(t, <<Visited(f, q), Frame("member", q, f.on, Nobody, f.drv)>>)
    /\ UNCHANGED <<body, held, queue, at, coh>>

\* Mutant: this thread's driver is left out.
Post_RemoteOnly(t) ==
    /\ In(t, "inform") /\ Top(t).left = Nobody
    /\ LET f == Top(t)
           to == f.to \ {t}
       IN  /\ body' = [body EXCEPT ![f.on] = Refs(body[f.on], Cardinality(to))]
           /\ queue' = [d \in Threads |-> IF d \in to THEN Append(queue[d], f.on) ELSE queue[d]]
           /\ Replace(t, IF f.on \in Quorums THEN <<Release(f.on)>> ELSE << >>)
    /\ UNCHANGED <<held, at, coh>>

\* Then the drivers get references, and the quorum's own reference goes.
Post(t) ==
    /\ In(t, "inform") /\ Top(t).left = Nobody
    /\ LET f == Top(t)
       IN  /\ body' = [body EXCEPT ![f.on] = Refs(body[f.on], Cardinality(f.to))]
           /\ queue' = [d \in Threads |-> IF d \in f.to THEN Append(queue[d], f.on) ELSE queue[d]]
           /\ Replace(t, IF f.on \in Quorums THEN <<Release(f.on)>> ELSE << >>)
    /\ UNCHANGED <<held, at, coh>>

Counted(b) == [b EXCEPT !.count = b.count + 1]

\* trigger_member: lock the quorum, take the member out once and count it.
Member(t) ==
    /\ In(t, "member")
    /\ LET f == Top(t)
           q == f.on
           b == body[q]
           found == b.members[f.src] > 0
           end == [f EXCEPT !.op = "member_end"]
       IN  /\ ~b.lock
           /\ body' = [body EXCEPT ![q] =
                 IF found THEN Locked(Lost(Counted(b), f.src)) ELSE Locked(b)]
           /\ Replace(t, IF found THEN <<end, Release(f.src)>> ELSE <<end>>)
    /\ UNCHANGED <<held, queue, at, coh>>

\* Mutant: one member short.
Reached_OffByOne(q) == body[q].count + 1 >= Needed[q]

Reached(q) == body[q].count >= Needed[q]

\* Mutant: nobody deletes a quorum whose last handle went earlier.
MemberEnd_NeverDeletes(t) ==
    /\ In(t, "member_end")
    /\ LET q == Top(t).on
           b == body[q]
       IN \/ /\ ~b.triggered /\ Reached(q)
             /\ body' = [body EXCEPT ![q] = Referenced(b, q)]
             /\ Replace(t, TriggerUnlock(b, q, Top(t).drv))
          \/ /\ b.triggered \/ ~Reached(q)
             /\ body' = [body EXCEPT ![q] = Unlocked(b)]
             /\ Replace(t, << >>)
    /\ UNCHANGED <<held, queue, at, coh>>

\* trigger_member: trigger the quorum, delete it if nobody wants it, or unlock it.
MemberEnd(t) ==
    /\ In(t, "member_end")
    /\ LET q == Top(t).on
           b == body[q]
       IN \/ /\ ~b.triggered /\ Reached(q)
             /\ body' = [body EXCEPT ![q] = Referenced(b, q)]
             /\ Replace(t, TriggerUnlock(b, q, Top(t).drv))
          \/ /\ b.triggered \/ ~Reached(q)
             /\ body' = [body EXCEPT ![q] = IF b.members = Nobody /\ b.ref = 0
                                            THEN Deleted(b) ELSE Unlocked(b)]
             /\ Replace(t, << >>)
    /\ UNCHANGED <<held, queue, at, coh>>

-----------------------------------------------------------------------------
(* any() and all(): quorum_event_body::make *)

\* add_listener
With(b, q) == Unlocked([b EXCEPT !.quorums = Inc(b.quorums, q)])

\* One add_member, or seal.
Make(t) ==
    /\ In(t, "make")
    /\ LET f == Top(t)
           q == f.on
           b == body[q]
       IN \/ \E x \in Bodies :
             /\ f.left[x] > 0
             /\ \/ /\ body[x].triggered
                   /\ body' = [body EXCEPT ![q] = Counted(b)]
                \/ /\ ~body[x].triggered /\ ~body[x].lock
                   /\ body' = [body EXCEPT ![x] = With(Refs(body[x], 1), q),
                                           ![q] = [b EXCEPT !.members = Inc(b.members, x)]]
             /\ Replace(t, <<Visited(f, x)>>)
          \/ /\ f.left = Nobody /\ Reached(q)
             /\ body' = [body EXCEPT ![q] = Referenced(b, q)]
             /\ Replace(t, TriggerUnlock(b, q, FALSE))
          \/ /\ f.left = Nobody /\ ~Reached(q)
             /\ body' = [body EXCEPT ![q] = Unlocked(b)]
             /\ Replace(t, << >>)
    /\ UNCHANGED <<held, queue, at, coh>>

-----------------------------------------------------------------------------
(* The driver: driver_trigger for a handle of its queue, until it finds nobody. *)

Drive(t) ==
    /\ In(t, "drive")
    /\ LET x == Top(t).on
           b == body[x]
           mine == Mine(t, x, TRUE)
       IN \/ /\ b.triggered /\ b.empty
             /\ Replace(t, <<Release(x)>>)
             /\ UNCHANGED <<body, coh>>
          \/ /\ ~b.triggered /\ ~b.lock
             /\ body' = [body EXCEPT ![x] = Referenced(Locked(b), x)]
             /\ Replace(t, <<Call("claimed", x)>> \o TriggerUnlock(b, x, TRUE))
             /\ UNCHANGED coh
          \/ /\ b.triggered /\ ~b.empty /\ ~b.lock /\ mine = {}
             /\ Replace(t, <<Release(x)>>)
             /\ UNCHANGED <<body, coh>>
          \/ \E c \in mine :
             /\ b.triggered /\ ~b.empty /\ ~b.lock
             /\ body' = [body EXCEPT ![x] = Unlocked([b EXCEPT !.coroutines = b.coroutines \ {c}])]
             /\ coh' = [coh EXCEPT ![t] = c]
             /\ Replace(t, <<Call("claimed", x)>>)
    /\ UNCHANGED <<held, queue, at>>

\* Mutant: the driver is content with the first coroutine it runs.
Resume_Once(t) ==
    /\ In(t, "claimed")
    /\ LET x == Top(t).on
           c == coh[t]
       IN \/ /\ c = None
             /\ Replace(t, <<Release(x)>>)
             /\ UNCHANGED <<at, coh>>
          \/ /\ c # None
             /\ Replace(t, <<Release(x), Release(at[c])>>)
             /\ at' = [at EXCEPT ![c] = None]
             /\ coh' = [coh EXCEPT ![t] = None]
    /\ UNCHANGED <<body, held, queue>>

\* The claimed coroutine runs and lets go of its event; driver_trigger again.
Resume(t) ==
    /\ In(t, "claimed")
    /\ LET x == Top(t).on
           c == coh[t]
       IN \/ /\ c = None
             /\ Replace(t, <<Release(x)>>)
             /\ UNCHANGED <<at, coh>>
          \/ /\ c # None
             /\ Replace(t, <<Call("drive", x), Release(at[c])>>)
             /\ at' = [at EXCEPT ![c] = None]
             /\ coh' = [coh EXCEPT ![t] = None]
    /\ UNCHANGED <<body, held, queue>>

Step(t) ==
    \/ Drop(t) \/ Deref(t) \/ HardDeref(t) \/ Unlock(t) \/ HardEnd(t) \/ Cull(t)
    \/ Trigger(t) \/ Publish(t) \/ Inform(t) \/ Post(t) \/ Member(t) \/ MemberEnd(t)
    \/ Make(t) \/ Drive(t) \/ Resume(t)

-----------------------------------------------------------------------------
(* The program's calls. *)

Ready(t) == Idle(t) /\ Runs(t)
Begin(t, frame) == stack' = [stack EXCEPT ![t] = <<frame>>]
Holds(t, x) == Ready(t) /\ held[t][x] > 0

\* any(...) or all(...) of events the thread has.
CallMake(t, q) ==
    /\ Ready(t) /\ body[q].life = "new"
    /\ \A x \in Bodies : Members[q][x] > 0 => held[t][x] > 0
    /\ body' = [body EXCEPT ![q] = [body[q] EXCEPT !.life = "live", !.lock = TRUE, !.ref = 1]]
    /\ held' = [held EXCEPT ![t] = Inc(held[t], q)]
    /\ Begin(t, Frame("make", q, None, Members[q], FALSE))
    /\ UNCHANGED <<queue, at, coh>>

\* e.trigger(); of a triggered event it does nothing.
CallTrigger(t, e) ==
    /\ Holds(t, e) /\ e \in Manual /\ ~body[e].triggered
    /\ Begin(t, Call("trigger", e))
    /\ UNCHANGED <<body, held, queue, at, coh>>

\* A copy for another thread, one at a time (a bound).
Copy(t, x, u) ==
    /\ x \in Shared /\ Holds(t, x) /\ held[u][x] = 0
    /\ body' = [body EXCEPT ![x] = Refs(body[x], 1)]
    /\ held' = [held EXCEPT ![u] = Inc(held[u], x)]
    /\ UNCHANGED <<queue, at, coh, stack>>

CallDrop(t, x) ==
    /\ Holds(t, x)
    /\ held' = [held EXCEPT ![t] = Dec(held[t], x)]
    /\ Begin(t, Release(x))
    /\ UNCHANGED <<body, queue, at, coh>>

\* driver::asap(e), or a timer that has come; an event is queued once (a bound).
Asap(t, e) ==
    /\ Holds(t, e) /\ e \in Timers /\ ~body[e].triggered /\ e \notin Range(queue[t])
    /\ body' = [body EXCEPT ![e] = Refs(body[e], 1)]
    /\ queue' = [queue EXCEPT ![t] = Append(queue[t], e)]
    /\ UNCHANGED <<held, at, coh, stack>>

\* co_await x suspends the coroutine, which takes a handle along.
Await(c, x) ==
    /\ Holds(Home[c], x) /\ at[c] = None
    /\ ~body[x].triggered /\ ~body[x].lock
    /\ at' = [at EXCEPT ![c] = x]
    /\ held' = [held EXCEPT ![Home[c]] = Dec(held[Home[c]], x)]
    /\ body' = [body EXCEPT ![x] = Unlocked([body[x] EXCEPT !.coroutines = body[x].coroutines \union {c}])]
    /\ UNCHANGED <<queue, coh, stack>>

\* The suspended coroutine is destroyed: remove_listener, then its handle goes.
Destroy(c) ==
    /\ LET t == Home[c]
           x == at[c]
       IN  /\ x # None /\ Ready(t) /\ ~body[x].lock
           /\ body' = [body EXCEPT ![x] = Unlocked([body[x] EXCEPT !.coroutines = body[x].coroutines \ {c}])]
           /\ Begin(t, Release(x))
    /\ at' = [at EXCEPT ![c] = None]
    /\ UNCHANGED <<held, queue, coh>>

\* The loop takes a handle from its queue.
RunAsap(t) ==
    /\ Ready(t) /\ queue[t] # << >>
    /\ queue' = [queue EXCEPT ![t] = Tail(queue[t])]
    /\ Begin(t, Call("drive", Head(queue[t])))
    /\ UNCHANGED <<body, held, at, coh>>

Use(t) ==
    \/ \E q \in Quorums : CallMake(t, q)
    \/ \E e \in Events : CallTrigger(t, e) \/ Asap(t, e)
    \/ \E x \in Bodies : CallDrop(t, x) \/ \E u \in Threads : Copy(t, x, u)

Next ==
    \/ \E t \in Threads : Step(t) \/ Use(t) \/ RunAsap(t)
    \/ \E c \in Coroutines : Destroy(c) \/ \E x \in Bodies : Await(c, x)

Spec == Init /\ [][Next]_vars

-----------------------------------------------------------------------------
(* Correctness. *)

Live(x) == body[x].life = "live"

\* No handle, listener or call refers to a deleted body: reference counts, the
\* temporary reference of trigger_unlock and the rule who deletes a quorum work out
\* for triggers, drops and resumptions on several threads. Without Prompt it is false
\* of the code: hard_deref writes flags_ after it gave up its reference.
NoDangling ==
    /\ \A t \in Threads :
          /\ \A f \in Frames(t) : Live(f.on) /\ \A q \in Bodies : f.left[q] > 0 => Live(q)
          /\ \A i \in DOMAIN queue[t] : Live(queue[t][i])
          /\ \A x \in Bodies : held[t][x] > 0 => Live(x)
    /\ \A c \in Coroutines : at[c] # None => Live(at[c])
    /\ \A x, y \in Bodies : body[x].members[y] > 0 \/ body[x].quorums[y] > 0 => Live(y)

\* A body lives only while a handle, a member list or a call needs it: whoever goes
\* last deletes it, also when the last handle of a quorum went during a trigger.
NoLeak ==
    \A x \in Bodies : Live(x) =>
        \/ \E t \in Threads : \/ held[t][x] > 0 \/ x \in Range(queue[t])
                              \/ \E f \in Frames(t) : f.on = x \/ f.left[x] > 0
        \/ \E c \in Coroutines : at[c] = x
        \/ \E q \in Quorums : Live(q) /\ body[q].members[x] > 0

\* The arguments of any() or all(), a body that is passed twice counting twice, and
\* how many of them have triggered.
Args(q) == UNION {{x} \X (1..Members[q][x]) : x \in Bodies}
Arrived(q) == Cardinality({a \in Args(q) : body[a[1]].triggered})

Quiet == \A t \in Threads : Idle(t)

\* A quorum never triggers early, and once the calls have returned it is triggered
\* if enough of its members are, however add_member, trigger_member and cull_members
\* of several threads interleaved and however often a member was passed.
QuorumExact ==
    \A q \in Quorums : Live(q) =>
        /\ body[q].triggered => Arrived(q) >= Needed[q]
        /\ Quiet /\ Arrived(q) >= Needed[q] => body[q].triggered

\* "Our caller will run it to completion": once the calls have returned, a coroutine
\* still suspended on a triggered event is on its driver's queue. So it is as long as
\* a driver's coroutines wait for the events themselves, any number for one of them,
\* or one coroutine waits for a quorum. With one of each it is false of the code: the
\* quorum's coroutine is left to a caller that goes on with the event's.
NobodyStranded ==
    \A c \in Coroutines : Quiet /\ at[c] # None /\ body[at[c]].triggered
        => at[c] \in Range(queue[Home[c]])

\* Quorums lock their members and members their quorums, and still the threads never
\* all spin: while a call is in progress, some thread can take its next step.
SomebodyMoves == Quiet \/ \E t \in Threads : ENABLED Step(t)

=============================================================================
