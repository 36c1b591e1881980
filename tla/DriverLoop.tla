----------------------------- MODULE DriverLoop -----------------------------
(***************************************************************************)
(* driver::loop: the event loop of one thread, its queue of runnable       *)
(* events, its timers, its keepalives and its clock.                       *)
(*                                                                         *)
(* Everything between two coroutine runs happens on one thread, so a step  *)
(* of the model is a stretch of the loop up to the next coroutine.  While  *)
(* a coroutine runs (pc = "run"), and before and after loop() (pc =        *)
(* "out"), the program calls what the library offers: asap, at, trigger,   *)
(* keepalive, driver_guard, clear.  An event is created once and has at    *)
(* most one coroutine suspended on it.                                     *)
(*                                                                         *)
(* Other threads and file descriptors are DriverWake's and FdClose's: here *)
(* lock_ and nfdctl_ stay 0.  timed_ is the set of the heap's entries:     *)
(* that the heap's top is the first of the earliest entries, and that it   *)
(* loses only dead entries of its own accord, is what TimerHeap shows.     *)
(***************************************************************************)
EXTENDS Integers, Sequences, SequencesExt

CONSTANTS
    Events,       \* the event bodies
    Quota,        \* driver::asap_quota
    Delays,       \* the delays passed to after()
    MaxTime,      \* bound on the steady clock in real time
    MaxGuards,    \* bound on the live driver_guards
    GuardsSurvive \* may a driver_guard outlive the loop() that a clear() ended

ASSUME LoopAssumption ==
    /\ Quota \in Nat \ {0} /\ MaxTime \in Nat /\ MaxGuards \in Nat
    /\ Delays \subseteq Nat /\ GuardsSurvive \in BOOLEAN

VARIABLES
    asap_, timed_, order_, keepalives_, guard_count_, clearing_, snow_, real_time_,
    clock,       \* what std::chrono::steady_clock reads
    st,          \* each event: "new", "pending" ("scheduled" if made by asap or at),
                 \* "dropped" (the program has no handle left) or "triggered"
    waiting,     \* a coroutine is suspended on the event
    guards,      \* the driver_guards alive that a clear() has not cancelled
    kept,        \* history: events given to keepalive() and not cleared since
    pc, lt,      \* where the loop is, and its argument
    n,           \* what is left of the quota
    back         \* where the loop goes on when the running coroutine suspends

events == <<st, waiting>>
timers == <<timed_, order_>>
queues == <<asap_, timers>>
alive == <<keepalives_, guard_count_, guards, kept>>
time == <<snow_, real_time_, clock>>
control == <<pc, lt, n, back>>
vars == <<queues, alive, clearing_, time, events, control>>

Labels == {"out", "asap", "clearing", "check", "time", "timers", "run"}

\* Every variable keeps its type.
TypeOK ==
    /\ asap_ \in Seq(Events)
    /\ timed_ \in SUBSET [ev : Events, when : Nat, order : Nat] /\ order_ \in Nat
    /\ keepalives_ \in Seq(Events)
    /\ guard_count_ \in Int /\ guards \in Nat
    /\ kept \in SUBSET Events
    /\ clearing_ \in BOOLEAN /\ real_time_ \in BOOLEAN
    /\ snow_ \in Nat /\ clock \in Nat
    /\ st \in [Events -> {"new", "pending", "scheduled", "dropped", "triggered"}]
    /\ waiting \in [Events -> BOOLEAN]
    /\ pc \in Labels /\ back \in {"asap", "clearing", "timers"}
    /\ lt \in {"complete", "poll"}
    /\ n \in 0 .. Quota

Init ==
    /\ asap_ = << >> /\ timed_ = {} /\ order_ = 0 /\ keepalives_ = << >>
    /\ guard_count_ = 0 /\ guards = 0 /\ kept = {}
    /\ clearing_ = FALSE
    /\ real_time_ \in BOOLEAN /\ snow_ = 0 /\ clock = 0
    /\ st = [e \in Events |-> "new"] /\ waiting = [e \in Events |-> FALSE]
    /\ pc = "out" /\ lt = "complete" /\ n = 0 /\ back = "asap"

steady_now == IF real_time_ THEN clock ELSE snow_

-----------------------------------------------------------------------------
(* What the program calls, outside loop() or from a coroutine. *)

Calling == pc \in {"out", "run"}

Create(e, s, w) ==
    /\ st[e] = "new"
    /\ st' = [st EXCEPT ![e] = s]
    /\ waiting' = [waiting EXCEPT ![e] = w]

Untriggered(e) == st[e] \in {"pending", "scheduled"}

\* co_await asap()
Asap(e) ==
    /\ Calling /\ Create(e, "scheduled", TRUE)
    /\ asap_' = Append(asap_, e)
    /\ UNCHANGED <<timers, alive, clearing_, time, control>>

\* co_await at(steady_now() + d); in virtual time a time that has come needs no event.
At(e, d) ==
    /\ Calling /\ Create(e, "scheduled", TRUE)
    /\ real_time_ => clock + d <= MaxTime
    /\ ~real_time_ => d > 0
    /\ order_' = order_ + 1
    /\ timed_' = timed_ \union {[ev |-> e, when |-> steady_now + d, order |-> order_']}
    /\ UNCHANGED <<asap_, alive, clearing_, time, control>>

\* An event of the program's own.
Event(e, w) ==
    /\ Calling /\ Create(e, "pending", w)
    /\ UNCHANGED <<queues, alive, clearing_, time, control>>

\* event::trigger from this thread: a suspended coroutine is queued.
Trigger(e) ==
    /\ Calling /\ Untriggered(e)
    /\ st' = [st EXCEPT ![e] = "triggered"]
    /\ asap_' = IF waiting[e] THEN Append(asap_, e) ELSE asap_
    /\ UNCHANGED <<waiting, timers, alive, clearing_, time, control>>

\* The last handles go, with the coroutine that is suspended on the event.
Drop(e) ==
    /\ Calling
    /\ \/ Untriggered(e) /\ st' = [st EXCEPT ![e] = "dropped"]
       \/ st[e] = "triggered" /\ waiting[e] /\ UNCHANGED st
    /\ waiting' = [waiting EXCEPT ![e] = FALSE]
    /\ UNCHANGED <<queues, alive, clearing_, time, control>>

Keepalive(e) ==
    /\ Calling /\ Untriggered(e) /\ e \notin kept
    /\ keepalives_' = Append(keepalives_, e)
    /\ kept' = kept \union {e}
    /\ UNCHANGED <<queues, guard_count_, guards, clearing_, time, events, control>>

\* driver_guard(); while clearing the new guard has no effect.
NewGuard ==
    /\ Calling /\ ~clearing_ /\ guards < MaxGuards
    /\ guards' = guards + 1
    /\ guard_count_' = guard_count_ + 1
    /\ UNCHANGED <<queues, keepalives_, kept, clearing_, time, events, control>>

\* ~driver_guard()
DropGuard ==
    /\ Calling /\ guards > 0
    /\ guards' = guards - 1
    /\ guard_count_' = IF clearing_ THEN guard_count_ ELSE guard_count_ - 1
    /\ UNCHANGED <<queues, keepalives_, kept, clearing_, time, events, control>>

Clear ==
    /\ Calling
    /\ clearing_' = TRUE
    /\ UNCHANGED <<queues, alive, time, events, control>>

\* loop() or poll()
CallLoop(type) ==
    /\ pc = "out"
    /\ pc' = "asap" /\ lt' = type /\ n' = Quota
    /\ UNCHANGED <<queues, alive, clearing_, time, events, back>>

\* The running coroutine suspends or finishes; step_time().
Suspend ==
    /\ pc = "run"
    /\ pc' = back /\ back' = "asap"
    /\ snow_' = IF real_time_ \/ back = "clearing" THEN snow_ ELSE snow_ + 1
    /\ UNCHANGED <<queues, alive, clearing_, real_time_, clock, events, lt, n>>

Call ==
    \/ \E e \in Events :
          \/ Asap(e) \/ Trigger(e) \/ Drop(e) \/ Keepalive(e)
          \/ \E d \in Delays : At(e, d)
          \/ \E w \in BOOLEAN : Event(e, w)
    \/ NewGuard \/ DropGuard \/ Clear

-----------------------------------------------------------------------------
(* The loop. *)

\* driver_trigger(e) from phase: the event triggers and its coroutine runs.
DriverTrigger(e, phase) ==
    /\ st' = [st EXCEPT ![e] = "triggered"]
    /\ waiting' = [waiting EXCEPT ![e] = FALSE]
    /\ pc' = IF waiting[e] THEN "run" ELSE phase
    /\ back' = IF waiting[e] THEN phase ELSE back

RunAsap ==
    /\ pc = "asap" /\ n # 0 /\ asap_ # << >>
    /\ asap_' = Tail(asap_)
    /\ n' = n - 1
    /\ DriverTrigger(Head(asap_), "asap")
    /\ UNCHANGED <<timers, alive, clearing_, time, lt>>

\* Mutant: dead keepalives stay.
LiveKeepalives_All == keepalives_

\* keepalives_ without the triggered events at its end.
LiveKeepalives ==
    LET live == {i \in DOMAIN keepalives_ : st[keepalives_[i]] # "triggered"}
        last == CHOOSE i \in live \union {0} : \A j \in live : j <= i
    IN SubSeq(keepalives_, 1, last)

\* Mutants: clearing keeps the guards; a triggered keepalive takes an older one along.
EndAsap_KeepsGuards ==
    /\ pc = "asap" /\ (n = 0 \/ asap_ = << >>)
    /\ \/ /\ clearing_
          /\ keepalives_' = << >> /\ kept' = {}
          /\ pc' = "clearing"
       \/ /\ ~clearing_
          /\ keepalives_' = LiveKeepalives
          /\ pc' = "check"
          /\ UNCHANGED kept
    /\ n' = 0
    /\ UNCHANGED <<queues, guard_count_, guards, clearing_, time, events, lt, back>>

EndAsap_PrunesAll ==
    /\ pc = "asap" /\ (n = 0 \/ asap_ = << >>)
    /\ \/ /\ clearing_
          /\ keepalives_' = << >> /\ kept' = {}
          /\ guard_count_' = 0
          /\ pc' = "clearing"
       \/ /\ ~clearing_
          /\ keepalives_' = IF LiveKeepalives = keepalives_ THEN keepalives_ ELSE << >>
          /\ pc' = "check"
          /\ UNCHANGED <<kept, guard_count_>>
    /\ n' = 0
    /\ UNCHANGED <<queues, guards, clearing_, time, events, lt, back>>

\* Dead keepalives go; process_clearing begins with all of them and the guards.
EndAsap ==
    /\ pc = "asap" /\ (n = 0 \/ asap_ = << >>)
    /\ \/ /\ clearing_
          /\ keepalives_' = << >> /\ kept' = {}
          /\ guard_count_' = 0
          /\ pc' = "clearing"
       \/ /\ ~clearing_
          /\ keepalives_' = LiveKeepalives
          /\ pc' = "check"
          /\ UNCHANGED <<kept, guard_count_>>
    /\ n' = 0
    /\ UNCHANGED <<queues, guards, clearing_, time, events, lt, back>>

Before(x, y) == x.when < y.when \/ (x.when = y.when /\ x.order < y.order)

\* The heap's top: of the earliest entries the first that was set.
Top(heap) == CHOOSE x \in heap : \A y \in heap : ~Before(y, x)

PopTimer(phase) ==
    /\ timed_' = timed_ \ {Top(timed_)}
    /\ DriverTrigger(Top(timed_).ev, phase)
    /\ UNCHANGED <<asap_, order_, alive, clearing_, time, lt, n>>

\* process_clearing triggers every timer; the coroutines throw.
ClearTimer == pc = "clearing" /\ timed_ # {} /\ PopTimer("clearing")

EndClearing ==
    /\ pc = "clearing" /\ timed_ = {}
    /\ pc' = "check"
    /\ UNCHANGED <<queues, alive, clearing_, time, events, lt, n, back>>

\* event_body::empty() of a timer's event: triggered, or no handle but the timer's.
Empty(e) == st[e] = "triggered" \/ (st[e] = "dropped" /\ e \notin Range(keepalives_))

\* timer_heap::cull: dead entries leave from the top.
Cull(heap) == {x \in heap : \E y \in heap : ~Empty(y.ev) /\ (y = x \/ Before(y, x))}

Idle(heap) == heap = {} /\ guard_count_ = 0 /\ keepalives_ = << >>

\* Exit if nothing to do.
Check ==
    /\ pc = "check"
    /\ timed_' = Cull(timed_)
    /\ \/ /\ Idle(timed_')
          /\ clearing_' = FALSE
          /\ guards' = IF clearing_ /\ ~GuardsSurvive THEN 0 ELSE guards
          /\ pc' = "out" /\ lt' = "complete"
       \/ /\ ~Idle(timed_')
          /\ pc' = "time"
          /\ UNCHANGED <<clearing_, guards, lt>>
    /\ UNCHANGED <<asap_, order_, keepalives_, guard_count_, kept, time, events, n, back>>

\* Mutants: time jumps although coroutines are runnable; keepalives stop the clock.
UpdateTime_IgnoresAsap ==
    /\ pc = "time"
    /\ snow_' = IF real_time_ THEN clock
                ELSE IF timed_ # {} THEN Top(timed_).when
                ELSE snow_
    /\ pc' = "timers"
    /\ UNCHANGED <<queues, alive, clearing_, real_time_, clock, events, lt, n, back>>

UpdateTime_HeldByKeepalive ==
    /\ pc = "time"
    /\ snow_' = IF real_time_ THEN clock
                ELSE IF timed_ # {} /\ asap_ = << >> /\ keepalives_ = << >>
                     THEN Top(timed_).when
                ELSE snow_
    /\ pc' = "timers"
    /\ UNCHANGED <<queues, alive, clearing_, real_time_, clock, events, lt, n, back>>

\* The timeout passes (in real time perhaps not all of it) and the clock is read.
UpdateTime ==
    /\ pc = "time"
    /\ snow_' = IF real_time_ THEN clock
                ELSE IF timed_ # {} /\ asap_ = << >> THEN Top(timed_).when
                ELSE snow_
    /\ pc' = "timers"
    /\ UNCHANGED <<queues, alive, clearing_, real_time_, clock, events, lt, n, back>>

Due == timed_ # {} /\ Top(timed_).when <= snow_

FireTimer == pc = "timers" /\ Due /\ PopTimer("timers")

EndTimers ==
    /\ pc = "timers" /\ ~Due
    /\ \/ lt = "poll" /\ pc' = "out" /\ UNCHANGED n
       \/ lt = "complete" /\ pc' = "asap" /\ n' = Quota
    /\ lt' = "complete"
    /\ UNCHANGED <<queues, alive, clearing_, time, events, back>>

\* Real time passes.
Tick ==
    /\ real_time_ /\ clock < MaxTime
    /\ clock' = clock + 1
    /\ UNCHANGED <<queues, alive, clearing_, snow_, real_time_, events, control>>

Loop == \/ RunAsap \/ EndAsap \/ ClearTimer \/ EndClearing \/ Check \/ UpdateTime
        \/ FireTimer \/ EndTimers

Next == Call \/ Suspend \/ Loop \/ Tick \/ \E type \in {"complete", "poll"} : CallLoop(type)

Spec == Init /\ [][Next]_vars

\* The loop runs on, coroutines give control back, and the clock advances.
FairSpec == Spec /\ WF_vars(Loop) /\ WF_vars(Suspend) /\ WF_vars(Tick)

-----------------------------------------------------------------------------
(* Correctness. *)

Armed(e) == \E x \in timed_ : x.ev = e

\* "Virtual time jumps only when everybody is blocked": a step of more than one
\* tick finds no runnable coroutine and lands on a live timer's time, before
\* which no timer is due.
JumpOnlyWhenIdle ==
    [][~real_time_ /\ snow_' > snow_ + 1
          => /\ asap_ = << >>
             /\ \E x \in timed_ : ~Empty(x.ev) /\ x.when = snow_'
             /\ \A x \in timed_ : x.when >= snow_']_vars

Returns == pc = "check" /\ pc' = "out"

\* loop() does not return while a coroutine waits for a timer, an event passed
\* to keepalive() is untriggered, or a driver_guard lives, unless clear() said so.
KeepsRunning ==
    [][Returns /\ ~clearing_
          => /\ \A e \in Events : Armed(e) => Empty(e)
             /\ \A e \in kept : st[e] = "triggered"
             /\ guards = 0]_vars

Running == pc # "out" /\ lt = "complete"

\* While loop() runs, every timer that a coroutine waits for triggers, unless the
\* coroutine goes first: early exits, other timers and step_time never strand it.
TimerFires ==
    \A e \in Events : Running /\ Armed(e) /\ waiting[e] ~> ~Untriggered(e)

\* clear() makes the loop() it was called in return, whatever keeps it alive and
\* whatever the coroutines do while they are torn down.
ClearReturns == pc # "out" /\ clearing_ ~> pc = "out"

NothingLeft ==
    /\ guards = 0
    /\ \A e \in Events : Armed(e) => Empty(e)
    /\ \A e \in kept : st[e] = "triggered"

\* COTAMER.md: loop() "runs until there's nothing left for it to do: no unblocked
\* tasks, no timers". It returns once nothing keeps it, be it a live timer, a
\* keepalive or a guard. False of the code when a driver_guard outlives a loop()
\* that clear() ended (GuardsSurvive): the count is then -1 and never 0 again.
LoopReturns == Running /\ NothingLeft ~> pc = "out" \/ ~NothingLeft

\* The other half of that sentence: loop() leaves no unblocked task when it returns
\* of its own accord. False of the code: an iteration runs at most asap_quota
\* events, and the exit test does not look at what is left.
LeavesNoneRunnable ==
    [][Returns /\ lt = "complete" /\ ~clearing_
          => \A i \in DOMAIN asap_ : ~waiting[asap_[i]]]_vars

=============================================================================
