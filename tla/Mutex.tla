------------------------------- MODULE Mutex -------------------------------
(***************************************************************************)
(* cotamer::mutex and its guards unique_lock and shared_lock.              *)
(*                                                                         *)
(* A mutex is one atomic word, latch_, and a deque of waiting events,      *)
(* waiters_, which only the owner of the latch bit may touch.  A coroutine *)
(* takes the fast path (one compare-and-swap) when nobody waits and the    *)
(* slow path (latch, notify_locked, unlatch) otherwise.  The slow path is  *)
(* cut at every point where another thread can see or change something:    *)
(* the empty() test of the first waiter, its trigger(), the write of the   *)
(* guard's owned_ flag, the decision of lock_impl and the final store.     *)
(*                                                                         *)
(* A coroutine runs on the driver thread Home[c]; the steps of coroutines  *)
(* of one thread interleave only at suspension points (CanRun).            *)
(***************************************************************************)
EXTENDS Naturals, Sequences, FiniteSets

CONSTANTS
    Coroutines,   \* the coroutines that use the mutex
    Home,         \* Home[c]: the thread whose driver runs coroutine c
    Guarded,      \* coroutines that lock through unique_lock / shared_lock
    Cancels,      \* guarded coroutines that race lock() against a timeout
    MaxWaiters,   \* bound on Len(waiters_), cancelled entries included
    MaxShared     \* bound on the shared count above which nobody calls lock()

ASSUME MutexAssumption ==
    /\ IsFiniteSet(Coroutines)
    /\ Guarded \subseteq Coroutines
    /\ Cancels \subseteq Guarded
    /\ MaxWaiters \in Nat /\ MaxShared \in Nat

VARIABLES
    latch_,       \* the atomic word, split into its bit fields
    waiters_,     \* deque of (event, notify pointer) pairs
    pc,           \* where each coroutine is
    op,           \* the slow-path operation in progress: "lock" or "unlock"
    mode,         \* the mode it asks for or holds: "excl" or "shared"
    reg,          \* its local copy `l` of the word
    event,        \* its mutex_event: "none" (null or used up), "pending", "triggered"
    owned_        \* the owned_ flag of its guard

vars == <<latch_, waiters_, pc, op, mode, reg, event, owned_>>

Modes == {"excl", "shared"}

\* The bit fields of latch_type: mf_latch, mfm_next (mf_next_excl or
\* mf_next_shared), mf_lock_excl and the count kept in units of mf_lock_shared.
Words == [latch : BOOLEAN, next : {"none"} \cup Modes, excl : Nat, shared : Nat]

Unlocked == [latch |-> FALSE, next |-> "none", excl |-> 0, shared |-> 0]

\* An entry of waiters_: the waiting coroutine (its event and its guard's
\* owned_ flag), the mode (ef_user on the event) and whether the event is
\* empty(): its coroutine dropped it, the deque holds the last reference.
Waiters == [who : Coroutines, mode : Modes, empty : BOOLEAN]

Resting == {"idle", "wait", "cs"}
Latched == {"notify", "trigger", "grant", "decide", "unlatch"}
Labels  == Resting \cup Latched
             \cup {"lock", "unlock", "unlock_cas", "try_cas", "resumed", "timedout"}

\* Coroutines on one driver switch only when they suspend.
CanRun(c) == \A d \in Coroutines \ {c} : Home[d] = Home[c] => pc[d] \in Resting

Goto(c, label) == pc' = [pc EXCEPT ![c] = label]

\* The call returns: its local copy of the word goes out of scope.
EndScope(c) == reg' = [reg EXCEPT ![c] = Unlocked]

-----------------------------------------------------------------------------
(* Operations on the word. *)

\* Mutant: a writer is admitted beside readers.
allow_ForgetsReaders(m, l) == l.excl = 0

allow(m, l) == IF m = "shared" THEN l.excl = 0 ELSE l.excl = 0 /\ l.shared = 0

\* l += mf_lock_shared or mf_lock_excl, and l -= the same.
Plus(l, m) == IF m = "shared" THEN [l EXCEPT !.shared = @ + 1] ELSE [l EXCEPT !.excl = @ + 1]
Minus(l, m) == IF m = "shared" THEN [l EXCEPT !.shared = @ - 1] ELSE [l EXCEPT !.excl = @ - 1]

\* Mutant: the last reader leaves without a word to the writer that waits.
FastUnlock_OffByOne(m, l) ==
    IF m = "shared"
    THEN ~l.latch /\ l.next # "shared" /\ (l.next # "excl" \/ l.shared >= 1)
    ELSE ~l.latch /\ l.next = "none"

\* The tests under which unlock() and unlock_shared() try one CAS.
FastUnlock(m, l) ==
    IF m = "shared"
    THEN ~l.latch /\ l.next # "shared" /\ (l.next # "excl" \/ l.shared >= 2)
    ELSE ~l.latch /\ l.next = "none"

\* Mutant: a reader barges past the queue.
FastTryShared_Barges(l) == ~l.latch /\ l.excl = 0

\* The test under which try_lock_shared() tries its CAS.
FastTryShared(l) == ~l.latch /\ l.next = "none" /\ l.excl = 0

-----------------------------------------------------------------------------
Init ==
    /\ latch_ = Unlocked
    /\ waiters_ = << >>
    /\ pc = [c \in Coroutines |-> "idle"]
    /\ op = [c \in Coroutines |-> "lock"]
    /\ mode = [c \in Coroutines |-> "excl"]
    /\ reg = [c \in Coroutines |-> Unlocked]
    /\ event = [c \in Coroutines |-> "none"]
    /\ owned_ = [c \in Coroutines |-> FALSE]

-----------------------------------------------------------------------------
(* Entry points. *)

\* m.lock(), m.lock_shared() or guard.lock() on a fresh defer_lock guard; the
\* first bound counts the entries the attempts in progress may still append.
StartLock(c, m) ==
    /\ pc[c] = "idle"
    /\ Len(waiters_) + Cardinality({d \in Coroutines : pc[d] \in Latched \cup {"lock"}})
         < MaxWaiters
    /\ latch_.shared <= MaxShared
    /\ mode' = [mode EXCEPT ![c] = m]
    /\ op' = [op EXCEPT ![c] = "lock"]
    /\ owned_' = [owned_ EXCEPT ![c] = FALSE]
    /\ Goto(c, "lock")
    /\ UNCHANGED <<latch_, waiters_, reg, event>>

\* m.try_lock(), or a guard's: one CAS from the all-zero word.  A CAS that
\* fails changes nothing.
TryLock(c) ==
    /\ pc[c] = "idle"
    /\ latch_ = Unlocked
    /\ latch_' = Plus(latch_, "excl")
    /\ mode' = [mode EXCEPT ![c] = "excl"]
    /\ owned_' = [owned_ EXCEPT ![c] = c \in Guarded]
    /\ Goto(c, "cs")
    /\ UNCHANGED <<waiters_, op, reg, event>>

\* m.try_lock_shared(): load, test, then CAS on the loaded value.
TryShared(c) ==
    /\ pc[c] = "idle"
    /\ FastTryShared(latch_)
    /\ reg' = [reg EXCEPT ![c] = latch_]
    /\ mode' = [mode EXCEPT ![c] = "shared"]
    /\ Goto(c, "try_cas")
    /\ UNCHANGED <<latch_, waiters_, op, event, owned_>>

TrySharedCas(c) ==
    /\ pc[c] = "try_cas"
    /\ \/ /\ latch_ = reg[c]
          /\ latch_' = Plus(latch_, "shared")
          /\ owned_' = [owned_ EXCEPT ![c] = c \in Guarded]
          /\ Goto(c, "cs")
       \/ /\ latch_ # reg[c]
          /\ Goto(c, "idle")
          /\ UNCHANGED <<latch_, owned_>>
    /\ EndScope(c)
    /\ UNCHANGED <<waiters_, op, mode, event>>

\* m.unlock(), m.unlock_shared(), guard.unlock() or ~guard: load and test.
Unlock(c) ==
    /\ pc[c] = "cs"
    /\ op' = [op EXCEPT ![c] = "unlock"]
    /\ \/ /\ FastUnlock(mode[c], latch_)
          /\ reg' = [reg EXCEPT ![c] = latch_]
          /\ Goto(c, "unlock_cas")
       \/ /\ ~FastUnlock(mode[c], latch_)
          /\ Goto(c, "unlock")
          /\ UNCHANGED reg
    /\ UNCHANGED <<latch_, waiters_, mode, event, owned_>>

UnlockCas(c) ==
    /\ pc[c] = "unlock_cas"
    /\ \/ /\ latch_ = reg[c]
          /\ latch_' = Minus(latch_, mode[c])
          /\ owned_' = [owned_ EXCEPT ![c] = FALSE]
          /\ Goto(c, "idle")
       \/ /\ latch_ # reg[c]
          /\ Goto(c, "unlock")
          /\ UNCHANGED <<latch_, owned_>>
    /\ EndScope(c)
    /\ UNCHANGED <<waiters_, op, mode, event>>

-----------------------------------------------------------------------------
(* The slow path: lock_impl and unlock_impl between latch() and unlatch(). *)

\* latch(): spin until the latch bit is clear, set it, drop the next bits from
\* the local copy; unlock_impl then subtracts the lock it gives up.
Latch(c) ==
    /\ pc[c] \in {"lock", "unlock"}
    /\ ~latch_.latch
    /\ latch_' = [latch_ EXCEPT !.latch = TRUE]
    /\ LET l == [latch_ EXCEPT !.next = "none"]
       IN reg' = [reg EXCEPT ![c] = IF op[c] = "unlock" THEN Minus(l, mode[c]) ELSE l]
    /\ Goto(c, "notify")
    /\ UNCHANGED <<waiters_, op, mode, event, owned_>>

AfterNotify(c) == IF op[c] = "lock" THEN "decide" ELSE "unlatch"

\* Mutant: an empty entry ends the loop instead of being dropped.
Notify_StopsAtEmpty(c) ==
    /\ pc[c] = "notify"
    /\ Goto(c, IF waiters_ # << >> /\ ~Head(waiters_).empty /\ allow(Head(waiters_).mode, reg[c])
               THEN "trigger" ELSE AfterNotify(c))
    /\ UNCHANGED <<latch_, waiters_, op, mode, reg, event, owned_>>

\* One turn of the loop of notify_locked up to the trigger: leave the loop,
\* drop an empty entry, or find a waiter that can have the lock.
Notify(c) ==
    /\ pc[c] = "notify"
    /\ \/ /\ waiters_ = << >>
          /\ Goto(c, AfterNotify(c))
          /\ UNCHANGED waiters_
       \/ /\ waiters_ # << >> /\ Head(waiters_).empty
          /\ waiters_' = Tail(waiters_)
          /\ UNCHANGED pc
       \/ /\ waiters_ # << >> /\ ~Head(waiters_).empty
          /\ Goto(c, IF allow(Head(waiters_).mode, reg[c]) THEN "trigger" ELSE AfterNotify(c))
          /\ UNCHANGED waiters_
    /\ UNCHANGED <<latch_, op, mode, reg, event, owned_>>

\* fw.first->trigger(), and l += ... if it returns true.  It returns false when
\* the coroutine dropped the event since the empty() test; the entry is popped.
Trigger(c) ==
    /\ pc[c] = "trigger"
    /\ LET fw == Head(waiters_)
       IN \/ /\ ~fw.empty
             /\ event' = [event EXCEPT ![fw.who] = "triggered"]
             /\ reg' = [reg EXCEPT ![c] = Plus(@, fw.mode)]
             /\ Goto(c, "grant")
             /\ UNCHANGED waiters_
          \/ /\ fw.empty
             /\ waiters_' = Tail(waiters_)
             /\ Goto(c, "notify")
             /\ UNCHANGED <<event, reg>>
    /\ UNCHANGED <<latch_, op, mode, owned_>>

\* Mutant: the guard is not told.
Grant_NoNotify(c) ==
    /\ pc[c] = "grant"
    /\ waiters_' = Tail(waiters_)
    /\ Goto(c, "notify")
    /\ UNCHANGED <<latch_, op, mode, reg, event, owned_>>

\* *fw.second = true (after the trigger) and waiters_.pop_front().  A guard that
\* was given up since the trigger no longer belongs to the coroutine.
Grant(c) ==
    /\ pc[c] = "grant"
    /\ LET w == Head(waiters_).who
       IN owned_' = IF w \in Guarded /\ pc[w] \in {"wait", "resumed", "timedout"}
                    THEN [owned_ EXCEPT ![w] = TRUE] ELSE owned_
    /\ waiters_' = Tail(waiters_)
    /\ Goto(c, "notify")
    /\ UNCHANGED <<latch_, op, mode, reg, event>>

\* lock_impl after notify_locked: take the lock at once or join the queue.
Decide(c) ==
    /\ pc[c] = "decide"
    /\ \/ /\ waiters_ = << >> /\ allow(mode[c], reg[c])
          /\ reg' = [reg EXCEPT ![c] = Plus(@, mode[c])]
          /\ owned_' = [owned_ EXCEPT ![c] = c \in Guarded]
          /\ UNCHANGED <<waiters_, event>>
       \/ /\ ~(waiters_ = << >> /\ allow(mode[c], reg[c]))
          /\ waiters_' = Append(waiters_, [who |-> c, mode |-> mode[c], empty |-> FALSE])
          /\ event' = [event EXCEPT ![c] = "pending"]
          /\ UNCHANGED <<reg, owned_>>
    /\ Goto(c, "unlatch")
    /\ UNCHANGED <<latch_, op, mode>>

\* unlatch(): publish the count and who is next in line; the call returns.
Unlatch(c) ==
    /\ pc[c] = "unlatch"
    /\ latch_' = [reg[c] EXCEPT !.next = IF waiters_ = << >> THEN "none" ELSE Head(waiters_).mode]
    /\ IF op[c] = "unlock"
       THEN Goto(c, "idle") /\ owned_' = [owned_ EXCEPT ![c] = FALSE]
       ELSE Goto(c, IF event[c] = "none" THEN "cs" ELSE "wait") /\ UNCHANGED owned_
    /\ EndScope(c)
    /\ UNCHANGED <<waiters_, op, mode, event>>

-----------------------------------------------------------------------------
(* The waiting coroutine. *)

\* The trigger put the coroutine on its driver's queue; it runs past co_await.
Resume(c) ==
    /\ pc[c] = "wait"
    /\ event[c] = "triggered"
    /\ event' = [event EXCEPT ![c] = "none"]
    /\ Goto(c, IF c \in Guarded THEN "resumed" ELSE "cs")
    /\ UNCHANGED <<latch_, waiters_, op, mode, reg, owned_>>

\* The other arm of first() wins: the mutex_event is destroyed, and an entry
\* still in waiters_ has become empty().
Cancel(c) ==
    /\ pc[c] = "wait"
    /\ c \in Cancels
    /\ event' = [event EXCEPT ![c] = IF @ = "pending" THEN "none" ELSE @]
    /\ waiters_' = [i \in DOMAIN waiters_ |->
                      IF waiters_[i].who = c THEN [waiters_[i] EXCEPT !.empty = TRUE]
                      ELSE waiters_[i]]
    /\ Goto(c, "timedout")
    /\ UNCHANGED <<latch_, op, mode, reg, owned_>>

\* guard.owns_lock() or the guard's destructor: a guard that does not own the
\* lock never unlocks it.
Check(c) ==
    /\ pc[c] \in {"resumed", "timedout"}
    /\ event' = [event EXCEPT ![c] = "none"]
    /\ Goto(c, IF owned_[c] THEN "cs" ELSE "idle")
    /\ UNCHANGED <<latch_, waiters_, op, mode, reg, owned_>>

Step(c) ==
    \/ TrySharedCas(c) \/ Unlock(c) \/ UnlockCas(c) \/ Latch(c) \/ Notify(c)
    \/ Trigger(c) \/ Grant(c) \/ Decide(c) \/ Unlatch(c) \/ Resume(c) \/ Check(c)

Call(c) == (\E m \in Modes : StartLock(c, m)) \/ TryLock(c) \/ TryShared(c) \/ Cancel(c)

Next == \E c \in Coroutines : CanRun(c) /\ (Step(c) \/ Call(c))

Spec == Init /\ [][Next]_vars

\* Every driver thread keeps running (WF).  A suspended coroutine of a thread
\* competes with the others of that thread; the driver serves its ready queue
\* first-in first-out, so one that is ready again and again gets its turn (SF).
\* A holder is assumed to release the lock some day; calls and timeouts need
\* not happen, and nothing is assumed of the spin in latch() beyond WF.
Fairness ==
    \A c \in Coroutines :
        /\ WF_vars(CanRun(c) /\ Step(c))
        /\ SF_vars(CanRun(c) /\ (Unlock(c) \/ Resume(c)))

FairSpec == Spec /\ Fairness

-----------------------------------------------------------------------------
(* Correctness. *)

\* The lock is accounted to c: it holds it, gives it up, or was just granted it.
Granted(c) ==
    \/ pc[c] \in {"cs", "unlock_cas", "unlock", "resumed"}
    \/ pc[c] \in {"wait", "timedout"} /\ event[c] = "triggered"
    \/ pc[c] = "timedout" /\ owned_[c]
    \/ pc[c] = "unlatch" /\ op[c] = "lock" /\ event[c] = "none"

Grantees(m) == {c \in Coroutines : Granted(c) /\ mode[c] = m}

\* Every variable keeps its type.
TypeOK ==
    /\ latch_ \in Words
    /\ waiters_ \in Seq(Waiters)
    /\ pc \in [Coroutines -> Labels]
    /\ op \in [Coroutines -> {"lock", "unlock"}]
    /\ mode \in [Coroutines -> Modes]
    /\ reg \in [Coroutines -> Words]
    /\ event \in [Coroutines -> {"none", "pending", "triggered"}]
    /\ owned_ \in [Coroutines -> BOOLEAN]

\* Past the co_await that took the lock, whether or not the guard knows it yet.
Inside(c) == pc[c] \in {"cs", "resumed"}

\* Two coroutines are inside at once only if both hold the lock in shared
\* mode, whichever mix of fast paths and latched slow paths let them in.
MutualExclusion ==
    \A c, d \in Coroutines :
        c # d /\ Inside(c) /\ Inside(d) => mode[c] = "shared" /\ mode[d] = "shared"

\* Whenever the latch is free and somebody queues, the lock is held and the
\* next bits describe the first entry: the holder's unlock will take the slow
\* path and call notify_locked.
WaitersHaveWaker ==
    ~latch_.latch /\ waiters_ # << >> =>
        /\ latch_.excl + latch_.shared > 0
        /\ latch_.next = Head(waiters_).mode

\* When co_await guard.lock() returns, the guard owns the lock. So it is for coroutines
\* of one driver; on drivers of their own it is false of the code, which triggers the
\* waiter's event before it writes owned_.
GuardOwnsAfterLock == \A c \in Coroutines : pc[c] = "resumed" => owned_[c]

\* A coroutine that queues and does not give up gets the lock.
WaiterServed ==
    \A c \in Coroutines : pc[c] = "wait" ~> pc[c] \in {"cs", "timedout"}

\* The entries whose event is still pending are the requests that wait.
Pending(fw) == ~fw.empty /\ event[fw.who] = "pending"

Waits(c) == \E i \in DOMAIN waiters_ : waiters_[i].who = c /\ Pending(waiters_[i])

AskedBefore(c, d) ==
    \E i, j \in DOMAIN waiters_ :
        /\ i < j
        /\ waiters_[i].who = c /\ Pending(waiters_[i])
        /\ waiters_[j].who = d /\ Pending(waiters_[j])

Held == [c \in Coroutines |-> IF Granted(c) THEN mode[c] ELSE "none"]
Wanted == [c \in Coroutines |-> IF Waits(c) THEN mode[c] ELSE "none"]
Order == {p \in Coroutines \X Coroutines : AskedBefore(p[1], p[2])}

\* Guards may withdraw what they wait for.
RW == INSTANCE RWLock WITH
        Clients <- Coroutines, Eager <- Guarded = {},
        holder <- Held, wants <- Wanted, ahead <- Order

\* The mutex, fast paths, abandoned attempts and all, is a readers-writer lock that
\* serves requests strictly in order of arrival.
RefinesRWLock == RW!FairSpec

=============================================================================
