----------------------------- MODULE DriverWake -----------------------------
(***************************************************************************)
(* How another thread gets work to a driver that may be asleep.            *)
(*                                                                         *)
(* driver::migrate_asap and migrate_fd_close append to the migrate_ lists  *)
(* under the spinlock lock_, release it with df_nonempty set, and then     *)
(* write to the driver's eventfd if wakefd_ says that the driver blocks.   *)
(* driver::loop imports the lists (finish_migrate), runs what it imported, *)
(* publishes wakefd_, looks at lock_ once more and only then blocks in     *)
(* epoll_wait.  The two sides share no lock around "is there work" and     *)
(* "is somebody asleep", so a wakeup can be lost if either order is wrong. *)
(*                                                                         *)
(* The poster's unlock() is a release store followed by a load: a build    *)
(* for a store-buffer machine may let the load overtake it.  The model     *)
(* therefore has the store become visible at any time after it is issued   *)
(* (Flush).  The driver's store to wakefd_ is sequentially consistent.     *)
(*                                                                         *)
(* The driver runs in real time with a guard alive, and without timers or  *)
(* user file descriptors; it would block for an hour, here for ever.       *)
(***************************************************************************)
EXTENDS Naturals, Sequences, FiniteSets

CONSTANTS
    Posters,     \* the other threads
    Closers,     \* those that close files the driver watches; the rest trigger events
    MaxPosts     \* bound on the number of posts of each thread

ASSUME WakeAssumption == Closers \subseteq Posters /\ MaxPosts \in Nat

VARIABLES
    lock_,       \* driver::lock_: [lock |-> df_lock, nonempty |-> df_nonempty]
    migrate_,    \* events triggered for the driver's coroutines
    migrate_fd_close_,  \* files closed by other threads
    wakefd_,     \* is wakefd_ >= 0
    eventfd,     \* is the eventfd readable
    asap_,       \* the driver's own queue
    ran,         \* history: the posts the driver has run, in order
    dpc,         \* where driver::loop is
    batch,       \* finish_migrate's local copies of the two lists
    block,       \* the timeout the driver computed is not zero
    ppc,         \* where each poster is
    posted       \* how many posts each poster has begun

driver_vars == <<asap_, ran, dpc, batch, block>>
poster_vars == <<ppc, posted>>
lists == <<migrate_, migrate_fd_close_>>
vars == <<lock_, lists, wakefd_, eventfd, driver_vars, poster_vars>>

Posts == Posters \X (1 .. MaxPosts)

Free == [lock |-> FALSE, nonempty |-> FALSE]

\* lock_.load() != 0
Busy == lock_ # Free

DriverLabels == {"import", "swap", "unlock", "run", "timeout", "arm", "recheck", "wait",
                 "woken", "returned", "drain"}
PosterLabels == {"idle", "lock", "append", "unlock", "stored", "overtook", "write", "late"}

Init ==
    /\ lock_ = Free
    /\ migrate_ = << >> /\ migrate_fd_close_ = << >>
    /\ wakefd_ = FALSE
    /\ eventfd = FALSE
    /\ asap_ = << >>
    /\ ran = << >>
    /\ dpc = "import"
    /\ batch = [asap |-> << >>, close |-> << >>]
    /\ block = FALSE
    /\ ppc = [p \in Posters |-> "idle"]
    /\ posted = [p \in Posters |-> 0]

-----------------------------------------------------------------------------
(* The posting thread: migrate_asap, migrate_fd_close, migrate_wake. *)

Goto(p, label) == ppc' = [ppc EXCEPT ![p] = label]

\* A trigger() or close() on this thread concerns the driver.
Post(p) ==
    /\ ppc[p] = "idle"
    /\ posted[p] < MaxPosts
    /\ posted' = [posted EXCEPT ![p] = @ + 1]
    /\ Goto(p, "lock")
    /\ UNCHANGED <<lock_, lists, wakefd_, eventfd>>
    /\ UNCHANGED driver_vars

\* lock(): spin, then compare-and-swap.
Lock(p) ==
    /\ ppc[p] = "lock"
    /\ ~lock_.lock
    /\ lock_' = [lock_ EXCEPT !.lock = TRUE]
    /\ Goto(p, "append")
    /\ UNCHANGED <<lists, wakefd_, eventfd, posted>>
    /\ UNCHANGED driver_vars

EmplaceBack(p) ==
    /\ ppc[p] = "append"
    /\ \/ /\ p \notin Closers
          /\ migrate_' = Append(migrate_, <<p, posted[p]>>)
          /\ UNCHANGED migrate_fd_close_
       \/ /\ p \in Closers
          /\ migrate_fd_close_' = Append(migrate_fd_close_, <<p, posted[p]>>)
          /\ UNCHANGED migrate_
    /\ Goto(p, "unlock")
    /\ UNCHANGED <<lock_, wakefd_, eventfd, posted>>
    /\ UNCHANGED driver_vars

\* The release store of unlock(df | df_nonempty) reaches memory, before or
\* after the thread's load of wakefd_.
Flush(p) ==
    /\ \/ ppc[p] = "unlock" /\ Goto(p, "stored")
       \/ ppc[p] = "overtook" /\ Goto(p, "write")
       \/ ppc[p] = "late" /\ Goto(p, "idle")
    /\ lock_' = [lock |-> FALSE, nonempty |-> TRUE]
    /\ UNCHANGED <<lists, wakefd_, eventfd, posted>>
    /\ UNCHANGED driver_vars

\* wakefd_.load(seq_cst)
LoadWakefd(p) ==
    /\ \/ ppc[p] = "stored" /\ Goto(p, IF wakefd_ THEN "write" ELSE "idle")
       \/ ppc[p] = "unlock" /\ Goto(p, IF wakefd_ THEN "overtook" ELSE "late")
    /\ UNCHANGED <<lock_, lists, wakefd_, eventfd, posted>>
    /\ UNCHANGED driver_vars

\* ::write(wakefd, ...)
WriteEventfd(p) ==
    /\ ppc[p] = "write"
    /\ eventfd' = TRUE
    /\ Goto(p, "idle")
    /\ UNCHANGED <<lock_, lists, wakefd_, posted>>
    /\ UNCHANGED driver_vars

Poster(p) == Lock(p) \/ EmplaceBack(p) \/ Flush(p) \/ LoadWakefd(p) \/ WriteEventfd(p)

-----------------------------------------------------------------------------
(* The driver thread: driver::loop, finish_migrate, watch_fds. *)

\* The relaxed test of lock_ at the top of the loop.
Import ==
    /\ dpc = "import"
    /\ dpc' = IF Busy THEN "swap" ELSE "run"
    /\ UNCHANGED <<lock_, lists, wakefd_, eventfd, asap_, ran, batch, block, poster_vars>>

\* Mutant: the lists are taken without the lock.
Swap_NoSpin ==
    /\ dpc = "swap"
    /\ lock_' = [lock_ EXCEPT !.lock = TRUE]
    /\ batch' = [asap |-> migrate_, close |-> migrate_fd_close_]
    /\ migrate_' = << >> /\ migrate_fd_close_' = << >>
    /\ dpc' = "unlock"
    /\ UNCHANGED <<wakefd_, eventfd, asap_, ran, block, poster_vars>>

\* lock() and the two swaps.
Swap ==
    /\ dpc = "swap"
    /\ ~lock_.lock
    /\ lock_' = [lock_ EXCEPT !.lock = TRUE]
    /\ batch' = [asap |-> migrate_, close |-> migrate_fd_close_]
    /\ migrate_' = << >> /\ migrate_fd_close_' = << >>
    /\ dpc' = "unlock"
    /\ UNCHANGED <<wakefd_, eventfd, asap_, ran, block, poster_vars>>

\* unlock(flags & ~df_nonempty); events join asap_, closes are handled at once.
FinishMigrate ==
    /\ dpc = "unlock"
    /\ lock_' = Free
    /\ asap_' = asap_ \o batch.asap
    /\ ran' = ran \o batch.close
    /\ batch' = [asap |-> << >>, close |-> << >>]
    /\ dpc' = "run"
    /\ UNCHANGED <<lists, wakefd_, eventfd, block, poster_vars>>

\* driver_trigger for one event of asap_, its coroutines included.
RunAsap ==
    /\ dpc = "run"
    /\ asap_ # << >>
    /\ ran' = Append(ran, Head(asap_))
    /\ asap_' = Tail(asap_)
    /\ UNCHANGED <<lock_, lists, wakefd_, eventfd, dpc, batch, block, poster_vars>>

RanAsap ==
    /\ dpc = "run"
    /\ asap_ = << >>
    /\ dpc' = "timeout"
    /\ UNCHANGED <<lock_, lists, wakefd_, eventfd, asap_, ran, batch, block, poster_vars>>

\* Compute the timeout; without user files a zero timeout skips watch_fds.
Timeout ==
    /\ dpc = "timeout"
    /\ block' = ~Busy
    /\ \/ dpc' = "arm"
       \/ Busy /\ dpc' = "import"
    /\ UNCHANGED <<lock_, lists, wakefd_, eventfd, asap_, ran, batch, poster_vars>>

\* wakefd_.store(epoll_wakefd_, seq_cst)
Arm ==
    /\ dpc = "arm"
    /\ wakefd_' = TRUE
    /\ dpc' = "recheck"
    /\ UNCHANGED <<lock_, lists, eventfd, asap_, ran, batch, block, poster_vars>>

\* Mutant: no second look at lock_.
Recheck_Skipped ==
    /\ dpc = "recheck"
    /\ dpc' = "wait"
    /\ UNCHANGED <<lock_, lists, wakefd_, eventfd, asap_, ran, batch, block, poster_vars>>

\* lock_.load(seq_cst): something came in since the timeout was computed.
Recheck ==
    /\ dpc = "recheck"
    /\ block' = (block /\ ~Busy)
    /\ dpc' = "wait"
    /\ UNCHANGED <<lock_, lists, wakefd_, eventfd, asap_, ran, batch, poster_vars>>

\* epoll_wait returns, with the eventfd in the batch if it is readable.
EpollWait ==
    /\ dpc = "wait"
    /\ block => eventfd
    /\ dpc' = IF eventfd THEN "woken" ELSE "returned"
    /\ UNCHANGED <<lock_, lists, wakefd_, eventfd, asap_, ran, batch, block, poster_vars>>

\* epoll_wait returns for another reason: a signal, a user file, the hour.
OtherReturn ==
    /\ dpc = "wait"
    /\ block /\ ~eventfd
    /\ dpc' = "returned"
    /\ UNCHANGED <<lock_, lists, wakefd_, eventfd, asap_, ran, batch, block, poster_vars>>

\* wakefd_.store(-1, relaxed)
Disarm ==
    /\ dpc \in {"woken", "returned"}
    /\ wakefd_' = FALSE
    /\ dpc' = IF dpc = "woken" THEN "drain" ELSE "import"
    /\ UNCHANGED <<lock_, lists, eventfd, asap_, ran, batch, block, poster_vars>>

\* ::read(epoll_wakefd_, ...)
Drain ==
    /\ dpc = "drain"
    /\ eventfd' = FALSE
    /\ dpc' = "import"
    /\ UNCHANGED <<lock_, lists, wakefd_, asap_, ran, batch, block, poster_vars>>

Driver == \/ Import \/ Swap \/ FinishMigrate \/ RunAsap \/ RanAsap \/ Timeout \/ Arm
          \/ Recheck \/ EpollWait \/ Disarm \/ Drain

Next == Driver \/ OtherReturn \/ \E p \in Posters : Post(p) \/ Poster(p)

Spec == Init /\ [][Next]_vars

\* Both threads are scheduled.  Nothing makes epoll_wait return but the eventfd.
FairSpec == Spec /\ WF_vars(Driver) /\ \A p \in Posters : WF_vars(Poster(p))

-----------------------------------------------------------------------------
(* Correctness. *)

\* Every variable keeps its type.
TypeOK ==
    /\ lock_ \in [lock : BOOLEAN, nonempty : BOOLEAN]
    /\ migrate_ \in Seq(Posts) /\ migrate_fd_close_ \in Seq(Posts)
    /\ wakefd_ \in BOOLEAN /\ eventfd \in BOOLEAN
    /\ asap_ \in Seq(Posts) /\ ran \in Seq(Posts)
    /\ batch \in [asap : Seq(Posts), close : Seq(Posts)]
    /\ dpc \in DriverLabels /\ block \in BOOLEAN
    /\ ppc \in [Posters -> PosterLabels]
    /\ posted \in [Posters -> 0 .. MaxPosts]

\* Thread p has work on the lists and will write the eventfd or see wakefd_ clear.
WillWrite(p) == ppc[p] \in {"unlock", "stored", "overtook", "write"}

\* The driver never sleeps on work: whenever it is blocked in epoll_wait with
\* something on its lists, the eventfd is readable or a thread is on its way to
\* write it, although poster and driver look at each other's flag unlocked.
NoLostWakeup ==
    dpc = "wait" /\ block /\ ~eventfd /\ (migrate_ # << >> \/ migrate_fd_close_ # << >>)
        => \E p \in Posters : WillWrite(p)

\* Every post is run, although the driver blocks for ever when nothing wakes it.
PostRuns ==
    \A p \in Posters : \A n \in 1 .. MaxPosts :
        posted[p] >= n ~> \E i \in 1 .. Len(ran) : ran[i] = <<p, n>>

=============================================================================
