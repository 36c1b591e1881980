# A TLA+ development for cotamer

Cotamer is a C++23 coroutine library: one `driver` per thread runs coroutines
(`task<T>`), which wait for events, timers, file descriptors, mutexes and other
tasks. Events may be triggered, descriptors closed and mutexes released on any
thread. On top of it are socket calls, an HTTP connection, a libcurl driver and
examples. This directory holds TLA+ modules that model the library's concurrent
core, these layers and the consensus example, TLC configurations that check them
on small instances, and TLAPS proofs for instances of any size. `PROJECT.json` lists, for every definition, the
source lines it models.

## 1. The system

| Component | Source | State | Operations | Interacts with |
|---|---|---|---|---|
| events | `cotamer_impl.hh` `event_body`, `event_handle` | `flags_` (spinlock, triggered, empty), `refcount_`, `listeners_` | trigger, add/remove listener, copy, drop | coroutines and quorums listen; drivers keep handles |
| quorums | `quorum_event_body` | `members_`, `triggered_`, `quorum_` | `any`, `all`, `trigger_member`, `cull_members`, `hard_deref` | listens to members and locks them; members lock it |
| driver loop | `cotamer.cc` `driver::loop` | `asap_`, `timed_`, `keepalives_`, `guard_count_`, `clearing_`, `snow_` | loop, poll, asap, at/after, keepalive, clear, driver_guard | runs coroutines; imports what other threads post |
| cross-thread wakeup | `migrate_asap`, `migrate_wake`, `finish_migrate`, `watch_fds` | `lock_`, `migrate_`, `migrate_fd_close_`, `wakefd_`, the eventfd | post, import, arm, block, drain | trigger and close on other threads |
| file descriptors | `fd_body`, `io.cc` | atomic `ref_`, `fd_`, the drivers that listen | copy, drop, close, add/remove listener | every driver's fd event set |
| fd event set | `event_handle.hh`, `io.cc` | per number: body, epoch, watch list; update list; kernel registrations | watch, apply updates, take ready events, fd_close | epoll, kqueue or poll |
| mutex, guards | `mutex`, `unique_lock`, `shared_lock` | the word `latch_`, the deque `waiters_`, `owned_` | lock, try, unlock in both modes; abandon | events of the waiters |
| timer heap | `timer_heap.hh` | 4-ary heap, order counter, empties | emplace, pop, cull | driver loop |
| tasks | `task_promise`, `resolve`, `forward`, `first`, `race`, `attempt`, `interest` | result, `awaiter_`, `forward_`, `resolving_`, resolution and interest events | call, await, start, detach, resolve, destroy | events and quorums, the driver that resumes them |
| byte transfer and sockets | `io.cc`, `io.hh` | the iovec list still to be moved; the lookup thread's result | connect, listen, accept; send and receive loops | descriptors, a detached thread |
| http | `http.cc`, `http.hh` | `receive_buffer_`, the parser, two pipelining mutexes | receive, send, chunks, tickets | mutex, transfer, llhttp |
| curl driver | `curl.cc` | `watches_`, `fds_`, `expiry_`, `next_timeout_` | callbacks, watch_task, timer_task, curl_fetch, curl_reset | descriptors, timers, libcurl |
| consensus example | `ctconsensus.cc`, `netsim.hh` | per server color, round, stash; per link a delay and a queue | rounds of four phases, receive with a stash, failure detector | tasks, `any`, timers |

What is hard in this code: threads interleave at single atomic accesses (the
mutex word, event flags, driver `lock_` against `wakefd_`, `fd_body::ref_`);
quorums and members lock each other in both directions; whoever finds a
reference count at zero deletes; kernel events and close notices are descriptor
numbers that may be reused before they are handled; abandoned lock attempts and
timers stay in their queues; `loop()` must neither sleep with work left nor
return while something keeps it; pipelined callers share one connection that
moves any number of bytes and may break; libcurl calls back from within calls
that coroutines make; messages of an earlier round arrive late. `PROJECT.json` lists these as hazards with
their lines.

What makes each component correct: no incompatible holders, FIFO service and
nobody left waiting (mutex); no wakeup lost and every post run (wakeup); time
jumps only when idle, timers fire, return exactly when nothing is left (loop);
registrations that the kernel accepts, watchers woken by their own file only
(descriptors); exact counting, no use after delete, no leak, no deadlock, no
stranded coroutine (events and quorums); timers by time and order of setting,
none lost (timer heap); no dangling pointer, no result lost past a resolution
point, nobody asleep on a finished task (tasks); no socket leaked (sockets);
each caller its own whole response or a justified error (http); watches and
timer as libcurl last asked, no task destroyed on its own stack (curl);
agreement and a decision once nobody is suspected (consensus).

## 2. Modules

| Module | Models | Composed with |
|---|---|---|
| `Mutex` | mutex and guards, at the granularity of atomic accesses | implements `RWLock` |
| `RWLock` | abstract: a strictly first-in first-out readers-writer lock | |
| `MutexProofs` | TLAPS proofs about `Mutex`, and that its steps are steps of `RWLock` | |
| `DriverWake` | posting to a driver that may be asleep | |
| `DriverWakeProofs` | TLAPS proofs about `DriverWake` | |
| `DriverLoop` | `driver::loop` with queue, timers, keepalives, clocks | |
| `DriverLoopProofs` | TLAPS proofs about `DriverLoop` | |
| `FdClose` | descriptors, kernel registrations, closing across threads | |
| `FdCloseProofs` | TLAPS proofs about `FdClose` | |
| `EventQuorum` | events, any/all, lifetimes, driver_trigger | |
| `EventQuorumProofs` | TLAPS proofs about `EventQuorum`: types and lifetimes | |
| `QuorumCountProofs` | TLAPS proofs about `EventQuorum`: when quorums trigger | extends `EventQuorumProofs` |
| `TaskLife` | tasks, resolution points, `forward`, `interest`, combinators | |
| `TimerHeap` | the heap of timers | implements `TimerQueue` |
| `TimerQueue` | abstract: timers come out by time and order of setting | |
| `Sockets` | connection set-up with the lookup threads | |
| `Transfer` | the loops of `sendmsg` and `recvmsg` over iovecs | |
| `Http` | `http_parser` at both ends of a connection | composes `Sockets` and `Transfer` |
| `HttpProofs` | TLAPS proofs about `Http` and `Sockets`, and about `CurlDriver` | |
| `CurlDriver` | `curl_driver` and `curl_fetch` against a free libcurl | |
| `CtConsensus` | Chandra-Toueg consensus over the network simulator | |
| `CtConsensusProofs` | TLAPS proofs about `CtConsensus` | |
| `MC*` | instances for TLC | extend the above |

**Mutex.** `latch_` is the word split into its bit fields; `waiters_` the deque,
with abandoned entries kept as the code keeps them; `pc`, `reg`, `op`, `mode`
are each coroutine's position and locals; `owned_` the guards' flags. Fast paths
are a load and a compare-and-swap; the slow path is latch, the `empty()` test
(`Notify`), `trigger()` (`Trigger`), the write of `owned_` (`Grant`), the
decision of `lock_impl` (`Decide`) and `Unlatch`. `CanRun` lets coroutines of one
driver switch only where they suspend.

**RWLock.** `holder` and `wants` say who has the lock and who waits, `ahead` who
of two waiting clients asked first. Only whoever waits longest is served, an
acquisition at once needs that nobody waits, waiters may withdraw. `Mutex!RW`
maps holders to the coroutines the lock is accounted to, and waiting clients to
those with a live entry in `waiters_` whose event is pending. With `Eager` a
request waits only if it has to; that holds of the mutex where no attempt is
abandoned. With abandoned attempts a coroutine may join the queue behind an entry
that is dead already.

**DriverWake.** Posters lock, append, unlock (a store that may become visible
late: `Flush`), load `wakefd_` and write the eventfd. The driver imports, runs,
computes its timeout, publishes `wakefd_` (`Arm`), looks at `lock_` again
(`Recheck`), blocks and drains. `batch` is `finish_migrate`'s local copy.

**DriverLoop.** A step is the stretch between two coroutine runs. While a
coroutine runs (`pc = "run"`) or outside `loop()` (`pc = "out"`), `Call` has all
the program may do. Real and virtual time are initial choices. `timed_` is the
set of the heap's entries with `order_` as its counter, and `Cull` what `cull()`
leaves of it. Files and other threads are left to the two neighbouring modules.

**FdClose.** `jobs[d]` is what a thread has begun, so that `deref`'s load and
subtraction, and the parts of `close()`, interleave with other threads, which may
drop their own copies meanwhile. With `Serial`, no thread closes a file that another is
just about to watch. One
number and two files make reuse happen. The kernel keeps file, epoch and mask
per registration; `batch` holds collected events, each processed after other
coroutines ran.

**EventQuorum.** `stack[t]` is the chain of calls of a thread, the innermost last: a
trigger informs quorums, which trigger or drop members, which may delete quorums.
A step ends the innermost call, or replaces it by the calls it makes and by what is
left of itself. Each step
begins where the code takes a lock or touches a shared word; work done while the
only lock concerned is held is one step. `Prompt`, `Serial` (`FdClose`) and
`GuardsSurvive` (`DriverLoop`) each leave one kind of behaviour in or out under
which a property is false of the code: with it there is a configuration that ends
in a violation (section 6), without it the passing runs show that nothing else
breaks the property.

**TaskLife.** `prom` holds each coroutine's promise fields under their names,
with its place in its body (`at`) and, for a combinator, `race_params`. Bodies
are data: `Script[p]` is a sequence of statements (call, `co_await` of an event,
a task or `forward(t)`, `interest{}`, `resolve{}`), `Args` and `Parent` say what
a combinator waits for and which frame owns which task. A combinator's body is
the loop `resolve`, `find`, `quorum` that `attempt`, `first` and `race` share.
Everything runs on one driver: `stack` has the nested coroutine runs and
`resolve()` calls, so that a `resolve()` in the middle of `find_resolved` or of
another `resolve()` is driven step by step. The program calls, starts, resolves,
detaches and destroys its tasks whenever the driver is back in its loop. A task
given to `forward()` lives until its wrapper ends; the code frees it at the end
of the `co_await` expression.

**TimerHeap.** `es_` is the array from 0 on; `SiftUp`, `SiftDown` and `HardCull`
are the code's loops. `wanted` stands for what `empty()` finds: an entry whose
timer is not wanted is empty. The random position of `emplace` is any position,
the size from which it culls is a constant. `DriverLoop` has its timers in a
set and uses of them what `TimerQueue` promises.

**Sockets, Transfer, Http.** `Sockets` has `tcp_connect`, `tcp_listen_all` and
`tcp_accept` with the detached `getaddrinfo` thread, the walk through the
addresses, a client that is cancelled by a timeout, and the failure of every call
whose result the code looks at: `socket`, `bind`, `listen`, `connect`,
`getsockopt`, `accept`, and the `fcntl` of `set_nonblocking`. The last throws
when the descriptor exists and no `fd` owns it yet (`io.cc:540`, `io.cc:601`,
`io.hh:300`): the exception ends the coroutine and the descriptor is in `leaked`
from then on. `sock` is what the two processes have open, `conn` the client's
socket that the kernel has connected, `gone` the ends of it that are closed;
what a coroutine holds follows from its place (`Held`). `Transfer` has what one
partial `sendmsg` or `recvmsg` leaves of an iovec list. `Http` runs both ends: a
connection is a bounded stream of units (first line, header block, piece of
body, chunk length, line end), any non-empty part of which a call moves. `mu`
holds the two mutexes as queues whose head has the lock, which is what
`Mutex!RefinesRWLock` allows on one driver; `receive_buffer_` keeps units that
belong to the next message. llhttp is external: it consumes one unit after the
other and stops at the end of a message. `AsHex` is how it reads the decimal
chunk length that `http.cc:648` writes; below ten units, as in the run, the two
agree.

**CurlDriver.** `stack` says which coroutine called libcurl. While it is there,
libcurl may make any legal callbacks (`socket_cb`, `timer_cb`, `opensocket_cb`,
`closesocket_cb`) any number of times, and finish transfers; then it returns.
`wants`, `due` and `messages` are libcurl's own view, which the properties
compare with the driver's.

**CtConsensus.** A server's `consensus()` is cut where it waits for a message
(`start`, `prepares`, `propose`, `acks`). `receive()`'s filtering, stash and
early end on a late round or a DECIDE are in the actions that take a packet.
Links keep their order, as the simulator's one delay per link does, and are not
ordered among each other. `sent` is a history variable. A failure detector may
suspect a leader at any time, at most `MaxTimeouts` times in all.

## 3. Runs

| Run | Bounds | States | Shows |
|---|---|---|---|
| `mutex_threads` | 3 coroutines on 3 threads | 21,406 | `MutualExclusion`, `WaitersHaveWaker`, `RefinesRWLock` |
| `mutex_cancel` | 3 guarded coroutines on one driver, 2 may abandon, queue of 4 | 15,985 | `GuardOwnsAfterLock`, `WaiterServed` |
| `driver_wake` | 2 posters, one closing files, 2 posts each | 31,062 | `NoLostWakeup`, `PostRuns` |
| `driver_loop` | 2 events, delays 1 and 3, quota 1, 1 guard | 300,536 | `JumpOnlyWhenIdle`, `KeepsRunning`, `TimerFires`, `ClearReturns`, `LoopReturns` |
| `fd_close` | 2 drivers, 2 files on 1 number, 2 watches, both kinds, 2 copies | 1,491,215 (symmetry) | `CtlNeverFails`, `ClosedWakes`, `InUseAlive`, `RightFile` |
| `event_quorum` | 2 threads, `any(all(e1,e2), e2, e2)` and 1 coroutine, or `e3` and 3 coroutines on 2 drivers, copies and drops | 537,610 | `NoDangling`, `NoLeak`, `QuorumExact`, `NobodyStranded`, `SomebodyMoves` |
| `timer_heap` | 10 timers at 2 times, arity 4, culling from size 9 on, counter wraps at 32, 2 empty entries | 569,355 | `CullFinds`, `RefinesTimerQueue` |
| `task_life` | 7 coroutines, 4 events: an awaited chain with `forward`, then `first(e, lazy forwarding task, program's task)` | 51,489 | `AwaitersLive`, `NothingLost`, `NobodyStuck`, `AwaitsDone`, `InterestServed` |
| `http` | 2 addresses, 2 pipelined requests, one answered in chunks, one that closes, streams of 2 units, 1 reset | 73,697 | `OwnResponse`, `NeverGarbled`, `ErrorsAreReal`, `SocketsHeld`, `SessionsEnd` |
| `http_ignored_ticket` | 1 request whose ticket is ignored | violation | finding 1: `Answered` |
| `curl` | 2 sockets, 2 fetches that may be cancelled, masks in and both, timeouts 0 and 1 | 277,769 | `NoSuicide`, `WatchesMatch`, `TimeoutKept`, `FetchEnds` |
| `consensus` | 3 servers, 2 colors in two initial colorings, 1 suspicion | 518,352 | `Agreement`, `ColorLocked`, `Terminates` |

The nine other configurations belong to no run: each shows, by a violation of one
property, where the code does not have it (section 6).

Why the bounds are enough to be interesting: three mutex users give a holder, a
head and somebody behind it in every mix of modes; abandoned entries can fill
the queue. Two posts per thread let a post meet each phase of the driver, and
the second round finds what the first left. Two events and a quota of one leave
work over after an iteration; delays 1 and 3 differ by more than a tick, so
virtual time both steps and jumps. One number and two files force reuse. In the
quorum instance `e2` is a direct member twice and a member of a member, so one
trigger reaches the outer quorum on two ways while the other thread triggers
`e1` or drops its handle. Instead of that (`QuorumOrCoroutines`, a state constraint),
three coroutines wait for `e3`, two of them of one driver, so that `driver_trigger`
claims one and must come back for the other. Nine entries are the least for which `hard_cull` moves
an entry
up (position 4 to 7, replaced by position 8), so the timer instance goes to ten,
from a heap of four; a `hard_cull` that forgets to move up is noticed by
`CullFinds`, while `RefinesTimerQueue` has one pop after such a cull and is about the
order of equal times. The task instance has each kind of await, a resolution
point a forward away from the combinator that must hear of it, a task that
triggers the combinator's event while it is being resolved, and an owner that
may be destroyed in every state; it starts the program's task by the combinator
or by hand, and a lazy task is found at `interest{}` by a `co_await`, by a
combinator and by `start()`. It does not nest `forward` inside `forward`, nor
`co_await` a task before it is at `interest{}`, which section 6 is about. Streams of two units are shorter than any message, so every send is cut
and a receive may end inside the next message; the second request is queued
behind the first at both mutexes. Two sockets suffice for one to be removed,
closed and reopened while the other's task is on the stack. One suspicion
is enough for a round that is left in any phase, a leader whose color was
accepted by some, and its late messages; the proofs have any number.

Symmetry is used in `fd_close` only (threads, files and watches are
interchangeable there and no liveness property is checked).

Deadlock checking is off where the system may really stop: safety runs whose
instances use each event, file, timer or coroutine once.

Each property of a passing run has a mutant (a definition whose name ends in
`_Something`, next to the one it changes): a plausible bug under which TLC finds
the property violated.

## 4. Fairness

- `Mutex!Fairness`: weak fairness of each coroutine's steps (threads run on, and
  a holder releases some day) and strong fairness of resuming and of releasing:
  coroutines of one driver compete, and its queue is first-in first-out. Nothing
  makes a coroutine ask for the lock or a timeout expire.
- `DriverWake!FairSpec`: the driver's and each poster's steps are weakly fair. A
  store becomes visible some day. No other descriptor wakes `epoll_wait`.
- `DriverLoop!FairSpec`: the loop runs on, a running coroutine suspends, the
  clock ticks. Nothing makes the program trigger, keep alive or clear.

- `Http!FairSpec`: lookups end, connection set-up goes on, and every coroutine
  whose call can make progress runs: the two drivers resume what is ready. The
  network need not break, and a lookup or a system call may still fail.
- `CurlDriver!CurlFairSpec`: libcurl's functions return, a timer that is set goes
  off, and a coroutine that was scheduled is reached by the driver's queue
  (strong fairness, as others run and callbacks re-arm the timer in between).
  The kernel need not report anything, nobody need cancel.
- `CtConsensus!FairSpec`: each server and Nancy take the packets that arrive. A
  detector need not suspect anybody, and stops after `MaxTimeouts`: that is the
  eventual accuracy that the algorithm asks of its failure detector.

  With it `SessionsEnd` says that all callers are answered and both ends close what
  they have, for good.

`FdClose`, `EventQuorum`, `TimerHeap` and `TaskLife` have safety properties only; what must
happen is stated as "somebody still has it to do" (`ClosedWakes`,
`NobodyStranded`, `NoLeak`, `SomebodyMoves`, `NobodyStuck`, `InterestServed`).

## 5. Proofs

All theorems hold for every value of the constants that satisfies the modules'
assumptions.

`MutexProofs` (`MutexTypeCorrect`, `MutexMutualExclusion`,
`MutexWaitersHaveWaker`, `MutexGuardOwns`), for any finite set of coroutines, any threads, guards
and abandoned attempts. None of the properties is inductive. The invariant adds
to `TypeOK`:
`LatchInv` (the latch bit stands for exactly one coroutine in the slow path),
`WordInv` (the current word, in memory or in that coroutine's hands, counts at
least the coroutines the lock is accounted to), `RegInv` and `FlowInv` (what the
local copies satisfy at each label), `EntryInv` (entries that are not abandoned
belong to waiting coroutines, one each), `QueueInv` (the next bits of a free
latch describe the queue, and a queue implies a holder) and `OwnedInv` (whose
guard flag may be set when). There is one lemma per action. `WordInv` bounds the
count from below only, which is what exclusion needs. `MutexGuardOwns` assumes
that all coroutines belong to one driver thread, since with two threads it is
false (section 6); it adds `AloneInv` (at most one coroutine is between two
suspension points) and `GuardInv` (a triggered request's guard is marked, or its
waker is about to mark it).

`MutexProofs`, second half (`MutexImplementsRWLock`: `Spec => RW!Spec`), for any
coroutines, threads, guards and abandoned attempts. Every action is classified by
what it does to the grants (`SameGrants`, `Gains`, `Loses`) and to the queue
(`SameQueue`, `Joins`, `Leaves`); the abstract step follows from the class. The
invariant adds to the one above `TriggeredInv` (the entry being granted waits no
longer), and, where nobody has a guard that may give up, `PatientInv` (no entry
is dead) and `ExactInv` (the word counts nobody but the grantees, the converse
of `WordInv`), from which it follows that whoever queues has to. The run checks
`RefinesRWLock`, which is `RW!FairSpec`: its fairness part stays with TLC.

`DriverWakeProofs` (`WakeTypeCorrect`, `WakeNoLostWakeup`), for any set of
posters and posts. The invariant adds `LockInv` (one owner of the lock bit),
`ListInv` (a list with work is announced, or its owner is about to announce it),
`SleepInv` (a driver that blocks has published `wakefd_` and found `lock_` zero
after that, so whoever announced since will write the eventfd) and `BegunInv`.
The heart is that `lock_` is non-zero from the poster's compare-and-swap on: a
driver that finds it zero after publishing `wakefd_` precedes the poster's load,
even if the poster's unlocking store is delayed past that load.

`DriverLoopProofs` (`LoopTypeCorrect`, `LoopJumpOnlyWhenIdle`,
`LoopKeepsRunning`), for any events, quota and delays. The two action properties
speak of the step that moves the clock and of the step that returns; the
invariant says what these steps find: `TopInv` (when the time is updated the top
of the heap is not dead, which needs that `cull()` ends with a live top:
`CullTop`, by the least-element principle), `KeptInv` (what was given to
`keepalive()` is triggered or still in `keepalives_`, although pruning cuts the
list at its last live entry: `KeepalivesKept`) and `GuardInv` (`guard_count_` is
the number of live guards unless a clear is under way). `LoopKeepsRunning`
assumes that no `driver_guard` outlives the loop that a clear ended; otherwise it
is false (section 6).

`FdCloseProofs` (`FdTypeCorrect`, `FdCtlNeverFails`, `FdClosedWakes`,
`FdInUseAlive`, `FdRightFile`), for any drivers, files, numbers, watches and
copies. All five assume `Serial`: no thread watches a body while another closes it.
Threads may drop their copies of one body at the same time. Without `Serial`
`FdClosedWakes` is false; that the last drop closes the file (`LastDropCloses`) is
false with it, too (section 6), so what is proved of the last drop is that nobody
is left with a deleted body, and not that the file is closed. The invariant has
one part per idea: `JobInv` and `TaskInv` (what a thread has begun can still be
finished), `BodyInv` (a body keeps its number until its last driver has let go
of it), `RecordInv` (numbers, bodies and the drivers' records name each other),
`KernelInv` (`fdctl_` mirrors the registrations, which are for the file that has
the number now), `RefInv` (`ref_` is the number of copies and of drops under way,
as the cardinality of a set of pairs so that no sum is needed),
`WatchInv`, `EpochInv` (an event with the record's epoch is of the record's
file) and `ToldInv` (a record of a closed body has a notice on its way). That no
`epoll_ctl` fails needs all of it: a number is reused only after the last
driver's notice, and by then its registration is gone. `FdRightFile` rests on
`EpochInv`: the epoch grows when a registration is taken back and when a record
lets its body go, so an event of another file is older than the record.

`EventQuorumProofs` (`QuorumTypeCorrect`, `QuorumNoDangling`, `QuorumNoLeak`), for
any threads, coroutines, events and quorums, and members nested and repeated in any
way. All assume `Prompt`: the store that ends `hard_deref` (`cotamer_impl.hh:675`)
follows its decrement before anybody else runs; without it `NoDangling` is false
(section 6). The invariant says
- which call may stand over which on a stack, and that whoever triggers an event has
  a handle of it (`ShapeInv`, `HandleInv`);
- what one body is like, and that `refcount_` is the number of handles, queue
  entries, suspended coroutines, member list entries and calls that refer to it, each
  kind the cardinality of a set of pairs (`BodyInv`, `RefInv`);
- that a lock belongs to one call, and a body is triggered by one (`LockInv`,
  `OnceInv`);
- that a member's list of quorums and the quorums' lists of members agree, but for
  what a trigger has still to inform (`LinkInv`);
- that a quorum that is dead or triggered keeps no untriggered member, except those
  that the cull under way has yet to visit (`CullInv`), that `ef_empty_members` is
  stale only while nobody but its maker knows the quorum (`NomemInv`), and that a
  quorum without references has only triggered members, whose triggers will find it,
  or a `hard_deref` still at work (`ZeroInv`);
- where a suspended coroutine is (`CoroutineInv`).

That nothing dangles is `RefInv` with these: a call without a reference of its own
stands over one that has, or holds the lock that a deleter needs. Every action is a
`Moves(t, b, new)`: the innermost call of `t` goes and `new` takes its place. There is
one lemma per part of the invariant that says which moves keep it, and one per
action.

`QuorumCountProofs` (`QuorumCountsExactly`), under the same assumption. `QuorumExact`
needs `CountInv`, on top of the invariant above: as long as a quorum can trigger,
`triggered_` is the number of arguments that have triggered and are neither in its
list nor still to be added by `make()`; later it is at most that; once the count is
reached, a `make` or `member_end` that will look is on some stack; and whoever
publishes found it reached. A body that is passed n times is n arguments, so counts
are cardinalities again. `make()` is the hard case, since it counts a triggered
argument without listing it while others trigger on other threads.

`HttpProofs`, first half (`HttpSocketsHeld`), for any addresses, requests, messages and
failures, those of `set_nonblocking` and `accept` included. `SocketsHeld` says that
the descriptors whose `set_nonblocking` threw are all that leaks. It is almost
inductive: it needs that the kernel's connection is of an address that `tcp_connect`
is at or has left (`ClientInv`), that the listener holds nothing before its lookup
ends or after it failed (`ServerInv`), and that whoever leaked a descriptor has ended
with the exception (`LeakInv`). Every step of a session is shown to do one of three
things to the sockets (`Moves`).

`HttpProofs`, second half (`CurlTypeCorrect`, `CurlNoSuicide`, `CurlWatchesMatch`,
`CurlTimeoutKept`, about `CurlDriver`), for any sockets, fetches, masks and timeouts, and any order of
libcurl's callbacks. The properties speak of the moments when libcurl is off the
stack. The invariant covers the calls: `CurrentInv` (`current_socket_` is set
exactly while that socket's `watch_task` is on the stack), `WatchInv` (the only
watch that may outlive libcurl's interest is the one on the stack) and `TimerInv`
(during `timer_task`'s call a new timeout is noted in `next_timeout_`, otherwise
in the armed, poked or fired `expiry_`).

`CtConsensusProofs` (`ConsensusTypeCorrect`, `ConsensusAgreement`,
`ConsensusColorLocked`), for any number of servers, colors and suspicions.
Agreement is not inductive: it depends on what was promised in messages sent
long before. The invariant adds to `TypeOK`: `NetInv` (what is on a link, stashed
or counted was sent), `ServerOK` (how a server's place, round and color relate to
what it sent), `PacketOK` (a PREPARE's color and round were accepted, and its
sender accepts nothing older any more; an ACK answers a proposal; a proposal is
safe; a DECIDE's color is chosen) and `Once` (one PREPARE and one ACK of a server
per round, one color per round). A color is safe at a round (`SafeAt`) if in each
earlier round it is the one proposed or that round is dead: most servers never
accepted and never will. The heart is `CollectSafe`'s argument: the leader
proposes the color with the highest round among the PREPAREs of most servers;
for the rounds between, these servers have moved on without accepting, and below
it the earlier proposal was safe. Two majorities meet, so a chosen color cannot
be dead. There is one lemma per kind of step, and lemmas for what a delivery and
a broadcast change.

Only model-checked: the liveness properties and the fairness of the refinement,
which are out of the prover's reach; `OwnResponse`, `NeverGarbled` and
`ErrorsAreReal` of `Http`, which depend on what a recursive function, the parser,
makes of a sequence of any length; everything about `TimerHeap`, whose loops are
recursive operators; `SomebodyMoves` of `EventQuorum`, which says `ENABLED`, and
`NobodyStranded`, which is false in general (section 6) and holds where no two
coroutines of one driver wait, one of them for a quorum;
and `TaskLife`, whose properties follow chains of awaiting and forwarding coroutines
of any length, which takes an induction.
Abandoned lock attempts on several threads are covered by the proofs; the runs
have them on one driver.

## 6. Findings

1. `send_request` (`http.cc:593`) locks `m_[0]` for the ticket it returns, and a
   dropped ticket does not unlock it, although COTAMERIO.md:483 says the ticket
   can be ignored without pipelining: the caller's `receive()` waits for ever
   (run `http_ignored_ticket`).

Shown by a configuration without a run of its own (`tlc -config <cfg> <module>`
reports the violation):

- `MCMutex_guard_threads.cfg`, `GuardOwnsAfterLock`: `notify_locked`
  (`cotamer.cc:289`) triggers the waiter before it writes the guard's `owned_`: a
  waiter on another thread may resume in between.
- `MCEventQuorum_stranded.cfg`, `NobodyStranded`: `trigger_unlock`
  (`cotamer_impl.hh:725`): a quorum triggered on the way of `driver_trigger(e)`
  does not post its coroutine of the same driver if another coroutine was claimed
  already; that coroutine never resumes.
- `MCTaskLife_interest.cfg`, `InterestServed`: `prepare_awaiter`
  (`cotamer_impl.hh:1036`) triggers an interest event that exists but does not
  record interest for later: a task that is awaited before it reaches
  `co_await interest{}` waits there for ever.
- `MCTaskLife_forward.cfg`, `AwaitsDone`: `prepare_awaiter`
  (`cotamer_impl.hh:1055`) resumes an awaitee whose `resolving_` flag was only
  passed on by an inner `forward`: it goes on past a `co_await` of a task that
  has no result.

- `MCFdClose_drops.cfg`, `LastDropCloses`: `fd_body::deref` (`cotamer_impl.hh:125`)
  loads and subtracts separately: two threads that drop the last two copies may
  both leave the file open, although COTAMERIO.md:12 says the last one closes it.
- `MCFdClose_watch.cfg` (`Serial = FALSE`), `ClosedWakes`: `file_event` reads the
  number before the body knows of the driver (`io.cc:118`): a close on another
  thread in between leaves a watch that nobody wakes.
- `MCEventQuorum_window.cfg` (`Prompt = FALSE`), `NoDangling`: `hard_deref`
  (`cotamer_impl.hh:675`) stores to the body after it gave up its reference.
- `MCDriverLoop_guard.cfg` (`GuardsSurvive = TRUE`), `LoopReturns`: a
  `driver_guard` that outlives a cleared loop takes `guard_count_` below zero
  (`cotamer.cc:197`), and the exit test asks for zero.
- `MCDriverLoop_quota.cfg`, `LeavesNoneRunnable`: the exit test (`cotamer.cc:116`)
  does not look at what the quota left in `asap_`, although COTAMER.md:261 says
  that `loop()` runs until there are no unblocked tasks.

The hazards at these lines name no property in `PROJECT.json` unless a passing run
has a part of them; their notes name the configuration.

Noted from reading: in virtual time `snow_` may go back
to the time of a timer that `step_time` has passed (`cotamer.cc:154`); a coroutine
destroyed while it awaits a task that somebody else owns leaves `awaiter_`
dangling (`cotamer_impl.hh:1040`); a detached task that forwards another one
stopped at `resolve{}` is never destroyed; `close()` works on a copy of the list
of drivers (`io.cc:102`), one of which may be destroyed meanwhile.

In the upper layers: `set_nonblocking` may throw before anybody owns the descriptor,
which leaks (`io.cc:540`, `io.cc:601`, `io.hh:300`; `curl.cc:119` guards against it;
the model has the leak); `send_response_chunk` writes a chunk's length in decimal
(`http.cc:648`); a response with neither body nor Content-Length does not say
where it ends; after a syntax error `llhttp_get_error_pos` stays set, and a later
`receive()` would count from it (`http.cc:539`); the copy constructor of
`http_message` does not copy `hpairs_`, and `do_clear` keeps `headers_`;
`curl_reset` during a fetch frees what the fetch still uses (`curl.cc:351`); a
`configure` callback that throws leaks the easy handle; sockets that libcurl did
not open through `opensocket_cb` are not watched (`curl.cc:151`).

## 7. Left out, and the plan

Left out in the modelled parts: `interest`, user flags, `arm()` and triggering a
quorum by hand (events); `set_clock` in mid-run, `reset` and the destructor
(driver); table growth, free lists, the kqueue and poll builds (fd event set);
guard moves and swaps; awaits across drivers, exceptions, cleared drivers,
`interest_event{}` and `attempt` of a mutex (tasks); UDP, and the single-buffer
read and write loops, which are the modelled loop with one iovec (transfer);
building messages and looking up their fields, upgrades, `clear()` and
`take_file()` (http); the Nancy who gives up after 10 s and the random delays
(consensus). Drivers are never destroyed while others post to them.

The order of the work, most important first:

1. done: mutex, wakeup, loop, descriptors, events and quorums, timers, tasks,
   sockets, http, curl, consensus; proofs of the safety of the mutex, its
   refinement's steps, the wakeup, the loop, the descriptors, the events and
   quorums, the curl driver, the sockets and the consensus.
2. Proofs: `AwaitersLive` of `TaskLife`, if its chains can be given a length.
3. `TaskLife`: exceptions and a cleared driver, which end a coroutine in the
   middle of its body.

Never: byte formats, logging, the vendored llhttp parser, tests and benchmarks,
and the other examples, which are request loops without state of their own.
`small_vector` is a sequential container; its uses appear as sets and sequences.
