------------------------------ MODULE FdClose ------------------------------
(***************************************************************************)
(* File descriptors: the reference-counted fd_body, the drivers that watch *)
(* it, their kernel registrations, and closing.                            *)
(*                                                                         *)
(* An fd_body may be held and closed on any thread while several drivers   *)
(* have its descriptor number registered with epoll.  close() only marks   *)
(* the body; every driver then removes its registration on its own thread  *)
(* (a remote one when it imports migrate_fd_close_), and the last to do so *)
(* closes the operating system's file, whose number may be reused at once. *)
(* fd_event_set tags registrations with epochs, so that a kernel event     *)
(* collected for a file that was closed since does not wake the watchers   *)
(* of the next file with that number.                                      *)
(*                                                                         *)
(* Each driver has a thread of its own, and a thread does one thing after  *)
(* the other: jobs[d] is what it has begun and not finished.  A coroutine  *)
(* may run before any event of a batch, because the batch may hold events  *)
(* of files that the model leaves out.                                     *)
(***************************************************************************)
EXTENDS Naturals, Sequences, FiniteSets, SequencesExt

CONSTANTS
    Drivers,     \* the threads, each with its driver
    Bodies,      \* the fd_body objects, each for a file of its own
    Numbers,     \* the operating system's descriptor numbers
    Watches,     \* the readiness events
    Kinds,       \* fdevent: what a watch may ask for
    MaxRef,      \* bound on the copies of an fd
    Serial,      \* do threads not watch and close an fd at the same time
    None         \* no body, no number, no registration

Masks == (SUBSET Kinds) \ {{}}
Registrations == [file : Bodies, epoch : Nat, mask : Masks]

ASSUME FdAssumption ==
    /\ IsFiniteSet(Drivers) /\ IsFiniteSet(Numbers)
    /\ MaxRef \in Nat \ {0} /\ Serial \in BOOLEAN
    /\ None \notin Bodies \union Numbers \union Drivers \union Registrations

VARIABLES
    os,          \* the file that each number names: a body, or None
    body,        \* the fd_body objects
    held,        \* the copies of each fd that each thread holds
    fdrec,       \* fd_event_set::fdrs_ of each driver
    dirty,       \* the update list of each fd_event_set
    fdctl,       \* driver::fdctl_: the mask that was registered
    kernel,      \* epoll's registrations: file, epoch and mask, or None
    batch,       \* fd_batch: the kernel events not yet processed
    migrate,     \* driver::migrate_fd_close_
    jobs,        \* what each thread still has to do before anything else
    watch,       \* the readiness events
    failed       \* an epoll_ctl failed, or a watch met another open body

thread == <<batch, migrate, jobs>>
kset == <<fdrec, dirty, fdctl, kernel>>
vars == <<os, body, held, kset, thread, watch, failed>>

user_epoch == 2

\* A readiness event that nobody waits for any more.
Done(s) == [st |-> s, on |-> None, mask |-> {}]

Job(op, b, k, x) == [op |-> op, body |-> b, fd |-> k, to |-> x]

BodyRecords == [open : BOOLEAN, base : Numbers \union {None}, ref : Nat,
                drivers : SUBSET Drivers, life : {"new", "live", "deleted"}]
FdRecords == [body : Bodies \union {None}, epoch : Nat, watches : SUBSET Watches]
KernelEvents == [fd : Numbers, file : Bodies, epoch : Nat, mask : Masks]
Jobs == [op : {"watch", "sub", "close", "notify", "post"}, body : Bodies \union {None},
         fd : Numbers \union {None}, to : Drivers \union Watches \union {None}]
WatchRecords == [st : {"new", "adding", "pending", "dropped", "ready", "closed"},
                 on : Bodies \union {None}, mask : SUBSET Kinds]

\* Every variable keeps its type.
TypeOK ==
    /\ os \in [Numbers -> Bodies \union {None}]
    /\ body \in [Bodies -> BodyRecords]
    /\ held \in [Drivers -> [Bodies -> Nat]]
    /\ fdrec \in [Drivers -> [Numbers -> FdRecords]]
    /\ dirty \in [Drivers -> SUBSET Numbers]
    /\ fdctl \in [Drivers -> [Numbers -> SUBSET Kinds]]
    /\ kernel \in [Drivers -> [Numbers -> Registrations \union {None}]]
    /\ batch \in [Drivers -> Seq(KernelEvents)]
    /\ migrate \in [Drivers -> Seq(Numbers)]
    /\ jobs \in [Drivers -> Seq(Jobs)]
    /\ watch \in [Watches -> WatchRecords]
    /\ failed \in BOOLEAN

Init ==
    /\ os = [k \in Numbers |-> None]
    /\ body = [b \in Bodies |-> [open |-> FALSE, base |-> None, ref |-> 0,
                                 drivers |-> {}, life |-> "new"]]
    /\ held = [d \in Drivers |-> [b \in Bodies |-> 0]]
    /\ fdrec = [d \in Drivers |-> [k \in Numbers |->
                   [body |-> None, epoch |-> 0, watches |-> {}]]]
    /\ dirty = [d \in Drivers |-> {}]
    /\ fdctl = [d \in Drivers |-> [k \in Numbers |-> {}]]
    /\ kernel = [d \in Drivers |-> [k \in Numbers |-> None]]
    /\ batch = [d \in Drivers |-> << >>]
    /\ migrate = [d \in Drivers |-> << >>]
    /\ jobs = [d \in Drivers |-> << >>]
    /\ watch = [w \in Watches |-> [st |-> "new", on |-> None, mask |-> {}]]
    /\ failed = FALSE

-----------------------------------------------------------------------------
(* What the program does with an fd on the thread of driver d. *)

Idle(d) == jobs[d] = << >>

Holds(d, b) == Idle(d) /\ held[d][b] > 0

\* fd(fileno): a new file, under any free number.
Open(d, b, k) ==
    /\ Idle(d) /\ body[b].life = "new" /\ os[k] = None
    /\ os' = [os EXCEPT ![k] = b]
    /\ body' = [body EXCEPT ![b] = [open |-> TRUE, base |-> k, ref |-> 1,
                                    drivers |-> {}, life |-> "live"]]
    /\ held' = [held EXCEPT ![d][b] = 1]
    /\ UNCHANGED <<kset, thread, watch, failed>>

\* fd(const fd&): a copy, for a coroutine of this or another thread.
Copy(d, b, d2) ==
    /\ Holds(d, b) /\ body[b].ref < MaxRef
    /\ body' = [body EXCEPT ![b].ref = @ + 1]
    /\ held' = [held EXCEPT ![d2][b] = @ + 1]
    /\ UNCHANGED <<os, kset, thread, watch, failed>>

\* With Serial, no other thread is in the middle of one of ops on b.
Alone(d, b, ops) ==
    Serial => \A d2 \in Drivers \ {d} : \A i \in DOMAIN jobs[d2] :
                 jobs[d2][i].body = b => jobs[d2][i].op \notin ops

\* driver::file_event loads fileno(), and only then adds the watch.  On a closed fd
\* the event is in no list.
Watch(d, b, w, m) ==
    /\ Holds(d, b) /\ body[b].open /\ watch[w].st = "new"
    /\ Alone(d, b, {"close"})
    /\ watch' = [watch EXCEPT ![w] = [st |-> "adding", on |-> b, mask |-> m]]
    /\ jobs' = [jobs EXCEPT ![d] = <<Job("watch", b, body[b].base, w)>>]
    /\ UNCHANGED <<os, body, held, kset, batch, migrate, failed>>

\* The coroutine that awaits the event is destroyed: event_body::empty().
Forget(w) ==
    /\ watch[w].st = "pending"
    /\ watch' = [watch EXCEPT ![w] = Done("dropped")]
    /\ UNCHANGED <<os, body, held, kset, thread, failed>>

\* fd::close(); on a closed fd it does nothing.
Close(d, b) ==
    /\ Holds(d, b) /\ body[b].open
    /\ Alone(d, b, {"watch"})
    /\ jobs' = [jobs EXCEPT ![d] = <<Job("close", b, None, None)>>]
    /\ UNCHANGED <<os, body, held, kset, batch, migrate, watch, failed>>

\* ~fd(): fd_body::deref loads ref_ and only then acts on it, whatever the other
\* threads do with their copies in between.
Deref(d, b) ==
    /\ Holds(d, b)
    /\ held' = [held EXCEPT ![d][b] = @ - 1]
    /\ jobs' = [jobs EXCEPT ![d] =
                  <<Job(IF body[b].ref = 1 THEN "close" ELSE "sub", b, None, d)>>]
    /\ UNCHANGED <<os, body, kset, batch, migrate, watch, failed>>

-----------------------------------------------------------------------------
(* The rest of close(), deref() and notify_close(). *)

Begun(d, op) == jobs[d] # << >> /\ Head(jobs[d]).op = op

\* fd_event_set::watch.  The record holds another body only if the program took the
\* number twice; the code then drops the old one's watches.
WatchAdd(d) ==
    /\ Begun(d, "watch")
    /\ LET b == Head(jobs[d]).body
           k == Head(jobs[d]).fd
           w == Head(jobs[d]).to
           r == fdrec[d][k]
       IN  /\ failed' = (failed \/ r.body \notin {None, b})
           /\ fdrec' = [fdrec EXCEPT ![d][k] = [body |-> b, epoch |-> r.epoch,
                                                watches |-> r.watches \union {w}]]
           /\ body' = [body EXCEPT ![b].drivers = @ \union {d}]
           /\ dirty' = [dirty EXCEPT ![d] = @ \union {k}]
           /\ watch' = [watch EXCEPT ![w].st = "pending"]
    /\ jobs' = [jobs EXCEPT ![d] = Tail(@)]
    /\ UNCHANGED <<os, held, fdctl, kernel, batch, migrate>>

\* ref_.fetch_sub(1)
DerefSub(d) ==
    /\ Begun(d, "sub")
    /\ body' = [body EXCEPT ![Head(jobs[d]).body].ref = @ - 1]
    /\ jobs' = [jobs EXCEPT ![d] = Tail(@)]
    /\ UNCHANGED <<os, held, kset, batch, migrate, watch, failed>>

\* ::close(k): the number is free, and epoll forgets the file.
OsClose(k) ==
    /\ os' = [os EXCEPT ![k] = None]
    /\ kernel' = [d \in Drivers |-> [kernel[d] EXCEPT ![k] = None]]

\* The body after close(), at the end of deref() or not; now: the file is closed.
Closed(r, now, deref) ==
    [r EXCEPT !.open = FALSE,
              !.base = IF now THEN None ELSE r.base,
              !.ref = IF deref THEN r.ref - 1 ELSE r.ref,
              !.life = IF deref /\ r.drivers = {} THEN "deleted" ELSE r.life]

\* Driver e is to remove its registration of number k; thread d tells it.
Notice(d, e, k) == Job(IF e = d THEN "notify" ELSE "post", None, k, e)

\* fd_body::close: the part under the lock, and all of it if no driver listens.
\* The drivers that listen are told one by one.
CloseBody(d) ==
    /\ Begun(d, "close")
    /\ LET b == Head(jobs[d]).body
           deref == Head(jobs[d]).to # None
           r == body[b]
           first == r.open
           listening == IF first THEN r.drivers ELSE {}
           now == first /\ listening = {}
       IN  /\ body' = [body EXCEPT ![b] = Closed(r, now, deref)]
           /\ IF now THEN OsClose(r.base) ELSE UNCHANGED <<os, kernel>>
           /\ \E order \in SetToSeqs(listening) :
                 jobs' = [jobs EXCEPT ![d] =
                            [i \in DOMAIN order |-> Notice(d, order[i], r.base)]]
    /\ UNCHANGED <<held, fdrec, dirty, fdctl, batch, migrate, watch, failed>>

\* Mutant: the driver is told only if it is this thread's.
Post_Lost(d) ==
    /\ Begun(d, "post")
    /\ jobs' = [jobs EXCEPT ![d] = Tail(@)]
    /\ UNCHANGED <<os, body, held, kset, batch, migrate, watch, failed>>

\* migrate_fd_close(base_fd) on another thread's driver.
Post(d) ==
    /\ Begun(d, "post")
    /\ migrate' = [migrate EXCEPT ![Head(jobs[d]).to] = Append(@, Head(jobs[d]).fd)]
    /\ jobs' = [jobs EXCEPT ![d] = Tail(@)]
    /\ UNCHANGED <<os, body, held, kset, batch, watch, failed>>

\* May epoll_ctl go from mask old to mask new for number k?
CtlFails(d, k, old, new) ==
    /\ old # new
    /\ IF old = {} THEN os[k] = None \/ kernel[d][k] # None ELSE kernel[d][k] = None

\* Mutants: the first driver that leaves closes the file; the last one to leave
\* deletes the body whoever refers to it.
LastListener_First(b, d) == TRUE

Deletable_Always(b) == TRUE

\* remove_listener: the driver that leaves is the last one.
LastListener(b, d) == body[b].drivers = {d}

\* remove_listener deletes a body without references when the last driver leaves.
Deletable(b) == body[b].ref = 0

\* The body after remove_listener(d); now: the file is closed.
Left(b, d, now) ==
    [body[b] EXCEPT !.drivers = body[b].drivers \ {d},
                    !.base = IF now THEN None ELSE body[b].base,
                    !.life = IF LastListener(b, d) /\ Deletable(b) THEN "deleted"
                             ELSE body[b].life]

\* driver::notify_close.  fd_close, which does nothing without a closed body in the
\* record, triggers the watches and clears the record; then the registration goes;
\* then remove_listener by the last driver closes the file.
NotifyClose(d) ==
    /\ Begun(d, "notify")
    /\ LET k == Head(jobs[d]).fd
           r == fdrec[d][k]
           b == r.body
           now == LastListener(b, d) /\ ~body[b].open
       IN  IF b = None \/ body[b].open
           THEN UNCHANGED <<os, body, kset, watch, failed>>
           ELSE
             /\ watch' = [w \in Watches |->
                   IF w \in r.watches /\ watch[w].st = "pending"
                   THEN Done("closed") ELSE watch[w]]
             /\ fdrec' = [fdrec EXCEPT ![d][k] =
                   [body |-> None, epoch |-> r.epoch + 1, watches |-> {}]]
             /\ dirty' = [dirty EXCEPT ![d] = @ \union {k}]
             /\ failed' = (failed \/ CtlFails(d, k, fdctl[d][k], {}))
             /\ fdctl' = [fdctl EXCEPT ![d][k] = {}]
             /\ body' = [body EXCEPT ![b] = Left(b, d, now)]
             /\ IF now THEN OsClose(k)
                ELSE kernel' = [kernel EXCEPT ![d][k] = None] /\ UNCHANGED os
    /\ jobs' = [jobs EXCEPT ![d] = Tail(@)]
    /\ UNCHANGED <<held, batch, migrate>>

Finish(d) == WatchAdd(d) \/ DerefSub(d) \/ CloseBody(d) \/ Post(d) \/ NotifyClose(d)

-----------------------------------------------------------------------------
(* The driver's loop. *)

\* finish_migrate
Import(d) ==
    /\ Idle(d) /\ batch[d] = << >> /\ migrate[d] # << >>
    /\ jobs' = [jobs EXCEPT ![d] =
                  [i \in DOMAIN migrate[d] |-> Job("notify", None, migrate[d][i], d)]]
    /\ migrate' = [migrate EXCEPT ![d] = << >>]
    /\ UNCHANGED <<os, body, held, kset, batch, watch, failed>>

\* watch_list_mask: what the live watches on k ask for.
WatchMask(d, k) ==
    UNION {watch[w].mask : w \in {x \in fdrec[d][k].watches : watch[x].st = "pending"}}

AtLeast(e, low) == IF e < low THEN low ELSE e

\* pop_update and apply_fd_update for every number on the update list.
ApplyUpdates(d) ==
    /\ Idle(d) /\ batch[d] = << >> /\ dirty[d] # {}
    /\ LET epoch(k) == IF WatchMask(d, k) = {} THEN fdrec[d][k].epoch + 1
                       ELSE AtLeast(fdrec[d][k].epoch, user_epoch)
           changed == {k \in dirty[d] : fdctl[d][k] # WatchMask(d, k)}
       IN  /\ fdrec' = [fdrec EXCEPT ![d] = [k \in Numbers |->
                 IF k \in dirty[d] THEN [fdrec[d][k] EXCEPT !.epoch = epoch(k)]
                 ELSE fdrec[d][k]]]
           /\ failed' = (failed \/ \E k \in changed :
                            CtlFails(d, k, fdctl[d][k], WatchMask(d, k)))
           /\ kernel' = [kernel EXCEPT ![d] = [k \in Numbers |->
                 IF k \notin changed THEN kernel[d][k]
                 ELSE IF WatchMask(d, k) = {} \/ os[k] = None THEN None
                 ELSE [file |-> os[k], epoch |-> epoch(k), mask |-> WatchMask(d, k)]]]
           /\ fdctl' = [fdctl EXCEPT ![d] = [k \in Numbers |->
                 IF k \in changed THEN WatchMask(d, k) ELSE fdctl[d][k]]]
    /\ dirty' = [dirty EXCEPT ![d] = {}]
    /\ UNCHANGED <<os, body, held, thread, watch>>

\* epoll_wait reports registered files that are ready, or all kinds on a hangup.
EpollWait(d) ==
    /\ Idle(d) /\ batch[d] = << >> /\ dirty[d] = {}
    /\ \E ready \in SUBSET {k \in Numbers : kernel[d][k] # None} : \E got \in [ready -> Masks] :
          /\ ready # {}
          /\ \A k \in ready : got[k] \subseteq kernel[d][k].mask \/ got[k] = Kinds
          /\ \E fds \in SetToSeqs(ready) :
                batch' = [batch EXCEPT ![d] = [i \in DOMAIN fds |->
                   [fd |-> fds[i], file |-> kernel[d][fds[i]].file,
                    epoch |-> kernel[d][fds[i]].epoch, mask |-> got[fds[i]]]]]
    /\ UNCHANGED <<os, body, held, kset, migrate, jobs, watch, failed>>

\* Mutant: take_watch_list looks at the number alone.
Fresh_Always(d, ev) == TRUE

\* take_watch_list: is the event of the registration that the record stands for?
Fresh(d, ev) == ev.epoch = fdrec[d][ev.fd].epoch

\* One event of the batch: the watches it satisfies trigger and leave the list.
Process(d) ==
    /\ Idle(d) /\ batch[d] # << >>
    /\ LET ev == Head(batch[d])
           taken == {w \in fdrec[d][ev.fd].watches :
                       watch[w].st = "dropped" \/ watch[w].mask \intersect ev.mask # {}}
       IN \/ /\ Fresh(d, ev) /\ taken # {}
             /\ fdrec' = [fdrec EXCEPT ![d][ev.fd].watches = @ \ taken]
             /\ dirty' = [dirty EXCEPT ![d] = @ \union {ev.fd}]
             /\ watch' = [w \in Watches |->
                   IF w \in taken /\ watch[w].st = "pending"
                   THEN Done("ready") ELSE watch[w]]
          \/ /\ ~Fresh(d, ev) \/ taken = {}
             /\ UNCHANGED <<fdrec, dirty, watch>>
    /\ batch' = [batch EXCEPT ![d] = Tail(@)]
    /\ UNCHANGED <<os, body, held, fdctl, kernel, migrate, jobs, failed>>

Loop(d) == Import(d) \/ ApplyUpdates(d) \/ Process(d)

Use(d) ==
    \/ \E b \in Bodies :
          \/ Close(d, b) \/ Deref(d, b)
          \/ \E k \in Numbers : Open(d, b, k)
          \/ \E d2 \in Drivers : Copy(d, b, d2)
          \/ \E w \in Watches, m \in Masks : Watch(d, b, w, m)

Next ==
    \/ \E d \in Drivers : Use(d) \/ Finish(d) \/ Loop(d) \/ EpollWait(d)
    \/ \E w \in Watches : Forget(w)

Spec == Init /\ [][Next]_vars

-----------------------------------------------------------------------------
(* Correctness. *)

\* "Otherwise epoll's EPOLL_CTL_DEL will fail": every epoll_ctl finds the
\* registration it expects, however closes on other threads, reuse of the number
\* and updates interleave; and no record meets a second open body.
CtlNeverFails == ~failed

\* A readiness event triggers because of its own file: by a kernel event of that
\* file, or by its being closed, never by a stale event or notice for its number.
RightFile ==
    [][\A w \in Watches :
         /\ watch[w].st = "pending" /\ watch'[w].st = "ready" =>
               \E d \in Drivers : batch[d] # << >> /\ Head(batch[d]).file = watch[w].on
         /\ watch[w].st = "pending" /\ watch'[w].st = "closed" =>
               ~body[watch[w].on].open]_vars

\* Driver d has been told, or is being told, that number k was closed.
Told(d, k) ==
    \/ \E i \in DOMAIN migrate[d] : migrate[d][i] = k
    \/ \E d2 \in Drivers : \E i \in DOMAIN jobs[d2] :
          jobs[d2][i].op \in {"notify", "post"} /\ jobs[d2][i].fd = k /\ jobs[d2][i].to = d

\* "Coroutines waiting on a closed fd will always wake up": as long as a driver has
\* a closed body in its table, with or without watches on it, the notice that
\* makes it trigger them and let go of the file is on its way to it. False of the
\* code without Serial: a watch may be added after the close that should wake it.
ClosedWakes ==
    \A d \in Drivers : \A k \in Numbers :
        /\ \A w \in fdrec[d][k].watches :
               watch[w].st = "pending" => fdrec[d][k].body = watch[w].on
        /\ fdrec[d][k].body # None /\ ~body[fdrec[d][k].body].open => Told(d, k)

\* A body that a thread holds or is about to act on, or that a driver listens to, is
\* not deleted, in whatever order threads drop and close their copies and drivers
\* let go of it; and an open body's number names no other file.
InUseAlive ==
    \A b \in Bodies :
        /\ body[b].life = "deleted" =>
              \A d \in Drivers :
                 /\ held[d][b] = 0 /\ \A i \in DOMAIN jobs[d] : jobs[d][i].body # b
                 /\ \A k \in Numbers : fdrec[d][k].body # b
        /\ body[b].open => os[body[b].base] = b

\* COTAMERIO.md: "When the last copy of the cotamer::fd is destroyed, the underlying
\* file descriptor is automatically closed." A body without copies is deleted and
\* its file closed, unless a thread is dropping it or a driver is still to let go.
\* False: two threads that drop the last two copies at once both load a count of 2.
LastDropCloses ==
    \A b \in Bodies : body[b].life # "new" /\ (\A d \in Drivers : held[d][b] = 0) =>
        \/ body[b].life = "deleted" /\ \A k \in Numbers : os[k] # b
        \/ \E d \in Drivers : \E i \in DOMAIN jobs[d] : jobs[d][i].body = b
        \/ ~body[b].open /\ body[b].drivers # {}

=============================================================================
