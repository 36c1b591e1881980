----------------------------- MODULE CurlDriver -----------------------------
(***************************************************************************)
(* curl_driver and curl_fetch (curl.cc): libcurl's multi interface on a    *)
(* driver thread.                                                          *)
(*                                                                         *)
(* libcurl is external.  While one of its functions is on the stack it may *)
(* make any callback that its rules allow, any number of times, before it  *)
(* returns; the coroutine that called it goes on then.  Everything here    *)
(* runs on one thread: coroutines are resumed with libcurl off the stack.  *)
(***************************************************************************)
EXTENDS Integers, FiniteSets, Functions

CONSTANTS
    Sockets,      \* descriptor numbers
    Fetches,      \* calls of curl_fetch
    Masks,        \* what libcurl wants to know of a socket: {"in"}, {"out"}, both
    Timeouts      \* timeouts libcurl asks for

ASSUME CurlAssumption ==
    /\ IsFiniteSet(Sockets) /\ IsFiniteSet(Fetches)
    /\ Masks \subseteq (SUBSET {"in", "out"}) \ {{}}
    /\ Timeouts \subseteq Nat
    /\ "none" \notin Sockets   \* CURL_SOCKET_BAD is no descriptor number

VARIABLES
    watches_,         \* per watched socket: mask, ev, and watch_task's copy of the fd
    fds_,             \* the numbers of curl's sockets
    current_socket_,
    expiry_,          \* the event timer_task waits for
    next_timeout_,
    fetch,            \* where each curl_fetch is
    stack,            \* who has called libcurl
    wants,            \* libcurl: what it last asked socket_cb for
    due,              \* libcurl: the timeout it counts on
    messages          \* libcurl: finished transfers not yet read

driverVars == <<watches_, fds_, current_socket_, expiry_, next_timeout_>>
curlVars == <<wants, due, messages>>
systemVars == <<driverVars, fetch, stack, curlVars>>

None == "none"
REMOVE == {}          \* CURL_POLL_REMOVE
NoTimeout == -1

Call(who, of) == [who |-> who, of |-> of]
Idle == Call(None, None)
InCurl == stack # Idle

Event(state, bits) == [state |-> state, bits |-> bits]
Never == [at |-> "never", t |-> NoTimeout]

CurlInit ==
    /\ watches_ = << >>
    /\ fds_ = {}
    /\ current_socket_ = None
    /\ expiry_ = Never
    /\ next_timeout_ = NoTimeout
    /\ fetch = [h \in Fetches |-> "idle"]
    /\ stack = Idle
    /\ wants = [s \in Sockets |-> REMOVE]
    /\ due = NoTimeout
    /\ messages = {}

Watched == DOMAIN watches_
Without(f, s) == Restrict(f, DOMAIN f \ {s})
With(f, s, v) == [x \in DOMAIN f \cup {s} |-> IF x = s THEN v ELSE f[x]]

-----------------------------------------------------------------------------
(* Callbacks: libcurl is on the stack. *)

\* The number is free: neither fds_ nor a watch_task has it open.
opensocket_cb(s) ==
    /\ InCurl
    /\ s \notin fds_ \cup Watched
    /\ fds_' = fds_ \cup {s}
    /\ UNCHANGED <<watches_, current_socket_, expiry_, next_timeout_, fetch, stack, curlVars>>

\* libcurl has stopped watching the socket before it closes it.  A watch_task that
\* is still there keeps the file open, but it is no longer curl's.
closesocket_cb(s) ==
    /\ InCurl
    /\ s \in fds_
    /\ wants[s] = REMOVE
    /\ fds_' = fds_ \ {s}
    /\ watches_' = [w \in Watched |-> IF w = s THEN [watches_[w] EXCEPT !.f = "forgotten"] ELSE watches_[w]]
    /\ UNCHANGED <<current_socket_, expiry_, next_timeout_, fetch, stack, curlVars>>

\* event::trigger by hand: no bits, and no effect on one that was triggered.
Poked(ev) == IF ev.state = "pending" THEN Event("triggered", {}) ELSE ev

\* A new watch_task runs up to its first co_await.
NewWatch(mask) == [mask |-> mask, ev |-> Event("pending", mask), f |-> "curl's"]

\* Mutant: a changed mask is only stored.
WatchAfter_NoPoke(s, what) ==
    IF what = REMOVE /\ s # current_socket_ THEN Without(watches_, s)
    ELSE IF s \in Watched THEN [watches_ EXCEPT ![s].mask = what]
    ELSE IF what # REMOVE THEN With(watches_, s, NewWatch(what))
    ELSE watches_

\* What socket_cb makes of watches_: it destroys the watch_task of another
\* socket, tells a running one of the change, or starts a new one.
WatchAfter(s, what) ==
    IF what = REMOVE /\ s # current_socket_ THEN Without(watches_, s)
    ELSE IF s \in Watched THEN [watches_ EXCEPT ![s].mask = what, ![s].ev = Poked(@)]
    ELSE IF what # REMOVE THEN With(watches_, s, NewWatch(what))
    ELSE watches_

socket_cb(s, what) ==
    /\ InCurl
    /\ s \in fds_
    /\ what # wants[s]
    /\ wants' = [wants EXCEPT ![s] = what]
    /\ watches_' = WatchAfter(s, what)
    /\ UNCHANGED <<fds_, current_socket_, expiry_, next_timeout_, fetch, stack, due, messages>>

\* Mutant: a timeout that comes while the timer goes off is not noted.
timer_cb_OnlyPending(t) ==
    /\ InCurl
    /\ due' = t
    /\ IF expiry_.at \in {"never", "armed"}
       THEN expiry_' = [expiry_ EXCEPT !.at = "poked"] /\ next_timeout_' = t
       ELSE UNCHANGED <<expiry_, next_timeout_>>
    /\ UNCHANGED <<watches_, fds_, current_socket_, fetch, stack, wants, messages>>

\* timer_task is woken, unless it is already, to take over the new timeout, which
\* may equal the last one.
timer_cb(t) ==
    /\ InCurl
    /\ due' = t
    /\ expiry_' = IF expiry_.at \in {"never", "armed"} THEN [expiry_ EXCEPT !.at = "poked"] ELSE expiry_
    /\ next_timeout_' = t
    /\ UNCHANGED <<watches_, fds_, current_socket_, fetch, stack, wants, messages>>

\* libcurl finishes a transfer, well or badly, and queues a message about it.
Finishes(h) ==
    /\ stack.who \in {"watch", "timer"}
    /\ fetch[h] = "pending"
    /\ h \notin messages
    /\ messages' = messages \cup {h}
    /\ UNCHANGED <<driverVars, fetch, stack, wants, due>>

-----------------------------------------------------------------------------
(* watch_task and timer_task. *)

\* Mutant: one message per call.
process_multi_Once ==
    \/ /\ messages = {}
       /\ UNCHANGED <<messages, fetch>>
    \/ \E h \in messages :
        /\ messages' = messages \ {h}
        /\ fetch' = [fetch EXCEPT ![h] = "told"]

\* Reads all messages and triggers their fetches' done events; the coroutines
\* are scheduled, not run.
process_multi ==
    /\ messages' = {}
    /\ fetch' = [h \in Fetches |-> IF h \in messages THEN "told" ELSE fetch[h]]

\* The kernel reports some of what watch_task asked for.
KernelReports(s) ==
    /\ ~InCurl
    /\ s \in Watched
    /\ watches_[s].ev.state = "pending"
    /\ \E bits \in SUBSET watches_[s].ev.bits \ {{}} :
        watches_' = [watches_ EXCEPT ![s].ev = Event("triggered", bits)]
    /\ UNCHANGED <<fds_, current_socket_, expiry_, next_timeout_, fetch, stack, curlVars>>

\* The top of watch_task's loop: a new file_event, or the end: it detaches
\* itself and erases its watch.
WatchAgain(s) ==
    watches_' = IF watches_[s].mask # REMOVE
                THEN [watches_ EXCEPT ![s].ev = Event("pending", watches_[s].mask)]
                ELSE Without(watches_, s)

\* Mutant: current_socket_ is not set.
WatchWakes_Unmarked(s) ==
    /\ ~InCurl
    /\ s \in Watched
    /\ watches_[s].ev.state = "triggered"
    /\ \/ /\ watches_[s].ev.bits = {}
          /\ WatchAgain(s)
          /\ UNCHANGED <<stack, current_socket_>>
       \/ /\ watches_[s].ev.bits # {}
          /\ stack' = Call("watch", s)
          /\ UNCHANGED <<watches_, current_socket_>>
    /\ UNCHANGED <<fds_, expiry_, next_timeout_, fetch, curlVars>>

\* watch_task resumes: poked, it starts over; with bits, it calls
\* curl_multi_socket_action.
WatchWakes(s) ==
    /\ ~InCurl
    /\ s \in Watched
    /\ watches_[s].ev.state = "triggered"
    /\ \/ /\ watches_[s].ev.bits = {}
          /\ WatchAgain(s)
          /\ UNCHANGED <<stack, current_socket_>>
       \/ /\ watches_[s].ev.bits # {}
          /\ stack' = Call("watch", s)
          /\ current_socket_' = s
          /\ UNCHANGED watches_
    /\ UNCHANGED <<fds_, expiry_, next_timeout_, fetch, curlVars>>

\* libcurl returns to watch_task.
WatchReturns(s) ==
    /\ stack = Call("watch", s)
    /\ s \in Watched
    /\ stack' = Idle
    /\ current_socket_' = None
    /\ process_multi
    /\ WatchAgain(s)
    /\ UNCHANGED <<fds_, expiry_, next_timeout_, wants, due>>

\* The timer goes off.
TimerFires ==
    /\ ~InCurl
    /\ expiry_.at = "armed"
    /\ expiry_' = [expiry_ EXCEPT !.at = "fired"]
    /\ UNCHANGED <<watches_, fds_, current_socket_, next_timeout_, fetch, stack, curlVars>>

\* The top of timer_task's loop.
TimerAgain ==
    /\ expiry_' = IF next_timeout_ = NoTimeout THEN Never ELSE [at |-> "armed", t |-> next_timeout_]
    /\ next_timeout_' = NoTimeout

\* timer_task resumes: poked, it starts over; otherwise it calls
\* curl_multi_socket_action, and libcurl no longer counts on a timeout.
TimerWakes ==
    /\ ~InCurl
    /\ \/ /\ expiry_.at = "poked"
          /\ TimerAgain
          /\ UNCHANGED <<stack, due>>
       \/ /\ expiry_.at = "fired"
          /\ stack' = Call("timer", None)
          /\ due' = NoTimeout
          /\ UNCHANGED <<expiry_, next_timeout_>>
    /\ UNCHANGED <<watches_, fds_, current_socket_, fetch, wants, messages>>

\* libcurl returns to timer_task.
TimerReturns ==
    /\ stack = Call("timer", None)
    /\ stack' = Idle
    /\ process_multi
    /\ TimerAgain
    /\ UNCHANGED <<watches_, fds_, current_socket_, wants, due>>

-----------------------------------------------------------------------------
(* curl_fetch. *)

\* The constructor of easy_guard adds the handle.
Fetch(h) ==
    /\ ~InCurl
    /\ fetch[h] = "idle"
    /\ fetch' = [fetch EXCEPT ![h] = "pending"]
    /\ stack' = Call("add", h)
    /\ UNCHANGED <<driverVars, curlVars>>

\* curl_fetch resumes after done, or is destroyed where it waits: the destructor
\* of easy_guard removes the handle, and libcurl forgets its message.
FetchLeaves(h) ==
    /\ ~InCurl
    /\ fetch[h] \in {"pending", "told"}
    /\ fetch' = [fetch EXCEPT ![h] = "leaving"]
    /\ stack' = Call("remove", h)
    /\ messages' = messages \ {h}
    /\ UNCHANGED <<driverVars, wants, due>>

\* curl_multi_add_handle or curl_multi_remove_handle returns.
FetchReturns(h) ==
    /\ \/ /\ stack = Call("add", h)
          /\ UNCHANGED fetch
       \/ /\ stack = Call("remove", h)
          /\ fetch' = [fetch EXCEPT ![h] = "done"]
    /\ stack' = Idle
    /\ UNCHANGED <<driverVars, curlVars>>

\* curl_reset with no fetch in flight: curl_multi_cleanup removes and closes the
\* sockets of cached connections, the tasks are destroyed.
curl_reset ==
    /\ ~InCurl
    /\ \A h \in Fetches : fetch[h] \in {"idle", "done"}
    /\ watches_' = << >>
    /\ fds_' = {}
    /\ expiry_' = Never
    /\ next_timeout_' = NoTimeout
    /\ wants' = [s \in Sockets |-> REMOVE]
    /\ due' = NoTimeout
    /\ UNCHANGED <<current_socket_, fetch, stack, messages>>

-----------------------------------------------------------------------------
Callback ==
    \/ \E s \in Sockets : opensocket_cb(s) \/ closesocket_cb(s)
    \/ \E s \in Sockets : \E what \in Masks \cup {REMOVE} : socket_cb(s, what)
    \/ \E t \in Timeouts \cup {NoTimeout} : timer_cb(t)
    \/ \E h \in Fetches : Finishes(h)

Returns ==
    \/ \E s \in Sockets : WatchReturns(s)
    \/ TimerReturns
    \/ \E h \in Fetches : FetchReturns(h)

CurlNext ==
    \/ Callback
    \/ Returns
    \/ \E s \in Sockets : KernelReports(s) \/ WatchWakes(s)
    \/ TimerFires \/ TimerWakes
    \/ \E h \in Fetches : Fetch(h) \/ FetchLeaves(h)
    \/ curl_reset

CurlSpec == CurlInit /\ [][CurlNext]_systemVars

\* libcurl's functions return, a timer that is set goes off, and the driver's
\* queue reaches every coroutine that was scheduled (SF: in between others run).
\* Nobody need cancel a fetch, and the kernel need not report anything.
CurlFairness ==
    /\ WF_systemVars(Returns)
    /\ SF_systemVars(TimerFires)
    /\ SF_systemVars(TimerWakes)
    /\ \A h \in Fetches : SF_systemVars(fetch[h] = "told" /\ FetchLeaves(h))

CurlFairSpec == CurlSpec /\ CurlFairness

-----------------------------------------------------------------------------
(* Correctness. *)

Watches == [mask : Masks \cup {REMOVE},
            ev : [state : {"pending", "triggered"}, bits : SUBSET {"in", "out"}],
            f : {"curl's", "forgotten"}]

Calls == {Idle, Call("timer", None)}
           \cup {Call("watch", s) : s \in Sockets}
           \cup {Call(what, h) : what \in {"add", "remove"}, h \in Fetches}

CurlTypeOK ==
    /\ Watched \subseteq Sockets /\ watches_ \in [Watched -> Watches]
    /\ fds_ \subseteq Sockets
    /\ current_socket_ \in Sockets \cup {None}
    /\ expiry_ \in [at : {"never", "armed", "fired", "poked"}, t : Timeouts \cup {NoTimeout}]
    /\ next_timeout_ \in Timeouts \cup {NoTimeout}
    /\ fetch \in [Fetches -> {"idle", "pending", "told", "leaving", "done"}]
    /\ stack \in Calls
    /\ wants \in [Sockets -> Masks \cup {REMOVE}]
    /\ due \in Timeouts \cup {NoTimeout}
    /\ messages \subseteq Fetches

\* A callback never destroys the watch_task on whose stack it runs.
NoSuicide == \A s \in Sockets : stack = Call("watch", s) => s \in Watched

\* When libcurl is off the stack, there is a watch_task for exactly the sockets
\* libcurl wants watched, for the file libcurl means by the number, and it waits
\* for what libcurl wants or has already been woken.
WatchesMatch ==
    ~InCurl =>
        /\ Watched = {s \in Sockets : wants[s] # REMOVE}
        /\ \A s \in Watched :
            /\ s \in fds_
            /\ watches_[s].f = "curl's"
            /\ watches_[s].mask = wants[s]
            /\ watches_[s].ev.state = "pending" => watches_[s].ev.bits = wants[s]

\* The timeout that libcurl counts on is the one that timer_task waits for or is
\* about to take over, whichever callback raced with the timer.
TimeoutKept ==
    ~InCurl /\ due # NoTimeout =>
        \/ expiry_.at = "armed" /\ expiry_.t = due
        \/ expiry_.at = "poked" /\ next_timeout_ = due
        \/ expiry_.at = "fired" /\ due \in {next_timeout_, expiry_.t}

\* A fetch whose transfer finished returns.
FetchEnds == \A h \in Fetches : h \in messages ~> fetch[h] = "done"

=============================================================================
