------------------------------- MODULE RWLock -------------------------------
(***************************************************************************)
(* What cotamer::mutex promises its users: a readers-writer lock serviced  *)
(* strictly in order of arrival.  A request that finds somebody waiting,   *)
(* or a lock it cannot share, waits behind all others; only whoever waits  *)
(* longest is served; a try that succeeds never overtakes a waiting        *)
(* request; a waiting request may be withdrawn.                            *)
(*                                                                         *)
(* Where requests are withdrawn by other threads, one may be in the course *)
(* of queueing behind a request that is just being withdrawn, so that it   *)
(* waits although it would not have to (Eager).                            *)
(***************************************************************************)

CONSTANTS
    Clients,
    Eager     \* does a request wait only if it has to

VARIABLES
    holder,   \* holder[c]: the mode in which c holds the lock, or "none"
    wants,    \* wants[c]: the mode in which c waits for it, or "none"
    ahead     \* the pairs of waiting clients of which the first asked first

vars == <<holder, wants, ahead>>

Modes == {"excl", "shared"}

Free(m) ==
    \A c \in Clients : holder[c] = "none" \/ (m = "shared" /\ holder[c] = "shared")

Waiting == {c \in Clients : wants[c] # "none"}
First(c) == c \in Waiting /\ \A d \in Waiting : <<d, c>> \notin ahead

Init ==
    /\ holder = [c \in Clients |-> "none"]
    /\ wants = [c \in Clients |-> "none"]
    /\ ahead = {}

Acquire(c, m) ==
    /\ holder[c] = "none"
    /\ Waiting = {} /\ Free(m)
    /\ holder' = [holder EXCEPT ![c] = m]
    /\ UNCHANGED <<wants, ahead>>

Enqueue(c, m) ==
    /\ holder[c] = "none" /\ c \notin Waiting
    /\ Eager => Waiting # {} \/ ~Free(m)
    /\ wants' = [wants EXCEPT ![c] = m]
    /\ ahead' = ahead \cup (Waiting \X {c})
    /\ UNCHANGED holder

\* c waits no longer.
Leave(c) ==
    /\ wants' = [wants EXCEPT ![c] = "none"]
    /\ ahead' = {p \in ahead : p[1] # c /\ p[2] # c}

Serve(c) ==
    /\ First(c)
    /\ Free(wants[c])
    /\ holder' = [holder EXCEPT ![c] = wants[c]]
    /\ Leave(c)

Withdraw(c) ==
    /\ c \in Waiting
    /\ Leave(c)
    /\ UNCHANGED holder

Release(c) ==
    /\ holder[c] # "none"
    /\ holder' = [holder EXCEPT ![c] = "none"]
    /\ UNCHANGED <<wants, ahead>>

ServeFirst == \E c \in Clients : Serve(c)

Next ==
    \/ \E c \in Clients, m \in Modes : Acquire(c, m) \/ Enqueue(c, m)
    \/ ServeFirst
    \/ \E c \in Clients : Withdraw(c) \/ Release(c)

Spec == Init /\ [][Next]_vars

\* Whoever waits longest and can be served is served.
FairSpec == Spec /\ WF_vars(ServeFirst)

=============================================================================
