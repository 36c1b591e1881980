------------------------------ MODULE Sockets ------------------------------
(***************************************************************************)
(* Connection set-up: tcp_connect at the client, tcp_listen_all and        *)
(* tcp_accept at the server (io.cc, io.hh).                                *)
(*                                                                         *)
(* Each end looks its address up in a detached thread and goes on when the *)
(* thread triggers its event.  The system calls (socket, fcntl, bind,      *)
(* listen, connect, accept, getsockopt) may fail wherever the code looks   *)
(* at the result.  set_nonblocking throws between the call that makes a    *)
(* descriptor and the cotamer::fd that would own it: such a descriptor is  *)
(* leaked.  A client may be cancelled by the timeout it races against.     *)
(***************************************************************************)
EXTENDS Integers, FiniteSets

CONSTANTS
    MaxAddrs,     \* bound: how many addresses a lookup returns
    MaxListen     \* the `max` of tcp_listen_all; 0: no limit

ASSUME SocketsAssumption == MaxAddrs \in Nat \ {0} /\ MaxListen \in Nat

Ends == {"client", "server"}
Other(e) == IF e = "client" THEN "server" ELSE "client"

VARIABLES
    lookup,       \* per end: the thread runs, or how many addresses it found
    dial,         \* tcp_connect: its place and the number of addresses behind it
    listening,    \* tcp_listen_all's and tcp_accept's place; the addresses listened on
    conn,         \* the client's socket that the kernel has connected to the server
    gone,         \* the ends of that connection which are closed
    sock,         \* the descriptors open in the two processes
    leaked        \* those whose set_nonblocking has thrown

sockVars == <<lookup, dial, listening, conn, gone, sock, leaked>>

Running == -1     \* the thread is in getaddrinfo
NotFound == 0     \* getaddrinfo's status is not 0; otherwise it finds at least one

Unconnected == <<"client", 0>>    \* there is no connection
Accepted == <<"server", 1>>

SocketsInit ==
    /\ lookup = [e \in Ends |-> Running]
    /\ dial = [at |-> "lookup", tried |-> 0]
    /\ listening = [at |-> "lookup", on |-> {}]
    /\ conn = Unconnected
    /\ gone = {}
    /\ sock = {}
    /\ leaked = {}

-----------------------------------------------------------------------------
\* The thread: getaddrinfo returns, and the thread triggers the event.
GetaddrinfoThread(e) ==
    /\ lookup[e] = Running
    /\ \E n \in NotFound .. MaxAddrs : lookup' = [lookup EXCEPT ![e] = n]
    /\ UNCHANGED <<dial, listening, conn, gone, sock, leaked>>

Found(e) == lookup[e] # Running

\* set_nonblocking(s) throws: the exception ends the coroutine, and nobody owns s.
Throws(s) ==
    /\ sock' = sock \cup {s}
    /\ leaked' = leaked \cup {s}

\* A descriptor closes, and with it its end of the connection.
Close(s) ==
    /\ sock' = sock \ {s}
    /\ gone' = gone \cup {e \in Ends : s = IF e = "client" THEN conn ELSE Accepted}

Listener(a) == <<"listen", a>>

\* The addresses the loop comes to before it has MaxListen sockets.
Reached(n, bound) ==
    {a \in 1 .. n : MaxListen = 0 \/ Cardinality({b \in bound : b < a}) < MaxListen}

\* tcp_listen_all, after the lookup and in one go: socket(), bind() and listen()
\* succeed for some addresses, and what was made for the others is closed.  If
\* set_nonblocking throws for an address, `result` closes those before it.
Listen ==
    /\ listening.at = "lookup"
    /\ Found("server")
    /\ \/ \E ok \in SUBSET (1 .. lookup["server"]) :
          LET bound == ok \cap Reached(lookup["server"], ok)
          IN  /\ listening' = [at |-> IF bound = {} THEN "failed" ELSE "listening", on |-> bound]
              /\ sock' = sock \cup {Listener(a) : a \in bound}
              /\ UNCHANGED leaked
       \/ \E a \in 1 .. lookup["server"] :
          /\ listening' = [listening EXCEPT !.at = "threw"]
          /\ Throws(Listener(a))
    /\ UNCHANGED <<lookup, dial, conn, gone>>

\* The socket that tcp_connect makes for its next address, and holds in `f`.
Dialling == <<"client", dial.tried + 1>>

\* tcp_connect is over for this address, and `f`, if there is one, closes.
NextAddress ==
    /\ dial' = [at |-> IF dial.tried + 1 = lookup["client"] THEN "failed" ELSE "next",
                tried |-> dial.tried + 1]
    /\ Close(Dialling)

\* The kernel makes a connection; this model follows one of them.
Connects ==
    /\ listening.at = "listening"
    /\ conn = Unconnected
    /\ conn' = Dialling

\* tcp_connect goes on after the lookup, or to the next address: socket() or
\* connect() fails at once, set_nonblocking throws, or the connection is in
\* progress or made at once.
Dial ==
    /\ dial.at = "next" \/ (dial.at = "lookup" /\ Found("client"))
    /\ \/ /\ lookup["client"] = NotFound
          /\ dial' = [dial EXCEPT !.at = "failed"]
          /\ UNCHANGED <<conn, gone, sock, leaked>>
       \/ /\ lookup["client"] # NotFound
          /\ NextAddress
          /\ UNCHANGED <<conn, leaked>>
       \/ /\ lookup["client"] # NotFound
          /\ dial' = [dial EXCEPT !.at = "threw"]
          /\ Throws(Dialling)
          /\ UNCHANGED <<conn, gone>>
       \/ /\ lookup["client"] # NotFound
          /\ \/ dial' = [dial EXCEPT !.at = "connecting"] /\ UNCHANGED conn
             \/ dial' = [dial EXCEPT !.at = "connected"] /\ Connects
          /\ sock' = sock \cup {Dialling}
          /\ UNCHANGED <<gone, leaked>>
    /\ UNCHANGED <<lookup, listening>>

\* The kernel ends the handshake; the client's driver does not know yet.
Establish ==
    /\ dial.at = "connecting"
    /\ Connects
    /\ UNCHANGED <<lookup, dial, listening, gone, sock, leaked>>

\* connect() is awake on writable(f): SO_ERROR is an error, or there is none.
Connect ==
    /\ dial.at = "connecting"
    /\ \/ NextAddress
       \/ /\ conn = Dialling
          /\ dial' = [dial EXCEPT !.at = "connected"]
          /\ UNCHANGED <<gone, sock>>
    /\ UNCHANGED <<lookup, listening, conn, leaked>>

\* Mutant: the timeout only stops waiting.
DialTimeout_KeepsSocket ==
    /\ dial.at \in {"lookup", "next", "connecting"}
    /\ dial' = [dial EXCEPT !.at = "failed"]
    /\ UNCHANGED <<lookup, listening, conn, gone, sock, leaked>>

\* The timeout comes first, perhaps after the handshake: the suspended
\* tcp_connect is destroyed with its `f`.  A thread that is still looking up has
\* its own references.
DialTimeout ==
    /\ dial.at \in {"lookup", "next", "connecting"}
    /\ dial' = [dial EXCEPT !.at = "failed"]
    /\ Close(Dialling)
    /\ UNCHANGED <<lookup, listening, conn, leaked>>

\* tcp_accept returns the connection in the backlog, perhaps one that the client
\* has closed; until there is one it awaits readable(listen_fd).
Accept ==
    /\ listening.at = "listening"
    /\ conn # Unconnected
    /\ listening' = [listening EXCEPT !.at = "accepted"]
    /\ sock' = sock \cup {Accepted}
    /\ UNCHANGED <<lookup, dial, conn, gone, leaked>>

\* ::accept fails, or set_nonblocking throws for what it returned: the exception
\* ends the server's coroutine, and its listening sockets close.  The kernel
\* resets the connection that was left in the backlog.
AcceptThrows ==
    /\ listening.at = "listening"
    /\ listening' = [at |-> "threw", on |-> {}]
    /\ LET open == sock \ {Listener(a) : a \in listening.on}
       IN  \/ /\ sock' = open
              /\ gone' = IF conn = Unconnected THEN gone ELSE gone \cup {"server"}
              /\ UNCHANGED leaked
           \/ /\ conn # Unconnected
              /\ sock' = open \cup {Accepted}
              /\ leaked' = leaked \cup {Accepted}
              /\ UNCHANGED gone
    /\ UNCHANGED <<lookup, dial, conn>>

SocketsNext ==
    \/ \E e \in Ends : GetaddrinfoThread(e)
    \/ Listen \/ Dial \/ Establish \/ Connect \/ DialTimeout \/ AcceptThrows

=============================================================================
