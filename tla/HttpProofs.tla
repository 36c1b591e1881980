----------------------------- MODULE HttpProofs -----------------------------
(***************************************************************************)
(* Proofs about the HTTP library and about the driver of libcurl, two      *)
(* systems that share nothing.                                             *)
(*                                                                         *)
(* Http and Sockets, for any requests, messages and numbers of addresses:  *)
(* the descriptors whose set_nonblocking threw are all that leaks, and no  *)
(* socket is closed under its user, whichever way a connection attempt, a  *)
(* listener's set-up or a session ends.                                    *)
(*                                                                         *)
(* CurlDriver, for any sockets, fetches and timeouts: the driver does what *)
(* libcurl last asked for.  Three properties speak of the moments when     *)
(* libcurl is off the stack; CurlInv says what holds in between, while     *)
(* libcurl makes its callbacks: the only watch_task that may outlive       *)
(* libcurl's interest is the one that has called libcurl, and in           *)
(* timer_task's call a new timeout is noted where timer_task will look for *)
(* it.                                                                     *)
(***************************************************************************)
EXTENDS Http, CurlDriver, TLAPS

Labels == {"accept", "idle", "sendlock", "sending", "ticket", "recv", "done", "closed"}
Places == {"lookup", "next", "connecting", "connected", "failed", "threw"}

\* The part of the state that decides which sockets are held.
HolderTypes ==
    /\ pc \in [Tasks -> Labels]
    /\ dial \in [at : Places, tried : Nat]
    /\ \E c \in Nat : c <= dial.tried + 1 /\ conn = <<"client", c>>

\* The kernel's connection is of the address that tcp_connect is at, or of an
\* earlier one, whose socket it has closed.
ClientInv ==
    /\ conn = Unconnected => "client" \notin gone
    /\ dial.at \in {"lookup", "next"} => conn # Dialling
    /\ dial.at = "connecting" /\ conn = Dialling => "client" \notin gone
    /\ dial.at = "connected" => conn = Dialling

\* The server's coroutine has passed tcp_accept when it has a connection, and
\* listens on nothing before tcp_listen_all is over.
ServerInv ==
    /\ listening.at \in {"lookup", "failed", "threw"} => listening.on = {}
    /\ listening.at = "accepted" <=> pc[Server] # "accept"

\* Whoever leaked a descriptor has ended with the exception.
LeakInv ==
    \A s \in leaked :
        \/ dial.at = "threw" /\ s = Dialling
        \/ listening.at = "threw" /\ (s = Accepted \/ \E a \in Nat : s = Listener(a))

IInv == HolderTypes /\ ClientInv /\ ServerInv /\ LeakInv /\ SocketsHeld

LEMMA ServerIsNoRequest == Server \in Tasks /\ Server \notin Requests
BY HttpAssumption DEF Server, Tasks

\* The sockets of the three parts are told apart by their names.
LEMMA SocketsDiffer ==
    /\ \A a : Listener(a) # Accepted
    /\ \A a, n : Listener(a) # <<"client", n>>
    /\ \A n : <<"client", n>> # Accepted
    /\ \A a, b : Listener(a) = Listener(b) => a = b
    /\ \A m, n : <<"client", m>> = <<"client", n>> => m = n
BY DEF Listener, Accepted

LEMMA InitIInv == Init => IInv
<1> SUFFICES ASSUME Init PROVE IInv  OBVIOUS
<1>0. pc[Server] = "accept" /\ pc \in [Tasks -> Labels]  BY ServerIsNoRequest DEF Init, Labels
<1>1. HolderTypes  BY <1>0 DEF Init, SocketsInit, HolderTypes, Places, Unconnected
<1>2. ClientInv /\ ServerInv /\ LeakInv
  BY <1>0 DEF Init, SocketsInit, ClientInv, ServerInv, LeakInv, Unconnected, Dialling
<1>3. SocketsHeld  BY <1>0 DEF Init, SocketsInit, SocketsHeld, Held
<1> QED  BY <1>1, <1>2, <1>3 DEF IInv

-----------------------------------------------------------------------------
(* Connection set-up. *)

\* tcp_connect drops what it holds: an attempt failed or was timed out.
LEMMA DropKeeps ==
    ASSUME IInv, dial.at \in {"lookup", "next", "connecting"}, Close(Dialling),
           dial'.at \in {"failed", "next"}, dial' \in [at : Places, tried : Nat],
           dial'.tried >= dial.tried, dial'.at = "next" => dial'.tried = dial.tried + 1,
           UNCHANGED <<pc, listening, conn, leaked>>
    PROVE  IInv'
<1> USE DEF IInv
<1>1. PICK c \in Nat : c <= dial.tried + 1 /\ conn = <<"client", c>>  BY DEF HolderTypes
<1>2. HolderTypes'  BY <1>1 DEF HolderTypes
<1>3. Dialling # Unconnected
  BY SocketsDiffer DEF Dialling, Unconnected, HolderTypes
<1>4. conn = Unconnected => "client" \notin gone'
  BY <1>3 DEF Close, ClientInv
<1>5. ClientInv'
  <2>1. dial'.at = "next" => conn # Dialling'
    BY <1>1, SocketsDiffer DEF Dialling, HolderTypes
  <2> QED  BY <1>4, <2>1 DEF ClientInv
<1>6. LeakInv' /\ ServerInv'  BY DEF LeakInv, ServerInv
<1>7. SocketsHeld'
  <2>1. Dialling \notin leaked
    BY SocketsDiffer DEF LeakInv, Dialling
  <2>2. Held' = Held \ {Dialling}
    BY SocketsDiffer DEF Held, Dialling
  <2> QED  BY <2>1, <2>2 DEF SocketsHeld, Close
<1> QED  BY <1>2, <1>5, <1>6, <1>7

\* tcp_listen_all and tcp_accept change only the server's sockets.
LEMMA ServerKeeps ==
    ASSUME IInv, UNCHANGED <<pc, dial, conn>>, "client" \in gone' <=> "client" \in gone,
           ServerInv', LeakInv', SocketsHeld'
    PROVE  IInv'
BY DEF IInv, HolderTypes, ClientInv, Dialling

LEMMA SetUpKeeps ==
    ASSUME IInv, SetUp
    PROVE  IInv'
<1> USE DEF IInv
<1>0. UNCHANGED pc  BY DEF SetUp, httpVars
<1>1. ASSUME NEW e \in Ends, GetaddrinfoThread(e) PROVE IInv'
  BY <1>0, <1>1 DEF GetaddrinfoThread, HolderTypes, ClientInv, ServerInv, LeakInv, SocketsHeld, Held, Dialling
<1>2. CASE Listen
  <2>1. listening.at = "lookup" /\ listening.on = {} /\ UNCHANGED <<dial, conn, gone>>
    BY <1>2 DEF Listen, ServerInv
  <2>2. \A a : Listener(a) \notin leaked  BY <2>1, SocketsDiffer DEF LeakInv, Dialling
  <2>3. Held = {s \in {Dialling} : dial.at = "connecting" \/ (dial.at = "connected" /\ "client" \notin gone)}
    BY <2>1 DEF Held
  <2>4. ASSUME NEW bound, listening' = [at |-> IF bound = {} THEN "failed" ELSE "listening", on |-> bound],
               sock' = sock \cup {Listener(a) : a \in bound}, UNCHANGED leaked
        PROVE  IInv'
    <3>1. ServerInv' /\ LeakInv'  BY <1>0, <2>1, <2>4, SocketsDiffer DEF ServerInv, LeakInv, Dialling
    <3>2. Held' = Held \cup {Listener(a) : a \in bound}
      BY <1>0, <2>1, <2>3, <2>4 DEF Held, Dialling
    <3>3. SocketsHeld'  BY <2>2, <2>4, <3>2 DEF SocketsHeld
    <3> QED  BY <1>0, <2>1, <3>1, <3>3, ServerKeeps
  <2>5. ASSUME NEW a \in 1 .. lookup["server"], a \in Nat, listening' = [listening EXCEPT !.at = "threw"], Throws(Listener(a))
        PROVE  IInv'
    <3>1. listening'.at = "threw" /\ listening'.on = {}  BY <2>1, <2>5 DEF ServerInv
    <3>2. ServerInv'  BY <1>0, <2>1, <3>1 DEF ServerInv
    <3>3. LeakInv'  BY <2>1, <2>5, <3>1 DEF LeakInv, Throws, Dialling
    <3>4. Held' = Held  BY <1>0, <2>1, <2>3, <3>1 DEF Held, Dialling
    <3>5. Listener(a) \notin Held  BY <2>3, SocketsDiffer DEF Dialling
    <3>6. SocketsHeld'  BY <2>5, <3>4, <3>5 DEF SocketsHeld, Throws
    <3> QED  BY <1>0, <2>1, <3>2, <3>3, <3>6, ServerKeeps
  <2>6. \A a \in 1 .. lookup["server"] : a \in Nat  OBVIOUS
  <2>7. CASE \E a \in 1 .. lookup["server"] :
               listening' = [listening EXCEPT !.at = "threw"] /\ Throws(Listener(a))
    BY <2>5, <2>6, <2>7, Zenon
  <2>8. CASE \E ok \in SUBSET (1 .. lookup["server"]) :
               LET bound == ok \cap Reached(lookup["server"], ok)
               IN  /\ listening' = [at |-> IF bound = {} THEN "failed" ELSE "listening", on |-> bound]
                   /\ sock' = sock \cup {Listener(a) : a \in bound}
                   /\ UNCHANGED leaked
    BY <2>4, <2>8, Zenon
  <2> QED  BY <1>2, <2>7, <2>8, Zenon DEF Listen
<1>3. ASSUME NextAddress, dial.at \in {"lookup", "next", "connecting"}, UNCHANGED <<listening, conn, leaked>>
      PROVE IInv'
  <2>1. /\ dial'.at \in {"failed", "next"} /\ dial'.tried = dial.tried + 1
        /\ Close(Dialling) /\ dial' \in [at : Places, tried : Nat]
    BY <1>3 DEF NextAddress, HolderTypes, Places
  <2>2. dial'.tried >= dial.tried  BY <2>1 DEF HolderTypes
  <2> QED  BY <1>0, <1>3, <2>1, <2>2, DropKeeps
<1>4. ASSUME NEW at \in {"connecting", "connected"}, dial.at \in {"lookup", "next"}, dial' = [dial EXCEPT !.at = at],
             sock' = sock \cup {Dialling}, UNCHANGED <<listening, gone, leaked>>,
             \/ at = "connecting" /\ UNCHANGED conn
             \/ conn = Unconnected /\ conn' = Dialling
      PROVE  IInv'
  <2>1. dial'.at = at /\ dial'.tried = dial.tried /\ dial' \in [at : Places, tried : Nat] /\ Dialling' = Dialling
    BY <1>4 DEF HolderTypes, Places, Dialling
  <2>2. HolderTypes'
    <3>1. CASE UNCHANGED conn  BY <1>0, <2>1, <3>1 DEF HolderTypes
    <3>2. CASE conn' = Dialling
      BY <1>0, <2>1, <3>2 DEF HolderTypes, Dialling
    <3> QED  BY <1>4, <3>1, <3>2
  <2>3. ClientInv'
    <3>1. Dialling # Unconnected  BY SocketsDiffer DEF Dialling, Unconnected, HolderTypes
    <3> QED  BY <1>4, <2>1, <3>1 DEF ClientInv
  <2>4. ServerInv' /\ LeakInv'  BY <1>0, <1>4, <2>1 DEF ServerInv, LeakInv
  <2>5. SocketsHeld'
    <3>1. Dialling \notin leaked  BY <1>4, SocketsDiffer DEF LeakInv, Dialling
    <3>2. at = "connected" => "client" \notin gone  BY <1>4 DEF ClientInv
    <3>3. Held' = Held \cup {Dialling}  BY <1>0, <1>4, <2>1, <3>2 DEF Held
    <3> QED  BY <1>4, <3>1, <3>3 DEF SocketsHeld
  <2> QED  BY <2>2, <2>3, <2>4, <2>5
<1>5. CASE Dial
  <2>0. dial.at \in {"next", "lookup"} /\ UNCHANGED listening  BY <1>5 DEF Dial
  <2>1. CASE dial' = [dial EXCEPT !.at = "failed"] /\ UNCHANGED <<conn, gone, sock, leaked>>
    <3>1. dial'.at = "failed" /\ dial'.tried = dial.tried /\ dial' \in [at : Places, tried : Nat]
      BY <2>1 DEF HolderTypes, Places
    <3>2. HolderTypes' /\ ClientInv' /\ ServerInv'
      BY <1>0, <2>0, <2>1, <3>1 DEF HolderTypes, ClientInv, ServerInv
    <3>3. LeakInv'  BY <2>0, <2>1 DEF LeakInv
    <3>4. Held' = Held  BY <1>0, <2>0, <2>1, <3>1 DEF Held
    <3> QED  BY <2>1, <3>2, <3>3, <3>4 DEF SocketsHeld
  <2>2. CASE NextAddress /\ UNCHANGED <<conn, leaked>>  BY <1>3, <2>0, <2>2
  <2>3. CASE dial' = [dial EXCEPT !.at = "threw"] /\ Throws(Dialling) /\ UNCHANGED <<conn, gone>>
    <3>1. /\ dial'.at = "threw" /\ dial'.tried = dial.tried /\ dial' \in [at : Places, tried : Nat]
          /\ Dialling' = Dialling
      BY <2>3 DEF HolderTypes, Places, Dialling
    <3>2. HolderTypes' /\ ClientInv' /\ ServerInv'
      BY <1>0, <2>0, <2>3, <3>1 DEF HolderTypes, ClientInv, ServerInv
    <3>3. LeakInv'  BY <2>0, <2>3, <3>1 DEF LeakInv, Throws
    <3>4. Held' = Held  BY <1>0, <2>0, <2>3, <3>1 DEF Held
    <3>5. Dialling \notin Held  BY <2>0, SocketsDiffer DEF Held, Dialling
    <3>6. SocketsHeld'  BY <2>3, <3>4, <3>5 DEF SocketsHeld, Throws
    <3> QED  BY <3>2, <3>3, <3>6
  <2>4. ASSUME \/ dial' = [dial EXCEPT !.at = "connecting"] /\ UNCHANGED conn
               \/ dial' = [dial EXCEPT !.at = "connected"] /\ Connects,
               sock' = sock \cup {Dialling}, UNCHANGED <<gone, leaked>>
        PROVE  IInv'
    BY <1>4, <2>0, <2>4 DEF Connects
  <2> QED  BY <1>5, <2>1, <2>2, <2>3, <2>4, Zenon DEF Dial
<1>6. CASE Establish
  <2>1. /\ conn = Unconnected /\ conn' = Dialling /\ dial.at = "connecting" /\ Dialling' = Dialling
        /\ UNCHANGED <<dial, listening, gone, sock, leaked>>
    BY <1>6 DEF Establish, Connects, Dialling
  <2>2. HolderTypes'
    BY <1>0, <2>1 DEF HolderTypes, Dialling
  <2>3. ClientInv' /\ ServerInv' /\ LeakInv'  BY <1>0, <2>1 DEF ClientInv, ServerInv, LeakInv
  <2>4. Held' = Held  BY <1>0, <2>1 DEF Held
  <2> QED  BY <2>1, <2>2, <2>3, <2>4 DEF SocketsHeld
<1>7. CASE Connect
  <2>0. dial.at = "connecting" /\ UNCHANGED <<listening, conn, leaked>>  BY <1>7 DEF Connect
  <2>1. CASE NextAddress  BY <1>3, <2>0, <2>1
  <2>2. CASE conn = Dialling /\ dial' = [dial EXCEPT !.at = "connected"] /\ UNCHANGED <<gone, sock>>
    <3>1. /\ dial'.at = "connected" /\ dial'.tried = dial.tried /\ dial' \in [at : Places, tried : Nat]
          /\ Dialling' = Dialling /\ "client" \notin gone
      BY <2>0, <2>2 DEF HolderTypes, Places, Dialling, ClientInv
    <3>2. HolderTypes' /\ ClientInv' /\ ServerInv' /\ LeakInv'
      BY <1>0, <2>0, <2>2, <3>1 DEF HolderTypes, ClientInv, ServerInv, LeakInv
    <3>3. Held' = Held  BY <1>0, <2>0, <2>2, <3>1 DEF Held
    <3> QED  BY <2>0, <2>2, <3>2, <3>3 DEF SocketsHeld
  <2> QED  BY <1>7, <2>1, <2>2 DEF Connect
<1>8. CASE DialTimeout
  <2>1. /\ dial.at \in {"lookup", "next", "connecting"} /\ Close(Dialling)
        /\ dial'.at = "failed" /\ dial'.tried = dial.tried /\ dial' \in [at : Places, tried : Nat]
        /\ UNCHANGED <<listening, conn, leaked>>
    BY <1>8 DEF DialTimeout, HolderTypes, Places
  <2>2. dial'.tried >= dial.tried  BY <2>1 DEF HolderTypes
  <2> QED  BY <1>0, <2>1, <2>2, DropKeeps
<1>9. CASE AcceptThrows
  <2>1. /\ listening.at = "listening" /\ listening'.at = "threw" /\ listening'.on = {}
        /\ UNCHANGED <<dial, conn>>
    BY <1>9 DEF AcceptThrows
  <2>2. PICK open : open = sock \ {Listener(a) : a \in listening.on}  OBVIOUS
  <2>3. \/ sock' = open /\ UNCHANGED leaked
        \/ sock' = open \cup {Accepted} /\ leaked' = leaked \cup {Accepted}
    BY <1>9, <2>2 DEF AcceptThrows
  <2>4. "client" \in gone' <=> "client" \in gone  BY <1>9 DEF AcceptThrows
  <2>5. ServerInv'  BY <1>0, <2>1 DEF ServerInv
  <2>6. LeakInv'  BY <2>1, <2>3 DEF LeakInv, Dialling
  <2>7. Held' = Held \ {Listener(a) : a \in listening.on} /\ Accepted \notin Held
    BY <1>0, <2>1, <2>4, SocketsDiffer DEF Held, Dialling
  <2>8. \A a : Listener(a) \notin leaked  BY <2>1, SocketsDiffer DEF LeakInv, Dialling
  <2>9. SocketsHeld'
    <3>1. leaked \cap {Listener(a) : a \in listening.on} = {}  BY <2>8
    <3> QED  BY <2>2, <2>3, <2>7, <3>1 DEF SocketsHeld
  <2> QED  BY <1>0, <2>1, <2>4, <2>5, <2>6, <2>9, ServerKeeps
<1> QED  BY <1>1, <1>2, <1>5, <1>6, <1>7, <1>8, <1>9 DEF SetUp, SocketsNext

-----------------------------------------------------------------------------
(* The session. *)

\* What a step of t may do to the sockets: t goes on, or the server's coroutine
\* ends and its end is closed.
Moves(t) ==
    \/ /\ \E l \in {"sendlock", "sending", "ticket", "recv", "done"} : Goto(t, l)
       /\ UNCHANGED <<gone, sock>>
    \/ t = Server /\ Goto(t, "closed") /\ CloseEnd("server")
    \/ UNCHANGED <<pc, gone, sock>>

LEMMA MoveKeeps ==
    ASSUME IInv, NEW t \in Tasks, pc[t] \notin {"accept", "closed"}, Moves(t),
           UNCHANGED <<dial, listening, conn, leaked>>
    PROVE  IInv'
<1> USE DEF IInv
<1>0. Dialling' = Dialling  BY DEF Dialling
<1>1. CASE UNCHANGED <<pc, gone, sock>>
  <2>1. Held' = Held  BY <1>0, <1>1 DEF Held
  <2>2. SocketsHeld'  BY <1>1, <2>1 DEF SocketsHeld
  <2> QED  BY <1>0, <1>1, <2>2 DEF HolderTypes, ClientInv, ServerInv, LeakInv
<1>2. ASSUME NEW l \in {"sendlock", "sending", "ticket", "recv", "done"}, Goto(t, l), UNCHANGED <<gone, sock>>
      PROVE IInv'
  <2>1. pc' \in [Tasks -> Labels]  BY <1>2 DEF Goto, HolderTypes, Labels
  <2>2. pc'[Server] \in {"accept", "closed"} <=> pc[Server] \in {"accept", "closed"}
    BY <1>2, ServerIsNoRequest DEF Goto, HolderTypes
  <2>3. ServerInv'  BY <1>2, ServerIsNoRequest DEF Goto, HolderTypes, ServerInv
  <2>4. Held' = Held  BY <1>0, <1>2, <2>2, ServerIsNoRequest DEF Held, Goto, HolderTypes
  <2>5. SocketsHeld'  BY <1>2, <2>4 DEF SocketsHeld
  <2> QED  BY <1>0, <1>2, <2>1, <2>3, <2>5 DEF HolderTypes, ClientInv, LeakInv
<1>3. CASE t = Server /\ Goto(t, "closed") /\ CloseEnd("server")
  <2>1. pc' \in [Tasks -> Labels] /\ pc'[Server] = "closed"  BY <1>3 DEF Goto, HolderTypes, Labels
  <2>2. ("client" \in gone' <=> "client" \in gone) /\ sock' = sock \ {Accepted}
    BY <1>3, SocketsDiffer DEF CloseEnd, Close, HolderTypes
  <2>3. listening.at = "accepted"  BY <1>3 DEF ServerInv
  <2>4. Accepted \notin leaked  BY <2>3, SocketsDiffer DEF LeakInv, Dialling
  <2>5. Held' = Held \ {Accepted}
    BY <1>0, <1>3, <2>1, <2>2, <2>3, SocketsDiffer DEF Held, Dialling
  <2>6. SocketsHeld'  BY <2>2, <2>4, <2>5 DEF SocketsHeld
  <2> QED  BY <1>0, <2>1, <2>2, <2>3, <2>6 DEF HolderTypes, ClientInv, ServerInv, LeakInv
<1> QED  BY <1>1, <1>2, <1>3 DEF Moves

LEMMA SendEnds ==
    ASSUME NEW t \in Tasks, AfterSend(t)
    PROVE  Moves(t)
<1>1. CASE t # Server
  <2>1. Goto(t, "ticket") /\ UNCHANGED <<gone, sock>>  BY <1>1, Zenon DEF AfterSend
  <2> QED  BY <2>1 DEF Moves
<1>2. CASE t = Server
  <2>1. \/ (Goto(t, "sendlock") \/ Goto(t, "ticket")) /\ UNCHANGED <<gone, sock>>
        \/ Goto(t, "closed") /\ CloseEnd(End(t))
    BY <1>2, Zenon DEF AfterSend
  <2>2. End(t) = "server"  BY <1>2 DEF End
  <2> QED  BY <1>2, <2>1, <2>2 DEF Moves
<1> QED  BY <1>1, <1>2

LEMMA ReceiveEnds ==
    ASSUME NEW t \in Tasks, NEW p, NEW m, NEW ok, AfterReceive(t, p, m, ok)
    PROVE  Moves(t)
<1>1. \/ (Goto(t, "sendlock") \/ Goto(t, "done")) /\ UNCHANGED <<gone, sock>>
      \/ t = Server /\ Goto(t, "closed") /\ CloseEnd(End(t))
  BY Zenon DEF AfterReceive
<1>2. ASSUME t = Server PROVE End(t) = "server"  BY <1>2 DEF End
<1> QED  BY <1>1, <1>2 DEF Moves

LEMMA StepKeeps ==
    ASSUME IInv, NEW t \in Tasks, Step(t)
    PROVE  IInv'
<1>1. pc[t] \in {"sendlock", "sending", "ticket", "recv"} /\ UNCHANGED <<dial, listening, conn, leaked>>
  <2>1. CASE SendLocked(t)  BY <2>1, Zenon DEF SendLocked, sockVars
  <2>2. CASE SendSome(t)  BY <2>2, Zenon DEF SendSome
  <2>3. CASE SendFails(t)  BY <2>3, Zenon DEF SendFails
  <2>4. CASE ReceiveLocked(t)  BY <2>4, Zenon DEF ReceiveLocked, sockVars
  <2>5. CASE RecvSome(t)  BY <2>5, Zenon DEF RecvSome
  <2>6. CASE RecvEnds(t)  BY <2>6, Zenon DEF RecvEnds
  <2> QED  BY <2>1, <2>2, <2>3, <2>4, <2>5, <2>6 DEF Step
<1>2. Moves(t)
  <2>1. CASE SendLocked(t)
    <3>1. Goto(t, "sending") /\ UNCHANGED <<gone, sock>>  BY <2>1, Zenon DEF SendLocked, sockVars
    <3> QED  BY <3>1 DEF Moves
  <2>2. CASE SendSome(t)
    <3>1. AfterSend(t) \/ UNCHANGED <<pc, gone, sock>>  BY <2>2, Zenon DEF SendSome
    <3> QED  BY <3>1, SendEnds DEF Moves
  <2>3. CASE SendFails(t)
    <3>1. AfterSend(t)  BY <2>3, Zenon DEF SendFails
    <3> QED  BY <3>1, SendEnds
  <2>4. CASE ReceiveLocked(t)
    <3>1. Goto(t, "recv") /\ UNCHANGED <<gone, sock>>  BY <2>4, Zenon DEF ReceiveLocked, sockVars
    <3> QED  BY <3>1 DEF Moves
  <2>5. CASE RecvSome(t)
    <3>1. \E data : Execute(t, data)  BY <2>5, Zenon DEF RecvSome
    <3>2. ASSUME NEW data, Execute(t, data)
          PROVE  UNCHANGED <<pc, gone, sock>> \/ \E p, m, ok : AfterReceive(t, p, m, ok)
      BY <3>2, Zenon DEF Execute
    <3> QED  BY <3>1, <3>2, ReceiveEnds DEF Moves
  <2>6. CASE RecvEnds(t)
    <3>1. \E p, m, ok : AfterReceive(t, p, m, ok)  BY <2>6, Zenon DEF RecvEnds
    <3> QED  BY <3>1, ReceiveEnds
  <2> QED  BY <2>1, <2>2, <2>3, <2>4, <2>5, <2>6 DEF Step
<1> QED  BY <1>1, <1>2, MoveKeeps

-----------------------------------------------------------------------------
LEMMA NextIInv == IInv /\ [Next]_vars => IInv'
<1> SUFFICES ASSUME IInv, [Next]_vars PROVE IInv'  OBVIOUS
<1> USE DEF IInv
<1>1. ASSUME NEW q \in Requests, SendRequest(q) PROVE IInv'
  <2>1. Goto(q, "sendlock") /\ pc[q] = "idle" /\ UNCHANGED <<dial, listening, conn, sock, gone, leaked>>
    BY <1>1, Zenon DEF SendRequest, sockVars
  <2> QED  BY <2>1, MoveKeeps DEF Moves, Tasks
<1>2. CASE Serve
  <2>1. /\ pc[Server] = "accept" /\ pc' = [pc EXCEPT ![Server] = "ticket"]
        /\ listening.at = "listening" /\ listening' = [listening EXCEPT !.at = "accepted"]
        /\ sock' = sock \cup {Accepted} /\ UNCHANGED <<dial, conn, gone, leaked>>
    BY <1>2, Zenon DEF Serve, Accept, Goto
  <2>2. pc' \in [Tasks -> Labels] /\ pc'[Server] = "ticket"
    BY <2>1, ServerIsNoRequest DEF HolderTypes, Labels
  <2>3. listening'.on = listening.on /\ (listening.on # {} => listening'.at = "accepted") /\ Dialling' = Dialling
    BY <2>1, <2>2 DEF ServerInv, Dialling
  <2>4. Accepted \notin leaked  BY <2>1, SocketsDiffer DEF LeakInv, Dialling
  <2>5. ServerInv'  BY <2>1, <2>2 DEF ServerInv
  <2>6. Held' = Held \cup {Accepted}  BY <2>1, <2>2, <2>3 DEF Held
  <2>7. SocketsHeld'  BY <2>1, <2>4, <2>6 DEF SocketsHeld
  <2> QED  BY <2>1, <2>2, <2>3, <2>5, <2>7 DEF HolderTypes, ClientInv, LeakInv
<1>3. CASE ClientCloses
  <2>1. dial.at = "connected" /\ Close(conn) /\ UNCHANGED <<dial, listening, conn, pc, leaked>>
    BY <1>3, Zenon DEF ClientCloses, CloseEnd
  <2>2. conn = Dialling /\ Dialling' = Dialling /\ conn # Unconnected
    BY <2>1, SocketsDiffer DEF ClientInv, Dialling, Unconnected, HolderTypes
  <2>3. sock' = sock \ {Dialling} /\ "client" \in gone'  BY <2>1, <2>2 DEF Close, Ends
  <2>4. Dialling \notin leaked  BY <2>1, SocketsDiffer DEF LeakInv, Dialling
  <2>5. Held' = Held \ {Dialling}  BY <2>1, <2>2, <2>3, SocketsDiffer DEF Held, Dialling
  <2>6. SocketsHeld'  BY <2>1, <2>3, <2>4, <2>5 DEF SocketsHeld
  <2> QED  BY <2>1, <2>2, <2>6 DEF HolderTypes, ClientInv, ServerInv, LeakInv
<1>4. ASSUME UNCHANGED <<dial, listening, conn, sock, pc, gone, leaked>> PROVE IInv'
  <2>1. Dialling' = Dialling  BY <1>4 DEF Dialling
  <2>2. Held' = Held  BY <1>4, <2>1 DEF Held
  <2> QED  BY <1>4, <2>1, <2>2 DEF HolderTypes, ClientInv, ServerInv, LeakInv, SocketsHeld
<1>5. CASE Reset  BY <1>4, <1>5, Zenon DEF Reset, sockVars
<1>6. CASE UNCHANGED vars  BY <1>4, <1>6, Zenon DEF vars, sockVars, httpVars
<1> QED  BY <1>1, <1>2, <1>3, <1>5, <1>6, SetUpKeeps, StepKeeps DEF Next

\* A socket is open exactly as long as tcp_connect, the listener or a parser
\* holds it, unless set_nonblocking threw for it (io.cc:540, io.cc:601,
\* io.hh:300): failed and cancelled attempts, a timeout that beats the answer to
\* a handshake, listeners that could not be bound and every end of a session
\* close what they opened, and nothing else.
THEOREM HttpSocketsHeld == Spec => []SocketsHeld
<1>1. IInv => SocketsHeld  BY DEF IInv
<1> QED  BY <1>1, InitIInv, NextIInv, PTL DEF Spec

-----------------------------------------------------------------------------
(* CurlDriver. *)

\* current_socket_ names the watch_task that has called libcurl, which exists.
CurrentInv ==
    /\ current_socket_ # None => stack = Call("watch", current_socket_)
    /\ \A s \in Sockets : stack = Call("watch", s) =>
          /\ current_socket_ = s
          /\ s \in Watched
          /\ watches_[s].ev.state = "triggered"

\* What libcurl wants watched is open, watched and up to date, and a watch_task
\* that libcurl no longer wants has called libcurl itself.
WatchInv ==
    \A s \in Sockets :
        /\ wants[s] # REMOVE => s \in Watched /\ s \in fds_
        /\ s \in Watched =>
              /\ watches_[s].mask = wants[s]
              /\ wants[s] = REMOVE => s = current_socket_
              /\ s \in fds_ => watches_[s].f = "curl's"
              /\ watches_[s].ev.state = "pending" => watches_[s].ev.bits = wants[s]

\* The timeout that libcurl counts on is where timer_task is going to find it.
TimerInv ==
    /\ stack = Call("timer", None) =>
          expiry_.at = "fired" /\ (due # NoTimeout => next_timeout_ = due)
    /\ stack # Call("timer", None) /\ due # NoTimeout =>
          \/ expiry_.at = "armed" /\ expiry_.t = due
          \/ expiry_.at = "poked" /\ next_timeout_ = due
          \/ expiry_.at = "fired" /\ due \in {next_timeout_, expiry_.t}

CurlInv == CurlTypeOK /\ CurrentInv /\ WatchInv /\ TimerInv
-----------------------------------------------------------------------------
\* Whose call of libcurl it is can be told from the stack.
LEMMA CallsDiffer ==
  /\ \A w1, o1, w2, o2 : Call(w1, o1) = Call(w2, o2) <=> w1 = w2 /\ o1 = o2
  /\ \A w, o : Call(w, o).who = w /\ Call(w, o).of = o
  BY DEF Call

LEMMA InitCurlInv == CurlInit => CurlInv
  <1> SUFFICES ASSUME CurlInit PROVE CurlInv OBVIOUS
  <1>1. Watched = {} /\ watches_ \in [Watched -> Watches]
    BY DEF CurlInit, Watched
  <1>2. CurlTypeOK
    BY <1>1, CurlAssumption DEF CurlInit, CurlTypeOK, Calls, Idle, Never
  <1>3. CurrentInv
    BY CallsDiffer DEF CurlInit, CurrentInv, Idle, None
  <1>4. WatchInv BY <1>1 DEF CurlInit, WatchInv
  <1>5. TimerInv BY CallsDiffer DEF CurlInit, TimerInv, Idle, None
  <1> QED BY <1>2, <1>3, <1>4, <1>5 DEF CurlInv

-----------------------------------------------------------------------------
(* The callbacks. *)

\* opensocket_cb: nobody watches the new socket yet.
LEMMA OpenStep ==
  ASSUME CurlInv, NEW s \in Sockets, opensocket_cb(s)
  PROVE  CurlInv'
  <1> USE DEF CurlInv, opensocket_cb, curlVars, Watched
  <1>1. CurlTypeOK' BY DEF CurlTypeOK
  <1>2. CurrentInv' BY DEF CurrentInv
  <1>3. WatchInv' BY DEF WatchInv
  <1>4. TimerInv' BY DEF TimerInv
  <1> QED BY <1>1, <1>2, <1>3, <1>4

\* closesocket_cb: a watch_task on the closed file has been told to end.
LEMMA CloseStep ==
  ASSUME CurlInv, NEW s \in Sockets, closesocket_cb(s)
  PROVE  CurlInv'
  <1> USE DEF CurlInv, closesocket_cb, curlVars
  <1>1. /\ Watched' = Watched
        /\ \A w \in Watched :
             /\ watches_'[w].mask = watches_[w].mask
             /\ watches_'[w].ev = watches_[w].ev
             /\ w # s => watches_'[w].f = watches_[w].f
    BY DEF Watched, CurlTypeOK, Watches
  <1>2. CurlTypeOK' BY <1>1 DEF CurlTypeOK, Watches, Watched
  <1>3. CurrentInv' BY <1>1 DEF CurrentInv
  <1>4. WatchInv' BY <1>1 DEF WatchInv
  <1>5. TimerInv' BY DEF TimerInv
  <1> QED BY <1>2, <1>3, <1>4, <1>5

\* What socket_cb makes of watches_, entry by entry.
LEMMA WatchAfterFacts ==
  ASSUME CurlInv, NEW s \in Sockets, NEW what \in Masks \cup {REMOVE},
         watches_' = WatchAfter(s, what)
  PROVE  /\ watches_' \in [Watched' -> Watches]
         /\ \A w \in Sockets \ {s} :
              (w \in Watched' <=> w \in Watched) /\ (w \in Watched => watches_'[w] = watches_[w])
         /\ s \in Watched' <=> what # REMOVE \/ (s \in Watched /\ s = current_socket_)
         /\ s \in Watched' =>
              /\ watches_'[s].mask = what
              /\ s \in Watched => /\ watches_'[s].ev = Poked(watches_[s].ev)
                                  /\ watches_'[s].f = watches_[s].f
              /\ s \notin Watched => watches_'[s] = NewWatch(what)
  <1> USE DEF CurlInv, CurlTypeOK, Watched
  <1>1. CASE what = REMOVE /\ s # current_socket_
    <2>1. watches_' = [x \in Watched \ {s} |-> watches_[x]]
      BY <1>1 DEF WatchAfter, Without, Restrict
    <2> QED BY <1>1, <2>1
  <1>2. CASE s \in Watched /\ ~(what = REMOVE /\ s # current_socket_)
    <2>1. watches_' = [watches_ EXCEPT ![s].mask = what, ![s].ev = Poked(watches_[s].ev)]
      BY <1>2 DEF WatchAfter
    <2>2. watches_'[s] = [watches_[s] EXCEPT !.mask = what, !.ev = Poked(watches_[s].ev)]
      BY <1>2, <2>1
    <2>3. Poked(watches_[s].ev) \in [state : {"pending", "triggered"}, bits : SUBSET {"in", "out"}]
      BY <1>2 DEF Poked, Event, Watches
    <2>4. what \in Masks \cup {REMOVE} /\ watches_[s] \in Watches BY <1>2
    <2>5. watches_'[s] \in Watches
      BY <2>2, <2>3, <2>4, ZenonT(60) DEF Watches
    <2>6. /\ watches_'[s].mask = what /\ watches_'[s].ev = Poked(watches_[s].ev)
          /\ watches_'[s].f = watches_[s].f
      BY <2>2, <2>4 DEF Watches
    <2>7. /\ DOMAIN watches_' = DOMAIN watches_
          /\ \A w \in DOMAIN watches_ : w # s => watches_'[w] = watches_[w]
      BY <2>1
    <2>8. watches_' \in [Watched' -> Watches] BY <2>1, <2>5, <2>7
    <2> QED BY <1>2, <2>6, <2>7, <2>8
  <1>3. CASE s \notin Watched /\ what # REMOVE
    <2>1. watches_' = With(watches_, s, NewWatch(what)) BY <1>3 DEF WatchAfter
    <2>2. NewWatch(what) \in Watches
      BY <1>3, CurlAssumption DEF NewWatch, Watches, Event
    <2>3. NewWatch(what).mask = what BY DEF NewWatch
    <2> QED BY <1>3, <2>1, <2>2, <2>3 DEF With
  <1>4. CASE s \notin Watched /\ what = REMOVE /\ s = current_socket_
    <2>1. watches_' = watches_ BY <1>4 DEF WatchAfter
    <2> QED BY <1>4, <2>1
  <1> QED BY <1>1, <1>2, <1>3, <1>4

LEMMA SocketStep ==
  ASSUME CurlInv, NEW s \in Sockets, NEW what \in Masks \cup {REMOVE}, socket_cb(s, what)
  PROVE  CurlInv'
  <1> USE DEF socket_cb
  <1> DEFINE left == what = REMOVE /\ s # current_socket_
  <1>1. /\ watches_' \in [Watched' -> Watches]
        /\ \A w \in Sockets \ {s} :
              (w \in Watched' <=> w \in Watched) /\ (w \in Watched => watches_'[w] = watches_[w])
        /\ s \in Watched' <=> what # REMOVE \/ (s \in Watched /\ s = current_socket_)
        /\ s \in Watched' =>
              /\ watches_'[s].mask = what
              /\ s \in Watched => /\ watches_'[s].ev = Poked(watches_[s].ev)
                                  /\ watches_'[s].f = watches_[s].f
              /\ s \notin Watched => watches_'[s] = NewWatch(what)
    BY WatchAfterFacts
  <1>2. /\ s \in Watched => Poked(watches_[s].ev).state = "triggered"
        /\ NewWatch(what).ev.bits = what /\ NewWatch(what).f = "curl's"
    BY DEF Poked, Event, NewWatch, CurlInv, CurlTypeOK, Watches, Watched
  <1>3. /\ wants'[s] = what /\ wants' \in [Sockets -> Masks \cup {REMOVE}]
        /\ \A w \in Sockets \ {s} : wants'[w] = wants[w]
    BY DEF CurlInv, CurlTypeOK
  <1>4. CurlTypeOK' 
    <2>1. \A w \in Watched' : w \in Sockets
      <3> SUFFICES ASSUME NEW w \in Watched', w \notin Sockets PROVE FALSE OBVIOUS
      <3>1. w \notin Watched /\ w # s BY DEF CurlInv, CurlTypeOK
      <3> QED BY <3>1 DEF Watched, WatchAfter, Without, With, Restrict
    <2> QED BY <1>1, <1>3, <2>1 DEF CurlInv, CurlTypeOK
  <1>5. CurrentInv' BY <1>1, <1>2 DEF CurlInv, CurrentInv
  <1>6. WatchInv' BY <1>1, <1>2, <1>3 DEF CurlInv, WatchInv
  <1>7. TimerInv' BY DEF CurlInv, TimerInv
  <1> QED BY <1>4, <1>5, <1>6, <1>7 DEF CurlInv

\* timer_cb: never, armed: timer_task is poked; fired, poked: it will look.
LEMMA TimerCbStep ==
  ASSUME CurlInv, NEW t \in Timeouts \cup {NoTimeout}, timer_cb(t)
  PROVE  CurlInv'
  <1> USE DEF CurlInv, timer_cb, curlVars
  <1>1. CurlTypeOK' BY DEF CurlTypeOK, Watched
  <1>2. CurrentInv' BY DEF CurrentInv, Watched
  <1>3. WatchInv' BY DEF WatchInv, Watched
  <1>4. TimerInv' BY DEF TimerInv, CurlTypeOK
  <1> QED BY <1>1, <1>2, <1>3, <1>4

LEMMA FinishesStep ==
  ASSUME CurlInv, NEW h \in Fetches, Finishes(h)
  PROVE  CurlInv'
  BY DEF CurlInv, Finishes, driverVars, CurlTypeOK, CurrentInv, WatchInv, TimerInv, Watched

-----------------------------------------------------------------------------
(* watch_task. *)

\* One watch_task starts over, with its socket wanted, or ends.
LEMMA WatchAgainFacts ==
  ASSUME CurlInv, NEW s \in Sockets, s \in Watched, WatchAgain(s)
  PROVE  /\ Watched' \subseteq Sockets /\ watches_' \in [Watched' -> Watches]
         /\ \A w \in Sockets \ {s} :
              (w \in Watched' <=> w \in Watched) /\ (w \in Watched => watches_'[w] = watches_[w])
         /\ s \in Watched' <=> wants[s] # REMOVE
         /\ s \in Watched' =>
              /\ watches_'[s].mask = wants[s]
              /\ watches_'[s].f = watches_[s].f
              /\ watches_'[s].ev = Event("pending", wants[s])
  <1> USE DEF CurlInv, CurlTypeOK, Watched
  <1>1. watches_[s].mask = wants[s] /\ watches_[s] \in Watches BY DEF WatchInv
  <1>2. CASE wants[s] # REMOVE
    <2>1. watches_' = [watches_ EXCEPT ![s].ev = Event("pending", wants[s])]
      BY <1>1, <1>2 DEF WatchAgain
    <2>2. watches_'[s] = [watches_[s] EXCEPT !.ev = Event("pending", wants[s])] BY <2>1
    <2>3. Event("pending", wants[s]) \in [state : {"pending", "triggered"}, bits : SUBSET {"in", "out"}]
      BY <1>2, CurlAssumption DEF Event
    <2>4. watches_'[s] \in Watches BY <1>1, <2>2, <2>3 DEF Watches
    <2>5. /\ watches_'[s].mask = wants[s] /\ watches_'[s].f = watches_[s].f
          /\ watches_'[s].ev = Event("pending", wants[s])
      BY <1>1, <2>2 DEF Watches
    <2> QED BY <1>2, <2>1, <2>4, <2>5
  <1>3. CASE wants[s] = REMOVE
    <2>1. watches_' = [x \in Watched \ {s} |-> watches_[x]]
      BY <1>1, <1>3 DEF WatchAgain, Without, Restrict
    <2> QED BY <1>3, <2>1
  <1> QED BY <1>2, <1>3

LEMMA KernelStep ==
  ASSUME CurlInv, NEW s \in Sockets, KernelReports(s)
  PROVE  CurlInv'
  <1> USE DEF CurlInv, KernelReports, curlVars, Watched
  <1>1. PICK bits \in SUBSET watches_[s].ev.bits \ {{}} :
           watches_' = [watches_ EXCEPT ![s].ev = Event("triggered", bits)]
    OBVIOUS
  <1>2. watches_[s] \in Watches BY DEF CurlTypeOK
  <1>3. watches_'[s] = [watches_[s] EXCEPT !.ev = Event("triggered", bits)] BY <1>1
  <1>4. watches_'[s] \in Watches
    BY <1>1, <1>2, <1>3 DEF Watches, Event
  <1>5. /\ watches_'[s].mask = watches_[s].mask /\ watches_'[s].f = watches_[s].f
        /\ watches_'[s].ev.state = "triggered"
    BY <1>2, <1>3 DEF Watches, Event
  <1>6. /\ DOMAIN watches_' = DOMAIN watches_
        /\ \A w \in DOMAIN watches_ : w # s => watches_'[w] = watches_[w]
    BY <1>1
  <1>7. CurlTypeOK' BY <1>1, <1>4, <1>6 DEF CurlTypeOK
  <1>8. CurrentInv' BY <1>5, <1>6 DEF CurrentInv
  <1>9. WatchInv'
    <2>1. \A w \in Sockets : /\ w \in Watched' <=> w \in Watched
                             /\ w \in Watched =>
                                  /\ watches_'[w].mask = watches_[w].mask
                                  /\ watches_'[w].f = watches_[w].f
                                  /\ w # s => watches_'[w].ev = watches_[w].ev
      BY <1>5, <1>6
    <2>2. WatchInv /\ UNCHANGED <<wants, fds_, current_socket_>> OBVIOUS
    <2> HIDE DEF CurlInv, KernelReports, Watched
    <2> QED BY <1>5, <2>1, <2>2 DEF WatchInv
  <1>10. TimerInv' BY DEF TimerInv
  <1> QED BY <1>7, <1>8, <1>9, <1>10

\* watch_task(s) turns its loop with libcurl off the stack.
LEMMA AgainStep ==
  ASSUME CurlInv, NEW s \in Sockets, s \in Watched, WatchAgain(s),
         stack' = Idle, current_socket_' = None,
         current_socket_ # None => current_socket_ = s, stack # Call("timer", None),
         fetch' \in [Fetches -> {"idle", "pending", "told", "leaving", "done"}],
         messages' \subseteq Fetches,
         UNCHANGED <<fds_, expiry_, next_timeout_, wants, due>>
  PROVE  CurlInv'
  <1>1. /\ Watched' \subseteq Sockets /\ watches_' \in [Watched' -> Watches]
        /\ \A w \in Sockets \ {s} :
              (w \in Watched' <=> w \in Watched) /\ (w \in Watched => watches_'[w] = watches_[w])
        /\ s \in Watched' <=> wants[s] # REMOVE
        /\ s \in Watched' =>
              /\ watches_'[s].mask = wants[s]
              /\ watches_'[s].f = watches_[s].f
              /\ watches_'[s].ev = Event("pending", wants[s])
    BY WatchAgainFacts
  <1>2. CurlTypeOK' BY <1>1 DEF CurlInv, CurlTypeOK, Calls
  <1>3. CurrentInv' BY CallsDiffer DEF CurrentInv, Idle, None
  <1>4. WatchInv'
    <2> SUFFICES ASSUME NEW w \in Sockets
                 PROVE  /\ wants[w] # REMOVE => w \in Watched' /\ w \in fds_
                        /\ w \in Watched' =>
                             /\ watches_'[w].mask = wants[w]
                             /\ wants[w] # REMOVE
                             /\ w \in fds_ => watches_'[w].f = "curl's"
                             /\ watches_'[w].ev.state = "pending" =>
                                  watches_'[w].ev.bits = wants[w]
      BY DEF WatchInv
    <2>1. CASE w = s BY <1>1, <2>1 DEF CurlInv, WatchInv, Event
    <2>2. CASE w # s
      <3>1. w # current_socket_ BY <2>2, CurlAssumption DEF None
      <3> QED BY <1>1, <2>2, <3>1 DEF CurlInv, WatchInv
    <2> QED BY <2>1, <2>2
  <1>5. TimerInv' BY CallsDiffer DEF CurlInv, TimerInv, Idle, None
  <1> QED BY <1>2, <1>3, <1>4, <1>5 DEF CurlInv

LEMMA WatchWakesStep ==
  ASSUME CurlInv, NEW s \in Sockets, WatchWakes(s)
  PROVE  CurlInv'
  <1> USE DEF WatchWakes, curlVars
  <1>1. current_socket_ = None /\ stack # Call("timer", None)
    BY CallsDiffer, CurlAssumption DEF CurlInv, CurrentInv, InCurl, Idle, None, CurlTypeOK
  <1>2. CASE watches_[s].ev.bits = {}
    <2>1. WatchAgain(s) /\ UNCHANGED <<stack, current_socket_>> /\ stack = Idle
      BY <1>2 DEF InCurl
    <2> QED BY <1>1, <2>1, AgainStep DEF CurlInv, CurlTypeOK
  <1>3. CASE watches_[s].ev.bits # {}
    <2>1. stack' = Call("watch", s) /\ current_socket_' = s /\ UNCHANGED watches_
      BY <1>3
    <2>2. CurlTypeOK' BY <2>1 DEF CurlInv, CurlTypeOK, Calls, Watched
    <2>3. CurrentInv' BY <2>1, CallsDiffer DEF CurrentInv, Watched
    <2>4. WatchInv' BY <1>1, <2>1, CurlAssumption DEF CurlInv, WatchInv, Watched, None
    <2>5. TimerInv' BY <1>1, <2>1, CallsDiffer DEF CurlInv, TimerInv
    <2> QED BY <2>2, <2>3, <2>4, <2>5 DEF CurlInv
  <1> QED BY <1>2, <1>3

\* process_multi moves fetches on.
LEMMA ProcessTypes ==
  ASSUME CurlInv, process_multi
  PROVE  /\ fetch' \in [Fetches -> {"idle", "pending", "told", "leaving", "done"}]
         /\ messages' \subseteq Fetches
  BY DEF CurlInv, CurlTypeOK, process_multi

LEMMA WatchReturnsStep ==
  ASSUME CurlInv, NEW s \in Sockets, WatchReturns(s)
  PROVE  CurlInv'
  <1>1. stack # Call("timer", None) /\ (current_socket_ # None => current_socket_ = s)
    BY CallsDiffer DEF WatchReturns, CurlInv, CurrentInv
  <1> QED BY <1>1, AgainStep, ProcessTypes DEF WatchReturns

-----------------------------------------------------------------------------
(* timer_task, curl_fetch and curl_reset. *)

LEMMA TimerStep ==
  ASSUME CurlInv, TimerFires \/ TimerWakes \/ TimerReturns
  PROVE  CurlInv'
  <1>1. CASE TimerFires
    <2> USE <1>1 DEF TimerFires, curlVars, CurlInv, Watched
    <2>1. CurlTypeOK' BY DEF CurlTypeOK
    <2>2. CurrentInv' /\ WatchInv' BY DEF CurrentInv, WatchInv
    <2>3. TimerInv' BY DEF TimerInv, CurlTypeOK
    <2> QED BY <2>1, <2>2, <2>3
  <1>2. CASE TimerWakes /\ expiry_.at = "poked"
    <2> USE <1>2 DEF TimerWakes, TimerAgain, CurlInv, Watched
    <2>1. CurlTypeOK' BY DEF CurlTypeOK, Never
    <2>2. CurrentInv' /\ WatchInv' BY DEF CurrentInv, WatchInv
    <2>3. TimerInv' BY CallsDiffer DEF TimerInv, CurlTypeOK, Never, InCurl, Idle, None
    <2> QED BY <2>1, <2>2, <2>3
  <1>3. CASE TimerWakes /\ expiry_.at = "fired"
    <2> USE <1>3, CallsDiffer DEF TimerWakes, CurlInv, Watched, InCurl, Idle
    <2>1. CurlTypeOK' BY DEF CurlTypeOK, Calls
    <2>2. CurrentInv' /\ WatchInv' BY DEF CurrentInv, WatchInv
    <2>3. TimerInv' BY DEF TimerInv
    <2> QED BY <2>1, <2>2, <2>3
  <1>4. CASE TimerReturns
    <2> USE <1>4, CallsDiffer DEF TimerReturns, TimerAgain, CurlInv, Watched, Idle, None
    <2>1. CurlTypeOK' BY ProcessTypes DEF CurlTypeOK, Never, Calls
    <2>2. CurrentInv' /\ WatchInv' BY DEF CurrentInv, WatchInv
    <2>3. TimerInv' BY DEF TimerInv, Never
    <2> QED BY <2>1, <2>2, <2>3
  <1> QED BY <1>1, <1>2, <1>3, <1>4 DEF TimerWakes

\* A fetch begins, leaves, or is back from adding or removing its handle.
LEMMA FetchStep ==
  ASSUME CurlInv, NEW h \in Fetches, Fetch(h) \/ FetchLeaves(h) \/ FetchReturns(h)
  PROVE  CurlInv'
  <1>1. /\ UNCHANGED driverVars /\ wants' = wants /\ due' = due
        /\ messages' \subseteq Fetches
        /\ fetch' \in [Fetches -> {"idle", "pending", "told", "leaving", "done"}]
    BY DEF Fetch, FetchLeaves, FetchReturns, CurlInv, CurlTypeOK, curlVars
  <1>2. /\ stack' \in {Idle, Call("add", h), Call("remove", h)}
        /\ stack \in {Idle, Call("add", h), Call("remove", h)}
    BY DEF Fetch, FetchLeaves, FetchReturns, InCurl
  <1> USE <1>1, <1>2, CallsDiffer DEF driverVars, Idle, None, CurlInv, Watched
  <1>3. CurlTypeOK' BY DEF CurlTypeOK, Calls
  <1>4. CurrentInv' BY DEF CurrentInv
  <1>5. WatchInv' BY DEF WatchInv
  <1>6. TimerInv' BY DEF TimerInv
  <1> QED BY <1>3, <1>4, <1>5, <1>6

LEMMA ResetStep ==
  ASSUME CurlInv, curl_reset
  PROVE  CurlInv'
  <1> USE CallsDiffer DEF curl_reset, CurlInv, InCurl, Idle
  <1>1. Watched' = {} /\ watches_' \in [Watched' -> Watches] BY DEF Watched
  <1>2. CurlTypeOK' BY <1>1 DEF CurlTypeOK, Never
  <1>3. CurrentInv' BY DEF CurrentInv, None
  <1>4. WatchInv' BY <1>1 DEF WatchInv
  <1>5. TimerInv' BY DEF TimerInv, None
  <1> QED BY <1>2, <1>3, <1>4, <1>5

-----------------------------------------------------------------------------
LEMMA NextCurlInv == CurlInv /\ [CurlNext]_systemVars => CurlInv'
  <1> SUFFICES ASSUME CurlInv, [CurlNext]_systemVars PROVE CurlInv' OBVIOUS
  <1>1. CASE Callback
    BY <1>1, OpenStep, CloseStep, SocketStep, TimerCbStep, FinishesStep DEF Callback
  <1>2. CASE Returns
    BY <1>2, WatchReturnsStep, TimerStep, FetchStep DEF Returns
  <1>3. CASE \E s \in Sockets : KernelReports(s) \/ WatchWakes(s)
    BY <1>3, KernelStep, WatchWakesStep
  <1>4. CASE TimerFires \/ TimerWakes BY <1>4, TimerStep
  <1>5. CASE \E h \in Fetches : Fetch(h) \/ FetchLeaves(h) BY <1>5, FetchStep
  <1>6. CASE curl_reset BY <1>6, ResetStep
  <1>7. CASE UNCHANGED systemVars
    BY <1>7 DEF systemVars, driverVars, curlVars, CurlInv, CurlTypeOK, CurrentInv, WatchInv, TimerInv, Watched
  <1> QED BY <1>1, <1>2, <1>3, <1>4, <1>5, <1>6, <1>7 DEF CurlNext

LEMMA CurlInvAlways == CurlSpec => []CurlInv
  BY InitCurlInv, NextCurlInv, PTL DEF CurlSpec

\* The tables, the events and the stack of curl_driver keep their types.
THEOREM CurlTypeCorrect == CurlSpec => []CurlTypeOK
  <1>1. CurlInv => CurlTypeOK BY DEF CurlInv
  <1> QED BY <1>1, CurlInvAlways, PTL

\* socket_cb never destroys the watch_task on whose stack libcurl called it
\* (curl.cc:140).
THEOREM CurlNoSuicide == CurlSpec => []NoSuicide
  <1>1. CurlInv => NoSuicide BY DEF CurlInv, CurrentInv, NoSuicide
  <1> QED BY <1>1, CurlInvAlways, PTL

\* Whatever callbacks libcurl makes, and in whichever calls, the driver watches
\* what libcurl wants watched when libcurl is off the stack.
THEOREM CurlWatchesMatch == CurlSpec => []WatchesMatch
  <1>1. CurlInv => WatchesMatch
    <2> SUFFICES ASSUME CurlInv, ~InCurl PROVE WatchesMatch BY DEF WatchesMatch
    <2>1. current_socket_ = None
      BY CallsDiffer, CurlAssumption DEF CurlInv, CurrentInv, InCurl, Idle, None, CurlTypeOK
    <2>2. \A s \in Sockets : s # current_socket_ BY <2>1, CurlAssumption DEF None
    <2> QED BY <2>2 DEF CurlInv, WatchInv, WatchesMatch, CurlTypeOK
  <1> QED BY <1>1, CurlInvAlways, PTL

\* No order of timer_cb and the timer's going off loses a timeout.
THEOREM CurlTimeoutKept == CurlSpec => []TimeoutKept
  <1>1. CurlInv => TimeoutKept
    BY CallsDiffer DEF CurlInv, TimerInv, TimeoutKept, InCurl, Idle, None
  <1> QED BY <1>1, CurlInvAlways, PTL

=============================================================================
