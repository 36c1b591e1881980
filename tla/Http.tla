-------------------------------- MODULE Http --------------------------------
(***************************************************************************)
(* http_parser (http.cc, http.hh) at both ends of a connection: client     *)
(* coroutines that pipeline one request each, and a server coroutine that  *)
(* answers them one after the other.                                       *)
(*                                                                         *)
(* A connection is a bounded stream of units in each direction.  A unit    *)
(* stands for a part of a message that the parser tells apart: the first   *)
(* line, the header block, a piece of body, a chunk's length line, the     *)
(* line end after a chunk.  A coroutine whose system call returns EAGAIN   *)
(* or EINTR awaits readiness: its next step is the call that succeeds.     *)
(* All coroutines of an end run on one driver, so m_[0] and m_[1] are      *)
(* queues whose head has the lock.  llhttp is external.                    *)
(***************************************************************************)
EXTENDS Sockets, Transfer

CONSTANTS
    Requests,     \* the client's coroutines, and the requests they send
    Plain,        \* those that ignore their ticket and call receive()
    ReqBody,      \* ReqBody[q]: units of body in request q; 0: it has none
    ResBody,      \* ResBody[q]: units of body in the response
    Chunked,      \* requests answered with chunks
    ReqCloses,    \* requests with a Connection: close header
    ResCloses,    \* requests answered with such a header
    Capacity,     \* how many units fit in a direction of the connection
    bufsize,      \* how many units recv() asks for
    MaxResets     \* bound: how often the network breaks the connection

ASSUME HttpAssumption ==
    /\ IsFiniteSet(Requests) /\ Requests \subseteq Nat \ {0}
    /\ Plain \cup Chunked \cup ReqCloses \cup ResCloses \subseteq Requests
    /\ ReqBody \in [Requests -> Nat] /\ ResBody \in [Requests -> Nat]
    /\ Capacity \in Nat \ {0} /\ bufsize \in Nat \ {0}
    /\ MaxResets \in Nat

Server == 0
Tasks == Requests \cup {Server}
End(t) == IF t = Server THEN "server" ELSE "client"

VARIABLES
    pc,           \* where each coroutine waits
    mu,           \* m_[0] (r) and m_[1] (w) of each end's parser
    iov,          \* what a sender has still to send
    parts,        \* the rest of the server's response, one iovec list per send
    md,           \* the message a receiver has parsed so far
    result,       \* what receive() returned to a client
    pipe,         \* units each end has sent and the other has not read
    receive_buffer_,
    hp_,          \* llhttp's state at each end
    resets        \* times the network broke the connection

httpVars == <<pc, mu, iov, parts, md, result, pipe, receive_buffer_, hp_, resets>>
vars == <<sockVars, httpVars>>

-----------------------------------------------------------------------------
(* Messages as they are put on the wire. *)

\* frame says how the body ends: "length", "chunked", or "none" when the
\* headers say nothing about it.
Unit(q, type, n, frame, close) ==
    [of |-> q, type |-> type, n |-> n, frame |-> frame, close |-> close]

Line(q) == Unit(q, "line", 0, "none", FALSE)
Headers(q, n, frame, close) == Unit(q, "headers", n, frame, close)
Body(q, n) == [k \in 1 .. n |-> Unit(q, "data", 0, "none", FALSE)]
CRLF(q) == Unit(q, "crlf", 0, "none", FALSE)

\* The length line of a chunk: llhttp reads the digits as hexadecimal.
AsHex[n \in Nat] == IF n < 10 THEN n ELSE 16 * AsHex[n \div 10] + (n % 10)
Size(q, n) == Unit(q, "size", AsHex[n], "none", FALSE)

\* The iovecs of send_request: a body gets a Content-Length header.
request(q) ==
    IF ReqBody[q] = 0
    THEN <<<<Line(q)>>, <<Headers(q, 0, "none", q \in ReqCloses)>>>>
    ELSE <<<<Line(q)>>, <<Headers(q, ReqBody[q], "length", q \in ReqCloses)>>, Body(q, ReqBody[q])>>

\* send_response of a message with a body.
response(q) ==
    <<<<Line(q)>>, <<Headers(q, ResBody[q], "length", q \in ResCloses)>>, Body(q, ResBody[q])>>

\* send_response with a transfer-encoding header and no body.
chunked_response(q) == <<<<Line(q)>>, <<Headers(q, 0, "chunked", q \in ResCloses)>>>>

response_chunk(q, n) == <<<<Size(q, n)>>, Body(q, n), <<CRLF(q)>>>>
response_end_chunk(q) == <<<<Size(q, 0), CRLF(q)>>>>

\* The calls with which the server answers q, each under a lock of its own.
Answer(q) ==
    IF q \in Chunked
    THEN <<chunked_response(q), response_chunk(q, ResBody[q]), response_end_chunk(q)>>
    ELSE <<response(q)>>

-----------------------------------------------------------------------------
(* llhttp: what llhttp_execute makes of units, up to the end of a message. *)

NewParser == [at |-> "line", need |-> 0, close |-> FALSE, error |-> "ok"]

Expect(p, at, need) == [p EXCEPT !.at = at, !.need = need]

\* A request without a length has no body; a response without one lasts until
\* the connection ends.
AfterHeaders(e, p, u) ==
    CASE u.frame = "chunked"             -> Expect(p, "size", 0)
      [] u.frame = "length" /\ u.n > 0   -> Expect(p, "body", u.n)
      [] u.frame = "none" /\ e = "client" -> Expect(p, "eof", 0)
      [] OTHER                           -> Expect(p, "complete", 0)

ParseUnit(e, p, u) ==
    CASE p.at = "line" /\ u.type = "line"       -> [Expect(p, "headers", 0) EXCEPT !.close = FALSE]
      [] p.at = "headers" /\ u.type = "headers" -> AfterHeaders(e, [p EXCEPT !.close = u.close], u)
      [] p.at = "body"   -> IF p.need = 1 THEN Expect(p, "complete", 0) ELSE Expect(p, "body", p.need - 1)
      [] p.at = "eof"    -> p
      [] p.at = "size" /\ u.type = "size" -> IF u.n = 0 THEN Expect(p, "last", 0) ELSE Expect(p, "chunk", u.n)
      [] p.at = "chunk"  -> IF p.need = 1 THEN Expect(p, "crlf", 0) ELSE Expect(p, "chunk", p.need - 1)
      [] p.at = "crlf" /\ u.type = "crlf" -> Expect(p, "size", 0)
      [] p.at = "last" /\ u.type = "crlf" -> Expect(p, "complete", 0)
      [] OTHER           -> [p EXCEPT !.error = "invalid"]

\* The parser after each of the first k units of data.
Parsers(e, p, data) ==
    LET P[k \in 0 .. Len(data)] == IF k = 0 THEN p ELSE ParseUnit(e, P[k - 1], data[k]) IN P

\* llhttp stops behind the unit that completes a message (on_message_complete
\* returns HPE_PAUSED) or at one that does not belong there.
Stops(p) == p.at = "complete" \/ p.error # "ok"
Consumed(P) == Min({k \in DOMAIN P : Stops(P[k]) \/ k = Max(DOMAIN P)})

-----------------------------------------------------------------------------
Init ==
    /\ SocketsInit
    /\ pc = [t \in Tasks |-> IF t = Server THEN "accept" ELSE "idle"]
    /\ mu = [e \in Ends |-> [r |-> << >>, w |-> << >>]]
    /\ iov = [t \in Tasks |-> << >>]
    /\ parts = << >>
    /\ md = [t \in Tasks |-> << >>]
    /\ result = [q \in Requests |-> "none"]
    /\ pipe = [e \in Ends |-> << >>]
    /\ receive_buffer_ = [e \in Ends |-> << >>]
    /\ hp_ = [e \in Ends |-> NewParser]
    /\ resets = 0

Goto(t, label) == pc' = [pc EXCEPT ![t] = label]

Broken(e) == resets > 0 \/ Other(e) \in gone

should_keep_alive(e) == ~hp_[e].close

\* Lock requests: a coroutine may have one for its ticket and one of its own.
Own(t) == <<t, "own">>
Ticket(t) == <<t, "ticket">>

\* The request that receive() awaits.
Awaited(t) == IF t \in Requests \ Plain THEN Ticket(t) ELSE Own(t)

-----------------------------------------------------------------------------
(* Sending. *)

\* A client coroutine calls send_request, up to co_await m_[1].lock().
SendRequest(q) ==
    /\ dial.at = "connected"
    /\ pc[q] = "idle"
    /\ iov' = [iov EXCEPT ![q] = request(q)]
    /\ mu' = [mu EXCEPT !["client"].w = Append(@, Own(q))]
    /\ Goto(q, "sendlock")
    /\ UNCHANGED <<sockVars, parts, md, result, pipe, receive_buffer_, hp_, resets>>

\* m_[1] is locked; send_request takes its place in line for the response.
SendLocked(t) ==
    /\ pc[t] = "sendlock"
    /\ Head(mu[End(t)].w) = Own(t)
    /\ mu' = [mu EXCEPT ![End(t)].r = IF t = Server THEN @ ELSE Append(@, Ticket(t))]
    /\ Goto(t, "sending")
    /\ UNCHANGED <<sockVars, iov, parts, md, result, pipe, receive_buffer_, hp_, resets>>

\* The fd of end e is closed with its parser.
CloseEnd(e) == Close(IF e = "client" THEN conn ELSE Accepted)

\* The end of a send: the guard unlocks m_[1].  The client goes on to
\* receive(ticket), or ignores the ticket and calls receive().  The server sends
\* the next part, or looks at should_keep_alive().
AfterSend(t) ==
    LET E == End(t)
        unlocked == [mu EXCEPT ![E].w = Tail(@)]
    IN  \/ /\ t # Server
           /\ mu' = [unlocked EXCEPT ![E].r = IF t \in Plain THEN Append(@, Own(t)) ELSE @]
           /\ Goto(t, "ticket")
           /\ iov' = [iov EXCEPT ![t] = << >>]
           /\ UNCHANGED <<parts, gone, sock>>
        \/ /\ t = Server /\ parts # << >>
           /\ mu' = [unlocked EXCEPT ![E].w = Append(@, Own(t))]
           /\ Goto(t, "sendlock")
           /\ iov' = [iov EXCEPT ![t] = Head(parts)]
           /\ parts' = Tail(parts)
           /\ UNCHANGED <<gone, sock>>
        \/ /\ t = Server /\ parts = << >> /\ should_keep_alive(E)
           /\ mu' = [unlocked EXCEPT ![E].r = Append(@, Own(t))]
           /\ Goto(t, "ticket")
           /\ iov' = [iov EXCEPT ![t] = << >>]
           /\ UNCHANGED <<parts, gone, sock>>
        \/ /\ t = Server /\ parts = << >> /\ ~should_keep_alive(E)
           /\ mu' = unlocked
           /\ Goto(t, "closed")
           /\ iov' = [iov EXCEPT ![t] = << >>]
           /\ CloseEnd(E)
           /\ UNCHANGED parts

\* One successful ::sendmsg of sendv_all: the kernel takes r units.
SendSome(t) ==
    /\ pc[t] = "sending"
    /\ resets = 0
    /\ \E r \in 1 .. Min({Capacity - Len(pipe[End(t)]), Len(Bytes(iov[t]))}) :
        /\ pipe' = [pipe EXCEPT ![End(t)] = @ \o Taken(iov[t], r)]
        /\ \/ /\ msghdr_done(iov[t], r)
              /\ AfterSend(t)
           \/ /\ ~msghdr_done(iov[t], r)
              /\ iov' = [iov EXCEPT ![t] = update_iovec(@, r)]
              /\ UNCHANGED <<pc, mu, parts, gone, sock>>
    /\ UNCHANGED <<lookup, dial, listening, conn, leaked, md, result, receive_buffer_, hp_, resets>>

\* ::sendmsg fails.  send_request and send_response do not look at the result.
SendFails(t) ==
    /\ pc[t] = "sending"
    /\ Broken(End(t))
    /\ AfterSend(t)
    /\ UNCHANGED <<lookup, dial, listening, conn, leaked, md, result, pipe, receive_buffer_, hp_, resets>>

-----------------------------------------------------------------------------
(* Receiving. *)

\* tcp_accept returns, and the server's coroutine calls receive().
Serve ==
    /\ Accept
    /\ pc[Server] = "accept"
    /\ mu' = [mu EXCEPT !["server"].r = Append(@, Own(Server))]
    /\ Goto(Server, "ticket")
    /\ UNCHANGED <<iov, parts, md, result, pipe, receive_buffer_, hp_, resets>>

\* Mutant: receive() does not await its ticket.
ReceiveLocked_Now(t) ==
    /\ pc[t] = "ticket"
    /\ md' = [md EXCEPT ![t] = << >>]
    /\ Goto(t, "recv")
    /\ UNCHANGED <<sockVars, mu, iov, parts, result, pipe, receive_buffer_, hp_, resets>>

\* receive() has its ticket's lock; its message_data replaces the last one's.
ReceiveLocked(t) ==
    /\ pc[t] = "ticket"
    /\ Head(mu[End(t)].r) = Awaited(t)
    /\ md' = [md EXCEPT ![t] = << >>]
    /\ Goto(t, "recv")
    /\ UNCHANGED <<sockVars, mu, iov, parts, result, pipe, receive_buffer_, hp_, resets>>

\* receive() returns and unlocks m_[0].  The client has its response; the server
\* answers the request or, after an error, closes.
AfterReceive(t, p, m, ok) ==
    LET E == End(t)
        unlocked == [mu EXCEPT ![E].r = Tail(@)]
        q == m[1].of
        parser == IF ok THEN [p EXCEPT !.at = "line"]
                  ELSE [p EXCEPT !.error = IF @ = "ok" THEN "closed" ELSE @]
    IN  \/ /\ t # Server
           /\ mu' = unlocked
           /\ hp_' = [hp_ EXCEPT ![E] = parser]
           /\ result' = [result EXCEPT ![t] = IF ok THEN "ok" ELSE "error"]
           /\ Goto(t, "done")
           /\ UNCHANGED <<iov, parts, gone, sock>>
        \/ /\ t = Server /\ ok
           /\ hp_' = [hp_ EXCEPT ![E] = [parser EXCEPT !.close = @ \/ q \in ResCloses]]
           /\ iov' = [iov EXCEPT ![t] = Head(Answer(q))]
           /\ parts' = Tail(Answer(q))
           /\ mu' = [unlocked EXCEPT ![E].w = Append(@, Own(t))]
           /\ Goto(t, "sendlock")
           /\ UNCHANGED <<result, gone, sock>>
        \/ /\ t = Server /\ ~ok
           /\ mu' = unlocked
           /\ hp_' = [hp_ EXCEPT ![E] = parser]
           /\ Goto(t, "closed")
           /\ CloseEnd(E)
           /\ UNCHANGED <<result, iov, parts>>

\* Mutant: what comes after the message is dropped with the stack buffer.
Unconsumed_Dropped(data, k) == << >>

\* What llhttp did not consume goes to receive_buffer_.
Unconsumed(data, k) == SubSeq(data, k + 1, Len(data))

\* The callbacks: on_message_begin clears the message, the others append what
\* they are given.
Collected(m, units) ==
    IF units # << >> /\ units[1].type = "line" THEN units ELSE m \o units

\* llhttp_execute on data, and what receive() does with the outcome.
Execute(t, data) ==
    LET E == End(t)
        P == Parsers(E, hp_[E], data)
        k == Consumed(P)
        m == Collected(md[t], SubSeq(data, 1, k))
    IN  /\ receive_buffer_' = [receive_buffer_ EXCEPT ![E] = Unconsumed(data, k)]
        /\ md' = [md EXCEPT ![t] = m]
        /\ \/ /\ ~Stops(P[k])
              /\ hp_' = [hp_ EXCEPT ![E] = P[k]]
              /\ UNCHANGED <<pc, mu, iov, parts, result, gone, sock>>
           \/ /\ Stops(P[k])
              /\ AfterReceive(t, P[k], m, P[k].error = "ok")

\* A turn of receive()'s loop: first what the last call left, then recv().
RecvSome(t) ==
    LET E == End(t)
        from == pipe[Other(E)]
        n == Min({Len(from), bufsize})
    IN  /\ pc[t] = "recv"
        /\ \/ /\ receive_buffer_[E] # << >>
              /\ Execute(t, receive_buffer_[E])
              /\ UNCHANGED pipe
           \/ /\ receive_buffer_[E] = << >> /\ from # << >> /\ resets = 0
              /\ pipe' = [pipe EXCEPT ![Other(E)] = SubSeq(@, n + 1, Len(@))]
              /\ Execute(t, SubSeq(from, 1, n))
        /\ UNCHANGED <<lookup, dial, listening, conn, leaked, resets>>

\* Mutant: recv() returning 0 is not the end.
RecvEnds_Retries(t) ==
    LET E == End(t)
    IN  /\ pc[t] = "recv"
        /\ receive_buffer_[E] = << >>
        /\ resets > 0
        /\ AfterReceive(t, hp_[E], md[t], FALSE)
        /\ UNCHANGED <<lookup, dial, listening, conn, leaked, md, pipe, receive_buffer_, resets>>

\* recv() finds the end of the stream or fails: the message is incomplete, and
\* the error is HPE_CLOSED_CONNECTION.
RecvEnds(t) ==
    LET E == End(t)
    IN  /\ pc[t] = "recv"
        /\ receive_buffer_[E] = << >>
        /\ resets > 0 \/ (pipe[Other(E)] = << >> /\ Other(E) \in gone)
        /\ AfterReceive(t, hp_[E], md[t], FALSE)
        /\ UNCHANGED <<lookup, dial, listening, conn, leaked, md, pipe, receive_buffer_, resets>>

-----------------------------------------------------------------------------
\* All responses are there: the client's parser goes away with its fd.
ClientCloses ==
    /\ dial.at = "connected"
    /\ "client" \notin gone
    /\ \A q \in Requests : pc[q] = "done"
    /\ CloseEnd("client")
    /\ UNCHANGED <<lookup, dial, listening, conn, leaked, pc, mu, iov, parts, md, result, pipe,
                   receive_buffer_, hp_, resets>>

\* The network breaks the connection; what is on its way is lost.
Reset ==
    /\ conn # Unconnected
    /\ resets < MaxResets
    /\ resets' = resets + 1
    /\ UNCHANGED <<sockVars, pc, mu, iov, parts, md, result, pipe, receive_buffer_, hp_>>

Step(t) ==
    \/ SendLocked(t) \/ SendSome(t) \/ SendFails(t)
    \/ ReceiveLocked(t) \/ RecvSome(t) \/ RecvEnds(t)

SetUp == SocketsNext /\ UNCHANGED httpVars

Next ==
    \/ SetUp
    \/ \E q \in Requests : SendRequest(q)
    \/ \E t \in Tasks : Step(t)
    \/ Serve
    \/ ClientCloses
    \/ Reset

Spec == Init /\ [][Next]_vars

\* The drivers run every coroutine that can run, lookups and connection
\* attempts end, and every client coroutine is started.  The network need not
\* break, no system call need fail, and no timeout need fire.
Fairness ==
    /\ \A e \in Ends : WF_vars(GetaddrinfoThread(e) /\ UNCHANGED httpVars)
    /\ WF_vars((Listen \/ Dial \/ Connect) /\ UNCHANGED httpVars)
    /\ \A q \in Requests : WF_vars(SendRequest(q))
    /\ \A t \in Tasks : WF_vars(Step(t))
    /\ WF_vars(Serve)
    /\ WF_vars(ClientCloses)

FairSpec == Spec /\ Fairness

-----------------------------------------------------------------------------
(* Correctness. *)

TypeOK ==
    /\ pc \in [Tasks -> {"accept", "idle", "sendlock", "sending", "ticket", "recv", "done", "closed"}]
    /\ result \in [Requests -> {"none", "ok", "error"}]
    /\ \A e \in Ends : Len(pipe[e]) <= Capacity
    /\ gone \subseteq Ends
    /\ resets \in 0 .. MaxResets

\* A response that receive() returns without an error is the whole answer to the
\* request that its caller sent, whoever else shares the connection and however
\* the units were cut on the way.
OwnResponse ==
    \A q \in Requests : result[q] = "ok" => md[q] = Bytes(FlattenSeq(Answer(q)))

\* Neither parser ever sees a message that another one runs into: only the end of
\* the connection is an error.
NeverGarbled == \A e \in Ends : hp_[e].error # "invalid"

\* A caller gets an error only when the network broke the connection, the server
\* could not accept it, or one of the two sides asked to close it after an
\* exchange that came before.
ErrorsAreReal ==
    \A q \in Requests :
        result[q] = "error" =>
            \/ resets > 0
            \/ listening.at = "threw"
            \/ \E p \in ReqCloses \cup ResCloses : result[p] = "ok"

\* The sockets that a coroutine holds: tcp_connect or the client's parser, the
\* owner of tcp_listen_all's list, the server's parser.
Held ==
    {s \in {Dialling} : dial.at = "connecting" \/ (dial.at = "connected" /\ "client" \notin gone)}
    \cup {Listener(a) : a \in listening.on}
    \cup {s \in {Accepted} : listening.at = "accepted" /\ pc[Server] # "closed"}

\* The only descriptors that stay open with no holder are those for which
\* set_nonblocking threw: any other failure, timeout or end of a session, in any
\* order, closes what was opened, and no socket closes under its holder.
SocketsHeld == sock = Held \cup leaked /\ Held \cap leaked = {}

\* Every caller gets an answer or an error, unless there is no connection or
\* set_nonblocking leaked the server's side of it.
Answered == \A q \in Requests : <>(pc[q] = "done" \/ dial.at \in {"failed", "threw"} \/ Accepted \in leaked)

\* Every session ends: the callers are answered, and then only listening sockets are
\* open.  A client that closes, fails or is timed out, even after the kernel has
\* made its connection, makes the server's side end too, and the other way round.
\* Descriptors that set_nonblocking leaked are excused, and with the server's its
\* client, who waits on it.
SessionsEnd ==
    /\ Answered
    /\ <>[](\A s \in sock \ leaked : Accepted \in leaked \/ \E a \in listening.on : s = Listener(a))

=============================================================================
