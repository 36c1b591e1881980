---------------------------- MODULE CtConsensus ----------------------------
(***************************************************************************)
(* Chandra-Toueg consensus of examples/ctconsensus.cc over the simulated   *)
(* network of examples/netsim.hh.                                          *)
(*                                                                         *)
(* A server's coroutine is cut where it waits for a message.  A packet is  *)
(* on its link from the call of channel::send until the receiver pops it:  *)
(* in its detached send_after, then in the port's messageq_.  A link has   *)
(* one delay, so it keeps the order; links are not ordered among           *)
(* themselves.  The sends to all servers are one step: each may be late.   *)
(***************************************************************************)
EXTENDS Naturals, Sequences, FiniteSets

CONSTANTS
    N,            \* the number of servers
    Colors,       \* what they choose from
    Starts,       \* the initial colorings considered
    MaxTimeouts   \* bound: how often the failure detectors suspect a leader

NoColor == "none"    \* the empty string

ASSUME ConsensusAssumption ==
    /\ N \in Nat \ {0}
    /\ Starts \subseteq [0 .. N - 1 -> Colors]
    /\ NoColor \notin Colors
    /\ MaxTimeouts \in Nat

VARIABLES
    pc,           \* where each server's consensus() waits
    color_, round_, color_round_, stash_, decided_,   \* struct server
    counted,      \* what receive() returned to the leader in this phase
    sent,         \* every packet sent so far
    links_,       \* per link, what is on its way or in the port's queue
    timeouts,     \* suspicions so far
    nancy         \* the observer: place, colors received and required

serverVars == <<pc, color_, round_, color_round_, stash_, decided_, counted>>
vars == <<serverVars, sent, links_, timeouts, nancy>>

Servers == 0 .. N - 1
nancy_id == N        \* -1 in the code; any id that is no server's

leader(r) == r % N

\* More than N/2 of them.
Most(S) == Cardinality(S) > N \div 2

-----------------------------------------------------------------------------
(* Messages (ctconsensus_msgs.hh) and the network (netsim.hh). *)

Types == {"prepare", "propose", "ack", "decide"}

Messages == [type : Types, round : Nat, color : Colors \cup {NoColor},
             color_round : Nat, ack : BOOLEAN]

prepare_message(r, c, cr) ==
    [type |-> "prepare", round |-> r, color |-> c, color_round |-> cr, ack |-> FALSE]
propose_message(r, c) ==
    [type |-> "propose", round |-> r, color |-> c, color_round |-> 0, ack |-> FALSE]
ack_message(r, b) ==
    [type |-> "ack", round |-> r, color |-> NoColor, color_round |-> 0, ack |-> b]
decide_message(c) ==
    [type |-> "decide", round |-> 0, color |-> c, color_round |-> 0, ack |-> FALSE]

Links == Servers \X (0 .. N)

Packets == [from : Servers, to : 0 .. N, m : Messages]

\* net_.link(i, j).send(m) for every j in J: the link is made when it is first
\* used, a detached send_after brings the packet to j's port.
SendOn(L, i, J, m) ==
    /\ sent' = sent \cup {[from |-> i, to |-> j, m |-> m] : j \in J}
    /\ links_' = [k \in Links |-> IF k[1] = i /\ k[2] \in J
                                  THEN Append(L[k], [from |-> i, to |-> k[2], m |-> m])
                                  ELSE L[k]]

Send(i, J, m) == SendOn(links_, i, J, m)

\* The packets that port::receive() of j may pop next.
Arriving(j) == {Head(links_[<<i, j>>]) : i \in {k \in Servers : links_[<<k, j>>] # << >>}}

\* The links when p is popped; a receiver asleep on receiver_event_ was woken
\* by its arrival.
Popped(p) == [links_ EXCEPT ![<<p.from, p.to>>] = Tail(@)]

-----------------------------------------------------------------------------
(* A server. *)

Init ==
    /\ pc = [i \in Servers |-> "start"]
    /\ color_ \in Starts
    /\ round_ = [i \in Servers |-> 1]
    /\ color_round_ = [i \in Servers |-> 0]
    /\ stash_ = [i \in Servers |-> {}]
    /\ decided_ = [i \in Servers |-> FALSE]
    /\ counted = [i \in Servers |-> {}]
    /\ sent = {}
    /\ links_ = [k \in Links |-> << >>]
    /\ timeouts = 0
    /\ nancy = [at |-> "listens", got |-> {}, consensus |-> NoColor,
                required |-> {c \in Colors : \A i \in Servers : color_[i] = c}]

Goto(i, label) == pc' = [pc EXCEPT ![i] = label]

\* Nancy ends the program with cot::clear(): nothing runs after it.
Running == nancy.at \in {"listens", "stopping"}

\* Phase 1, from the top of the loop.
Prepare(i) ==
    /\ Running
    /\ pc[i] = "start"
    /\ Send(i, {leader(round_[i])}, prepare_message(round_[i], color_[i], color_round_[i]))
    /\ Goto(i, IF i = leader(round_[i]) THEN "prepares" ELSE "propose")
    /\ UNCHANGED <<color_, round_, color_round_, stash_, decided_, counted, timeouts, nancy>>

\* The type of message that receive() was called for.
Awaits(i) ==
    CASE pc[i] = "prepares" -> "prepare"
      [] pc[i] = "propose"  -> "propose"
      [] pc[i] = "acks"     -> "ack"
      [] OTHER              -> "nothing"

Wanted(i, p) == p.m.type = Awaits(i) /\ p.m.round = round_[i]

\* Mutant: this round's messages of another type are dropped.
Keep_OnlyLater(i, S) == {p \in S : p.m.round > round_[i]}

\* What receive() puts back in the stash: this round's and later ones.
Keep(i, S) == {p \in S : p.m.round >= round_[i]}

\* receive() goes through the stash first, then asks the port.
FromStash(i, p) ==
    /\ p \in stash_[i]
    /\ Wanted(i, p)
    /\ stash_' = [stash_ EXCEPT ![i] = Keep(i, @ \ {p})]

NoneStashed(i) == \A p \in stash_[i] : ~Wanted(i, p)

FromPort(i, p) ==
    /\ NoneStashed(i)
    /\ p \in Arriving(i)
    /\ p.m.type # "decide"
    /\ Wanted(i, p)
    /\ stash_' = [stash_ EXCEPT ![i] = Keep(i, @)]

\* receive() returns p's message to server i and leaves the links as Rest(i, p).
Receive(i, p) == Running /\ (FromStash(i, p) \/ FromPort(i, p))

Rest(i, p) == IF p \in stash_[i] THEN links_ ELSE Popped(p)

\* An unwanted message: kept for later, or dropped if its round is over.
Stash(i) ==
    /\ Running
    /\ Awaits(i) # "nothing"
    /\ NoneStashed(i)
    /\ \E p \in Arriving(i) :
        /\ p.m.type # "decide"
        /\ ~Wanted(i, p)
        /\ links_' = Popped(p)
        /\ stash_' = [stash_ EXCEPT ![i] = Keep(i, @ \cup {p})]
    /\ UNCHANGED <<pc, color_, round_, color_round_, decided_, counted, sent, timeouts, nancy>>

\* After the loop: DECIDE to Nancy and to everyone else.
Decide(L, i, c) ==
    /\ decided_' = [decided_ EXCEPT ![i] = TRUE]
    /\ SendOn(L, i, ({nancy_id} \cup Servers) \ {i}, decide_message(c))
    /\ Goto(i, "done")

\* A DECIDE: receive() returns made-up messages from here on, and whichever
\* phase called it leaves the loop.
Learn(i) ==
    /\ Running
    /\ Awaits(i) # "nothing"
    /\ NoneStashed(i)
    /\ \E p \in Arriving(i) :
        /\ p.m.type = "decide"
        /\ color_' = [color_ EXCEPT ![i] = p.m.color]
        /\ Decide(Popped(p), i, p.m.color)
    /\ UNCHANGED <<round_, color_round_, stash_, counted, timeouts, nancy>>

\* Mutant: the leader takes the last color it hears of.
Newer_Always(i, p) == TRUE

\* The leader learns of a color taken in a later round than its own.
Newer(i, p) == p.m.color_round > color_round_[i]

Latest(i, p) == IF Newer(i, p) THEN p.m.color ELSE color_[i]

\* Phase 2: one turn of the leader's loop over PREPAREs.  The last one leads to
\* phase 3 without a pause.
Collect(i) ==
    /\ pc[i] = "prepares"
    /\ \E p \in stash_[i] \cup Arriving(i) :
        /\ Receive(i, p)
        /\ color_' = [color_ EXCEPT ![i] = Latest(i, p)]
        /\ color_round_' = [color_round_ EXCEPT ![i] = IF Newer(i, p) THEN p.m.color_round ELSE @]
        /\ \/ /\ ~Most(counted[i] \cup {p})
              /\ counted' = [counted EXCEPT ![i] = @ \cup {p}]
              /\ links_' = Rest(i, p)
              /\ UNCHANGED <<pc, sent>>
           \/ /\ Most(counted[i] \cup {p})
              /\ counted' = [counted EXCEPT ![i] = {}]
              /\ SendOn(Rest(i, p), i, Servers, propose_message(round_[i], Latest(i, p)))
              /\ Goto(i, "propose")
    /\ UNCHANGED <<round_, decided_, timeouts, nancy>>

\* The end of phase 4 and, for all but the leader, phase 6.
Ack(L, i, b) ==
    /\ SendOn(L, i, {leader(round_[i])}, ack_message(round_[i], b))
    /\ \/ /\ i = leader(round_[i])
          /\ Goto(i, "acks")
          /\ UNCHANGED round_
       \/ /\ i # leader(round_[i])
          /\ Goto(i, "start")
          /\ round_' = [round_ EXCEPT ![i] = @ + 1]

\* Mutant: the server forgets in which round it took its color.
Accept_NoColorRound(i) ==
    /\ pc[i] = "propose"
    /\ \E p \in stash_[i] \cup Arriving(i) :
        /\ Receive(i, p)
        /\ color_' = [color_ EXCEPT ![i] = p.m.color]
        /\ Ack(Rest(i, p), i, TRUE)
    /\ UNCHANGED <<color_round_, decided_, counted, timeouts, nancy>>

\* Phase 4: the PROPOSE comes first.
Accept(i) ==
    /\ pc[i] = "propose"
    /\ \E p \in stash_[i] \cup Arriving(i) :
        /\ Receive(i, p)
        /\ color_' = [color_ EXCEPT ![i] = p.m.color]
        /\ Ack(Rest(i, p), i, TRUE)
    /\ color_round_' = [color_round_ EXCEPT ![i] = round_[i]]
    /\ UNCHANGED <<decided_, counted, timeouts, nancy>>

\* Phase 4: the failure detector comes first; attempt() destroys the receive()
\* where it sleeps, and what has not been popped stays in the port.
Suspect(i) ==
    /\ Running
    /\ pc[i] = "propose"
    /\ NoneStashed(i)
    /\ timeouts < MaxTimeouts
    /\ timeouts' = timeouts + 1
    /\ Ack(links_, i, FALSE)
    /\ UNCHANGED <<color_, color_round_, stash_, decided_, counted, nancy>>

Successes(S) == {p \in S : p.m.ack}

\* Phase 5: one turn of the leader's loop over ACKs, and after the last one the
\* decision or phase 6.
Count(i) ==
    /\ pc[i] = "acks"
    /\ \E p \in stash_[i] \cup Arriving(i) :
        LET acks == counted[i] \cup {p} IN
        /\ Receive(i, p)
        /\ \/ /\ ~Most(acks)
              /\ counted' = [counted EXCEPT ![i] = acks]
              /\ links_' = Rest(i, p)
              /\ UNCHANGED <<pc, round_, decided_, sent>>
           \/ /\ Most(acks) /\ Most(Successes(acks))
              /\ counted' = [counted EXCEPT ![i] = {}]
              /\ Decide(Rest(i, p), i, color_[i])
              /\ UNCHANGED round_
           \/ /\ Most(acks) /\ ~Most(Successes(acks))
              /\ counted' = [counted EXCEPT ![i] = {}]
              /\ links_' = Rest(i, p)
              /\ round_' = [round_ EXCEPT ![i] = @ + 1]
              /\ Goto(i, "start")
              /\ UNCHANGED <<decided_, sent>>
    /\ UNCHANGED <<color_, color_round_, timeouts, nancy>>

-----------------------------------------------------------------------------
(* Nancy. *)

\* She receives a message: an error if it is no DECIDE for a color that the
\* others and the initial colors allow; after most DECIDEs she sets a timer.
NancyReceive ==
    /\ Running
    /\ \E p \in Arriving(nancy_id) :
        /\ links_' = Popped(p)
        /\ \/ /\ \/ p.m.type # "decide" \/ p.m.color \notin Colors
                 \/ nancy.required # {} /\ p.m.color \notin nancy.required
                 \/ nancy.consensus # NoColor /\ p.m.color # nancy.consensus
              /\ nancy' = [nancy EXCEPT !.at = "error"]
           \/ /\ p.m.type = "decide" /\ p.m.color \in Colors
              /\ nancy.required = {} \/ p.m.color \in nancy.required
              /\ nancy.consensus \in {NoColor, p.m.color}
              /\ nancy' = [nancy EXCEPT !.consensus = p.m.color,
                                        !.got = @ \cup {p},
                                        !.at = IF Most(nancy.got \cup {p}) THEN "stopping" ELSE @]
    /\ UNCHANGED <<serverVars, sent, timeouts>>

\* Her timer goes off: she approves and clears the driver.
NancyStops ==
    /\ nancy.at = "stopping"
    /\ nancy' = [nancy EXCEPT !.at = "approves"]
    /\ UNCHANGED <<serverVars, sent, links_, timeouts>>

-----------------------------------------------------------------------------
Step(i) ==
    Prepare(i) \/ Collect(i) \/ Accept(i) \/ Count(i) \/ Stash(i) \/ Learn(i)

Next ==
    \/ \E i \in Servers : Step(i) \/ Suspect(i)
    \/ NancyReceive
    \/ NancyStops

Spec == Init /\ [][Next]_vars

\* The driver runs every coroutine that can run and every timer goes off; a
\* detector need not suspect anybody, and after MaxTimeouts none does.
Fairness ==
    /\ \A i \in Servers : WF_vars(Step(i))
    /\ WF_vars(NancyReceive)
    /\ WF_vars(NancyStops)

FairSpec == Spec /\ Fairness

-----------------------------------------------------------------------------
(* Correctness. *)

TypeOK ==
    /\ pc \in [Servers -> {"start", "prepares", "propose", "acks", "done"}]
    /\ color_ \in [Servers -> Colors]
    /\ round_ \in [Servers -> Nat \ {0}]
    /\ color_round_ \in [Servers -> Nat]
    /\ stash_ \in [Servers -> SUBSET Packets]
    /\ decided_ \in [Servers -> BOOLEAN]
    /\ counted \in [Servers -> SUBSET Packets]
    /\ sent \subseteq Packets
    /\ links_ \in [Links -> Seq(sent)]

\* Two servers that decided, by counting ACKs or by hearing of it, in whatever
\* rounds, decided for the same color.
Agreement == \A i, j \in Servers : decided_[i] /\ decided_[j] => color_[i] = color_[j]

Proposals == {p.m : p \in {q \in sent : q.m.type = "propose"}}
Accepted(r) == {p.from : p \in {q \in sent : q.m.type = "ack" /\ q.m.round = r /\ q.m.ack}}

\* Once most servers accepted a round's color, no later round proposes another,
\* whoever leads it and however late the messages are.
ColorLocked ==
    \A m1, m2 \in Proposals :
        m1.round <= m2.round /\ Most(Accepted(m1.round)) => m1.color = m2.color

\* If the failure detectors leave the leaders alone some day, Nancy hears of a
\* decision from most servers.
Terminates == <>(nancy.at = "approves")

=============================================================================
