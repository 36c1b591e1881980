------------------------- MODULE CtConsensusProofs -------------------------
(***************************************************************************)
(* Agreement of CtConsensus, for any number of servers, colors and         *)
(* suspicions.  The argument is the one of ballot protocols: a leader that *)
(* heard from most servers knows that every earlier round either can no    *)
(* longer choose anything (Dead) or proposed what it is going to propose   *)
(* itself (SafeAt).  The rest of the invariant says what makes a PREPARE a *)
(* promise and counts every server once.                                   *)
(***************************************************************************)
EXTENDS CtConsensus, FiniteSetTheorems, TLAPS

IsPrepare(p) == p.m.type = "prepare"
IsPropose(p) == p.m.type = "propose"
IsAck(p) == p.m.type = "ack"
IsDecide(p) == p.m.type = "decide"

\* The leader of round r proposed c; server j accepted what it proposed.
ProposedAt(r, c) == \E p \in sent : IsPropose(p) /\ p.m.round = r /\ p.m.color = c
Voted(j, r) == \E p \in sent : IsAck(p) /\ p.m.ack /\ p.from = j /\ p.m.round = r

\* Most servers have left round r without accepting anything: nothing can be
\* accepted by most servers in that round any more.
Dead(r) ==
    \E Q \in SUBSET Servers : Most(Q) /\ \A j \in Q : round_[j] > r /\ ~Voted(j, r)

\* No round before r has chosen, or can choose, another color than c.
SafeAt(r, c) == \A r2 \in 1 .. (r - 1) : Dead(r2) \/ ProposedAt(r2, c)

\* Most servers accepted c in some round.
Chosen(c) == \E r \in Nat : ProposedAt(r, c) /\ Most({j \in Servers : Voted(j, r)})

\* The packets that were sent on link k.
On(k) == {p \in sent : <<p.from, p.to>> = k}

Carries(L) == \A k \in Links : L[k] \in Seq(On(k))

\* What is on a link, stashed or counted was sent, on that link.
NetInv ==
    /\ Carries(links_)
    /\ \A i \in Servers : stash_[i] \subseteq sent /\ counted[i] \subseteq sent

\* What a server's variables say of what was sent.
ServerOK(i) ==
    /\ color_round_[i] <= round_[i]
    /\ pc[i] \in {"start", "prepares", "propose"} => color_round_[i] < round_[i]
    /\ pc[i] \in {"prepares", "acks"} => i = leader(round_[i])
    /\ decided_[i] => pc[i] = "done" /\ Chosen(color_[i])
    /\ pc[i] # "done" /\ color_round_[i] > 0 => ProposedAt(color_round_[i], color_[i])
    /\ pc[i] \in {"start", "propose"} => counted[i] = {}
    /\ \A p \in counted[i] :
          /\ pc[i] = "prepares" => /\ IsPrepare(p) /\ p.m.round = round_[i]
                                  /\ p.m.color_round <= color_round_[i]
          /\ pc[i] = "acks" => IsAck(p) /\ p.m.round = round_[i]

\* A PREPARE is a promise: its sender accepted nothing between the round it
\* names and its own.
PrepareOK(p) ==
    /\ p.m.color \in Colors
    /\ p.m.color_round < p.m.round
    /\ p.m.round <= round_[p.from]
    /\ p.m.round = round_[p.from] => pc[p.from] # "start"
    /\ p.m.color_round > 0 => ProposedAt(p.m.color_round, p.m.color)
    /\ \A r \in Nat : r < p.m.round /\ Voted(p.from, r) => r <= p.m.color_round

AckOK(p) ==
    /\ p.m.round <= round_[p.from]
    /\ p.m.round = round_[p.from] => pc[p.from] \in {"acks", "done"}
    /\ p.m.ack => /\ p.m.round <= color_round_[p.from]
                  /\ \E c \in Colors : ProposedAt(p.m.round, c)

ProposeOK(p) ==
    /\ p.m.color \in Colors
    /\ p.m.round >= 1
    /\ p.from = leader(p.m.round)
    /\ p.m.round <= round_[p.from]
    /\ p.m.round = round_[p.from] =>
          /\ pc[p.from] \in {"propose", "acks", "done"}
          /\ pc[p.from] # "done" => p.m.color = color_[p.from]
    /\ SafeAt(p.m.round, p.m.color)

PacketOK(p) ==
    /\ IsPrepare(p) => PrepareOK(p)
    /\ IsAck(p) => AckOK(p)
    /\ IsPropose(p) => ProposeOK(p)
    /\ IsDecide(p) => p.m.color \in Colors /\ Chosen(p.m.color)

\* One PREPARE, one ACK and one color per round.
Once ==
    \A p, q \in sent : p.m.type = q.m.type /\ p.m.round = q.m.round =>
        /\ (IsPrepare(p) \/ IsAck(p)) /\ p.from = q.from => p = q
        /\ IsPropose(p) => p.m.color = q.m.color

IInv ==
    /\ TypeOK
    /\ NetInv
    /\ \A i \in Servers : ServerOK(i)
    /\ \A p \in sent : PacketOK(p)
    /\ Once

-----------------------------------------------------------------------------
(* Majorities. *)

\* There are N servers.
LEMMA ServersFinite == IsFiniteSet(Servers) /\ Cardinality(Servers) = N
  <1>1. 0 \in Int /\ N - 1 \in Int /\ 0 <= N - 1 + 1
    BY ConsensusAssumption
  <1> QED BY <1>1, FS_Interval, ConsensusAssumption DEF Servers

\* A set of servers that includes most of them is most of them.
LEMMA MostLarger ==
  ASSUME NEW S \in SUBSET Servers, NEW R \in SUBSET S, Most(R)
  PROVE  Most(S)
  <1>1. IsFiniteSet(S) BY ServersFinite, FS_Subset
  <1>2. Cardinality(R) \in Nat /\ Cardinality(S) \in Nat /\ Cardinality(R) <= Cardinality(S)
    BY <1>1, FS_Subset, FS_CardinalityType
  <1> QED BY <1>2, ConsensusAssumption DEF Most

\* Two majorities have a server in common.
LEMMA MostMeet ==
  ASSUME NEW Q \in SUBSET Servers, NEW R \in SUBSET Servers, Most(Q), Most(R)
  PROVE  \E j \in Q : j \in R
  <1>1. IsFiniteSet(Q) /\ IsFiniteSet(R) BY ServersFinite, FS_Subset
  <1>2. Cardinality(Q) \in Nat /\ Cardinality(R) \in Nat BY <1>1, FS_CardinalityType
  <1>3. Cardinality(Q) + Cardinality(R) > Cardinality(Servers)
    BY <1>2, ServersFinite, ConsensusAssumption DEF Most
  <1>4. Q \cap R # {} BY <1>3, ServersFinite, FS_MajoritiesIntersect
  <1> QED BY <1>4

\* Packets of different senders: as many senders as packets.
LEMMA MostSenders ==
  ASSUME NEW S, \A p \in S : p.from \in Servers,
         \A p, q \in S : p.from = q.from => p = q, Most(S)
  PROVE  Most({p.from : p \in S})
  <1> DEFINE F == {p.from : p \in S}
  <1> DEFINE f == [p \in S |-> p.from]
  <1>1. IsFiniteSet(F) BY ServersFinite, FS_Subset
  <1>2. f \in Injection(S, F) BY DEF Injection, IsInjective
  <1>3. IsFiniteSet(S) /\ Cardinality(S) <= Cardinality(F) BY <1>1, <1>2, FS_Injection
  <1>4. Cardinality(S) \in Nat /\ Cardinality(F) \in Nat BY <1>1, <1>3, FS_CardinalityType
  <1> QED BY <1>3, <1>4, ConsensusAssumption DEF Most

\* The leader of a round is a server.
LEMMA LeaderServer == \A r \in Nat : leader(r) \in Servers
  BY ConsensusAssumption DEF leader, Servers

-----------------------------------------------------------------------------
(* The network. *)

\* What a server takes from its stash or its port was sent, and what is left on
\* the links was sent too.
LEMMA Deliver ==
  ASSUME TypeOK, NetInv, NEW j \in 0 .. N, NEW p \in Arriving(j)
  PROVE  /\ p \in sent
         /\ Popped(p) \in [Links -> Seq(sent)]
         /\ Carries(Popped(p))
  <1>1. PICK k \in Servers : links_[<<k, j>>] # << >> /\ p = Head(links_[<<k, j>>])
    BY DEF Arriving
  <1> DEFINE l == <<k, j>>
  <1>2. l \in Links BY DEF Links
  <1> HIDE DEF l
  <1>3. links_[l] \in Seq(sent) /\ links_[l] \in Seq(On(l))
    BY <1>2 DEF TypeOK, NetInv, Carries
  <1>4. links_[l] # << >> /\ p = Head(links_[l]) BY <1>1 DEF l
  <1>5. p \in sent /\ p \in On(l) BY <1>3, <1>4
  <1>6. <<p.from, p.to>> = l BY <1>5 DEF On
  <1>7. Tail(links_[l]) \in Seq(sent) /\ Tail(links_[l]) \in Seq(On(l)) BY <1>3, <1>4
  <1>8. Popped(p) = [links_ EXCEPT ![l] = Tail(links_[l])] BY <1>6 DEF Popped
  <1>9. links_ \in [Links -> Seq(sent)] BY DEF TypeOK
  <1>10. Popped(p) \in [Links -> Seq(sent)] BY <1>2, <1>7, <1>8, <1>9
  <1>11. \A k2 \in Links : Popped(p)[k2] = IF k2 = l THEN Tail(links_[l]) ELSE links_[k2]
    BY <1>2, <1>8, <1>9
  <1>12. Carries(Popped(p)) BY <1>7, <1>11 DEF Carries, NetInv
  <1> QED BY <1>5, <1>10, <1>12

\* receive() returns a packet that was sent, of the type and round asked for.
LEMMA Received ==
  ASSUME TypeOK, NetInv, NEW i \in Servers, NEW p \in stash_[i] \cup Arriving(i), Receive(i, p)
  PROVE  /\ p \in sent /\ Wanted(i, p)
         /\ Rest(i, p) \in [Links -> Seq(sent)] /\ Carries(Rest(i, p))
         /\ stash_' \in [Servers -> SUBSET sent]
  <1>1. Wanted(i, p) BY DEF Receive, FromStash, FromPort
  <1>2. p \in sent
    BY Deliver, ConsensusAssumption DEF NetInv, Servers
  <1>3. Rest(i, p) \in [Links -> Seq(sent)] /\ Carries(Rest(i, p))
    <2>1. CASE p \in stash_[i] BY <2>1 DEF Rest, TypeOK, NetInv
    <2>2. CASE p \notin stash_[i]
      BY <2>2, Deliver, ConsensusAssumption DEF Rest, Servers
    <2> QED BY <2>1, <2>2
  <1>4. stash_' \in [Servers -> SUBSET sent]
    BY ZenonT(60) DEF Receive, FromStash, FromPort, Keep, NetInv, TypeOK
  <1> QED BY <1>1, <1>2, <1>3, <1>4

\* A send adds the packets to what was sent and to the end of their links.
LEMMA Sends ==
  ASSUME NEW L \in [Links -> Seq(sent)], Carries(L), sent \subseteq Packets,
         NEW i \in Servers, NEW J \in SUBSET (0 .. N), NEW m \in Messages, SendOn(L, i, J, m)
  PROVE  /\ sent \subseteq sent' /\ sent' \subseteq Packets
         /\ \A p \in sent' : p \in sent \/ (p.from = i /\ p.m = m /\ p.to \in J)
         /\ \A j \in J : [from |-> i, to |-> j, m |-> m] \in sent'
         /\ links_' \in [Links -> Seq(sent')]
         /\ Carries(links_)'
  <1>1. sent' = sent \cup {[from |-> i, to |-> j, m |-> m] : j \in J} BY DEF SendOn
  <1>2. sent \subseteq sent' /\ \A j \in J : [from |-> i, to |-> j, m |-> m] \in sent'
    BY <1>1
  <1>3. \A p \in sent' : p \in sent \/ (p.from = i /\ p.m = m /\ p.to \in J) BY <1>1
  <1>4. sent' \subseteq Packets BY <1>1 DEF Packets
  <1>5. ASSUME NEW k \in Links
        PROVE  links_'[k] \in Seq(sent') /\ links_'[k] \in Seq(On(k)')
    <2>1. On(k) \subseteq On(k)' BY <1>2 DEF On
    <2>2. L[k] \in Seq(sent) /\ L[k] \in Seq(On(k)) BY DEF Carries
    <2>3. L[k] \in Seq(sent') /\ L[k] \in Seq(On(k)') BY <1>2, <2>1, <2>2
    <2>4. CASE k[1] = i /\ k[2] \in J
      <3> DEFINE q == [from |-> i, to |-> k[2], m |-> m]
      <3>1. links_'[k] = Append(L[k], q) BY <2>4 DEF SendOn
      <3>2. q \in sent' BY <1>2, <2>4
      <3>3. <<q.from, q.to>> = k BY <2>4 DEF Links
      <3>4. q \in On(k)' BY <3>2, <3>3 DEF On
      <3> HIDE DEF q
      <3> QED BY <2>3, <3>1, <3>2, <3>4
    <2>5. CASE ~(k[1] = i /\ k[2] \in J)
      <3>1. links_'[k] = L[k] BY <2>5 DEF SendOn
      <3> QED BY <2>3, <3>1
    <2> QED BY <2>4, <2>5
  <1>6. links_' \in [Links -> Seq(sent')]
    <2>1. links_' = [k \in Links |-> links_'[k]] BY DEF SendOn
    <2> QED BY <1>5, <2>1
  <1>7. Carries(links_)' BY <1>5 DEF Carries
  <1> QED BY <1>2, <1>3, <1>4, <1>6, <1>7

-----------------------------------------------------------------------------
(* What a step of one server leaves alone. *)

\* Server i sends what it likes, acknowledges its own round only, and goes on
\* through the rounds and the phases of a round.
Frame(i) ==
    /\ sent \subseteq sent'
    /\ \A p \in sent' : p \in sent \/ (p.from = i /\ (IsAck(p) => p.m.round = round_[i]))
    /\ \A j \in Servers \ {i} :
          /\ pc'[j] = pc[j] /\ decided_'[j] = decided_[j] /\ counted'[j] = counted[j]
          /\ color_'[j] = color_[j] /\ round_'[j] = round_[j] /\ color_round_'[j] = color_round_[j]
    /\ round_'[i] >= round_[i] /\ color_round_'[i] >= color_round_[i]
    /\ round_'[i] = round_[i] =>
          /\ pc'[i] # "start"
          /\ pc[i] \in {"acks", "done"} => pc'[i] \in {"acks", "done"}
          /\ pc[i] \in {"propose", "acks", "done"} => pc'[i] \in {"propose", "acks", "done"}
          /\ \A p \in sent :
                pc'[i] # "done" /\ IsPropose(p) /\ p.from = i /\ p.m.round = round_[i]
                => p.m.color = color_'[i]

\* What was proposed, accepted or chosen stays so.
LEMMA Stays ==
  ASSUME sent \subseteq sent'
  PROVE  /\ \A r, c : ProposedAt(r, c) => ProposedAt(r, c)'
         /\ \A j, r : Voted(j, r) => Voted(j, r)'
         /\ \A c : Chosen(c) => Chosen(c)'
  <1>1. \A r, c : ProposedAt(r, c) => ProposedAt(r, c)' BY DEF ProposedAt
  <1>2. \A j, r : Voted(j, r) => Voted(j, r)' BY DEF Voted
  <1>3. ASSUME NEW c, Chosen(c) PROVE Chosen(c)'
    <2>1. PICK r \in Nat : ProposedAt(r, c) /\ Most({j \in Servers : Voted(j, r)})
      BY <1>3 DEF Chosen
    <2>2. {j \in Servers : Voted(j, r)} \subseteq {j \in Servers : Voted(j, r)'} BY <1>2
    <2>3. Most({j \in Servers : Voted(j, r)'}) BY <2>1, <2>2, MostLarger
    <2>4. ProposedAt(r, c)' BY <1>1, <2>1
    <2> QED BY <2>3, <2>4 DEF Chosen, Most, Servers
  <1> QED BY <1>1, <1>2, <1>3

\* Rounds are natural numbers, and a step only increases them.
LEMMA RoundsGrow ==
  ASSUME TypeOK, TypeOK', NEW i \in Servers, Frame(i), NEW j \in Servers
  PROVE  /\ round_[j] \in Nat /\ round_'[j] \in Nat /\ round_'[j] >= round_[j]
         /\ color_round_[j] \in Nat /\ color_round_'[j] \in Nat
         /\ color_round_'[j] >= color_round_[j]
  <1>1. round_[j] \in Nat /\ color_round_[j] \in Nat BY DEF TypeOK
  <1>2. round_'[j] \in Nat /\ color_round_'[j] \in Nat BY DEF TypeOK
  <1>3. round_'[j] >= round_[j] /\ color_round_'[j] >= color_round_[j]
    <2>1. CASE j = i BY <2>1 DEF Frame
    <2>2. CASE j # i
      <3>1. round_'[j] = round_[j] /\ color_round_'[j] = color_round_[j] BY <2>2 DEF Frame
      <3> QED BY <1>1, <3>1
    <2> QED BY <2>1, <2>2
  <1> QED BY <1>1, <1>2, <1>3

\* A dead round stays dead, so a safe color stays safe.
LEMMA DeadStays ==
  ASSUME TypeOK, TypeOK', NEW i \in Servers, Frame(i)
  PROVE  \A r \in Nat : \A c : SafeAt(r, c) => SafeAt(r, c)'
  <1>1. \A j \in Servers : round_'[j] >= round_[j] /\ round_[j] \in Nat /\ round_'[j] \in Nat
    BY RoundsGrow
  <1>2. ASSUME NEW j \in Servers, NEW r \in Nat, round_[j] > r, Voted(j, r)'
        PROVE  Voted(j, r)
    BY <1>1, <1>2 DEF Voted, Frame
  <1>3. ASSUME NEW r \in Nat, Dead(r) PROVE Dead(r)'
    <2>1. PICK Q \in SUBSET Servers : Most(Q) /\ \A j \in Q : round_[j] > r /\ ~Voted(j, r)
      BY <1>3 DEF Dead
    <2>2. \A j \in Q : round_'[j] > r /\ ~Voted(j, r)'
      <3> SUFFICES ASSUME NEW j \in Q PROVE round_'[j] > r /\ ~Voted(j, r)' OBVIOUS
      <3>1. round_'[j] > r BY <1>1, <2>1
      <3>2. ~Voted(j, r)' BY <1>2, <2>1
      <3> QED BY <3>1, <3>2
    <2> QED BY <2>1, <2>2 DEF Dead, Most, Servers
  <1>4. sent \subseteq sent' BY DEF Frame
  <1> QED BY <1>3, <1>4, Stays DEF SafeAt

\* The other servers, and what was sent before, are as they were.
LEMMA FrameInv ==
  ASSUME IInv, TypeOK', NEW i \in Servers, Frame(i)
  PROVE  /\ \A j \in Servers \ {i} : ServerOK(j)'
         /\ \A p \in sent : PacketOK(p)'
  <1>0. sent \subseteq sent' BY DEF Frame
  <1>1. /\ \A r, c : ProposedAt(r, c) => ProposedAt(r, c)'
        /\ \A c : Chosen(c) => Chosen(c)'
    BY <1>0, Stays
  <1>2. \A r \in Nat : \A c : SafeAt(r, c) => SafeAt(r, c)' BY DeadStays DEF IInv
  <1>3. ASSUME NEW j \in Servers \ {i} PROVE ServerOK(j)'
    <2>1. ServerOK(j) BY DEF IInv
    <2> QED BY <1>1, <2>1 DEF ServerOK, Frame, leader
  <1>4. ASSUME NEW p \in sent PROVE PacketOK(p)'
    <2>0. p \in Packets /\ PacketOK(p) /\ p.from \in Servers /\ p.m \in Messages
      BY DEF IInv, TypeOK, Packets
    <2>00. p.m.round \in Nat /\ p.m.color_round \in Nat BY <2>0 DEF Messages
    <2>01. /\ round_[p.from] \in Nat /\ round_'[p.from] \in Nat
           /\ color_round_[p.from] \in Nat /\ color_round_'[p.from] \in Nat
           /\ round_'[p.from] >= round_[p.from] /\ color_round_'[p.from] >= color_round_[p.from]
      BY <2>0, RoundsGrow DEF IInv
    <2>1. ASSUME IsPrepare(p) PROVE PrepareOK(p)'
      <3>1. PrepareOK(p) BY <2>0, <2>1 DEF PacketOK
      <3>2. ASSUME NEW r \in Nat, r < p.m.round, Voted(p.from, r)' PROVE Voted(p.from, r)
        BY <2>00, <2>01, <3>1, <3>2 DEF Voted, Frame, PrepareOK
      <3>3. p.m.round = round_'[p.from] => pc'[p.from] # "start"
        BY <2>0, <2>00, <2>01, <3>1 DEF PrepareOK, Frame
      <3>4. p.m.round <= round_'[p.from] BY <2>00, <2>01, <3>1 DEF PrepareOK
      <3> QED BY <1>1, <3>1, <3>2, <3>3, <3>4 DEF PrepareOK
    <2>2. ASSUME IsAck(p) PROVE AckOK(p)'
      <3>1. AckOK(p) BY <2>0, <2>2 DEF PacketOK
      <3>2. p.m.round <= round_'[p.from] BY <2>00, <2>01, <3>1 DEF AckOK
      <3>3. p.m.round = round_'[p.from] => pc'[p.from] \in {"acks", "done"}
        BY <2>0, <2>00, <2>01, <3>1 DEF AckOK, Frame
      <3>4. p.m.ack => p.m.round <= color_round_'[p.from] BY <2>00, <2>01, <3>1 DEF AckOK
      <3> QED BY <1>1, <3>1, <3>2, <3>3, <3>4 DEF AckOK
    <2>3. ASSUME IsPropose(p) PROVE ProposeOK(p)'
      <3>1. ProposeOK(p) BY <2>0, <2>3 DEF PacketOK
      <3>2. p.m.round <= round_'[p.from] BY <2>00, <2>01, <3>1 DEF ProposeOK
      <3>3. p.m.round = round_'[p.from] => pc'[p.from] \in {"propose", "acks", "done"}
        BY <2>0, <2>00, <2>01, <3>1 DEF ProposeOK, Frame
      <3>4. p.m.round = round_'[p.from] /\ pc'[p.from] # "done" => p.m.color = color_'[p.from]
        <4>1. CASE p.from # i
          <5>1. /\ pc'[p.from] = pc[p.from] /\ color_'[p.from] = color_[p.from]
                /\ round_'[p.from] = round_[p.from]
            BY <2>0, <4>1 DEF Frame
          <5> QED BY <3>1, <5>1 DEF ProposeOK
        <4>2. CASE p.from = i
          <5> SUFFICES ASSUME p.m.round = round_'[i], pc'[i] # "done"
                       PROVE  p.m.color = color_'[i]
            BY <4>2
          <5>1. round_'[i] = round_[i] BY <2>00, <2>01, <3>1, <4>2 DEF ProposeOK
          <5> QED BY <2>3, <4>2, <5>1 DEF Frame
        <4> QED BY <4>1, <4>2
      <3>5. SafeAt(p.m.round, p.m.color)' BY <1>2, <2>00, <3>1 DEF ProposeOK
      <3> QED BY <3>1, <3>2, <3>3, <3>4, <3>5 DEF ProposeOK, leader
    <2>4. IsDecide(p) => p.m.color \in Colors /\ Chosen(p.m.color)' BY <1>1, <2>0 DEF PacketOK
    <2> QED BY <2>1, <2>2, <2>3, <2>4 DEF PacketOK, IsPrepare, IsAck, IsPropose, IsDecide
  <1> QED BY <1>3, <1>4

-----------------------------------------------------------------------------
(* The steps of a server. *)

\* What is left to show of a step of server i: its own state and what it sends.
LEMMA Assemble ==
  ASSUME IInv, TypeOK', NetInv', NEW i \in Servers, Frame(i), ServerOK(i)',
         \A p \in sent' : p \in sent \/ PacketOK(p)', Once'
  PROVE  IInv'
  <1>1. \A j \in Servers \ {i} : ServerOK(j)' BY FrameInv
  <1>2. \A p \in sent : PacketOK(p)' BY FrameInv
  <1>3. \A j \in Servers : ServerOK(j)' BY <1>1
  <1>4. \A p \in sent' : PacketOK(p)' BY <1>2
  <1> QED BY <1>3, <1>4 DEF IInv, Servers

\* The types of what was sent.
LEMMA PacketTypes ==
  ASSUME TypeOK, NEW p \in sent
  PROVE  /\ p.from \in Servers /\ p.to \in 0 .. N /\ p.m \in Messages
         /\ p.m.type \in Types /\ p.m.round \in Nat /\ p.m.color_round \in Nat
         /\ p.m.ack \in BOOLEAN
         /\ p = [from |-> p.from, to |-> p.to, m |-> p.m]
  <1>1. p \in Packets BY DEF TypeOK
  <1> QED BY <1>1 DEF Packets, Messages

\* A server that is waiting in its loop or at its top has not decided.
LEMMA ServerTypes ==
  ASSUME TypeOK, NEW i \in Servers
  PROVE  /\ pc[i] \in {"start", "prepares", "propose", "acks", "done"}
         /\ color_[i] \in Colors /\ round_[i] \in Nat /\ round_[i] >= 1
         /\ color_round_[i] \in Nat /\ leader(round_[i]) \in 0 .. N
         /\ decided_[i] \in BOOLEAN
  <1>1. round_[i] \in Nat \ {0} BY DEF TypeOK
  <1>2. leader(round_[i]) \in Servers BY <1>1, LeaderServer
  <1>3. leader(round_[i]) \in 0 .. N BY <1>2, ConsensusAssumption DEF Servers
  <1> QED BY <1>1, <1>3 DEF TypeOK

LEMMA PrepareStep ==
  ASSUME IInv, NEW i \in Servers, Prepare(i)
  PROVE  IInv'
  <1> DEFINE m == prepare_message(round_[i], color_[i], color_round_[i])
  <1> DEFINE l == leader(round_[i])
  <1>0. TypeOK /\ NetInv /\ ServerOK(i) /\ Once /\ \A p \in sent : PacketOK(p) BY DEF IInv
  <1>1. /\ pc[i] = "start"
        /\ pc' = [pc EXCEPT ![i] = IF i = l THEN "prepares" ELSE "propose"]
        /\ SendOn(links_, i, {l}, m)
        /\ UNCHANGED <<color_, round_, color_round_, stash_, decided_, counted>>
    BY DEF Prepare, Send, Goto
  <1>2. m \in Messages /\ l \in 0 .. N
    BY <1>0, ServerTypes DEF Messages, prepare_message, Types
  <1>3. m.type = "prepare" /\ m.round = round_[i] /\ m.color = color_[i] /\ m.color_round = color_round_[i]
    BY DEF prepare_message
  <1> HIDE DEF m, l
  <1>4. /\ sent \subseteq sent' /\ sent' \subseteq Packets
        /\ \A p \in sent' : p \in sent \/ (p.from = i /\ p.m = m /\ p.to = l)
        /\ links_' \in [Links -> Seq(sent')] /\ Carries(links_)'
    <2>1. links_ \in [Links -> Seq(sent)] /\ Carries(links_) /\ sent \subseteq Packets
      BY <1>0 DEF TypeOK, NetInv
    <2>2. {l} \in SUBSET (0 .. N) BY <1>2
    <2>3. /\ sent \subseteq sent' /\ sent' \subseteq Packets
          /\ \A p \in sent' : p \in sent \/ (p.from = i /\ p.m = m /\ p.to \in {l})
          /\ links_' \in [Links -> Seq(sent')] /\ Carries(links_)'
      BY <1>1, <1>2, <2>1, <2>2, Sends
    <2> QED BY <2>3
  <1>5. TypeOK'
    <2>1. pc' \in [Servers -> {"start", "prepares", "propose", "acks", "done"}]
      BY <1>0, <1>1 DEF TypeOK
    <2> QED BY <1>0, <1>1, <1>4, <2>1 DEF TypeOK, Links, Servers, Packets
  <1>6. NetInv' BY <1>0, <1>1, <1>4 DEF NetInv
  <1>7. pc'[i] \in {"prepares", "propose"} /\ (pc'[i] = "prepares" => i = l)
    BY <1>0, <1>1 DEF TypeOK
  <1>8. Frame(i)
    <2>1. \A p \in sent' : p \in sent \/ (p.from = i /\ (IsAck(p) => p.m.round = round_[i]))
      BY <1>3, <1>4 DEF IsAck
    <2>2. \A j \in Servers \ {i} : pc'[j] = pc[j] BY <1>0, <1>1 DEF TypeOK
    <2>3. \A p \in sent : ~(IsPropose(p) /\ p.from = i /\ p.m.round = round_[i])
      BY <1>0, <1>1 DEF PacketOK, ProposeOK
    <2>4. round_[i] \in Nat /\ color_round_[i] \in Nat BY <1>0, ServerTypes
    <2>5. round_[i] >= round_[i] /\ color_round_[i] >= color_round_[i] BY <2>4
    <2>6. \A j \in Servers \ {i} :
            /\ pc'[j] = pc[j] /\ decided_'[j] = decided_[j] /\ counted'[j] = counted[j]
            /\ color_'[j] = color_[j] /\ round_'[j] = round_[j] /\ color_round_'[j] = color_round_[j]
      BY <1>1, <2>2
    <2>7. round_'[i] >= round_[i] /\ color_round_'[i] >= color_round_[i] BY <1>1, <2>5
    <2>8. pc'[i] # "start" /\ pc[i] \notin {"propose", "acks", "done"} BY <1>1, <1>7
    <2> QED BY <1>4, <2>1, <2>3, <2>6, <2>7, <2>8 DEF Frame
  <1>9. sent \subseteq sent' /\ (\A r, c : ProposedAt(r, c) => ProposedAt(r, c)')
    BY <1>4, Stays
  <1>10. ServerOK(i)'
    <2>1. pc[i] # "done" /\ color_round_[i] < round_[i] /\ counted[i] = {} /\ ~decided_[i]
      BY <1>0, <1>1 DEF ServerOK
    <2> QED BY <1>0, <1>1, <1>7, <1>9, <2>1 DEF ServerOK, l
  <1>11. ASSUME NEW p \in sent', p \notin sent PROVE PacketOK(p)'
    <2>1. p.from = i /\ p.m = m BY <1>4, <1>11
    <2>2. PrepareOK(p)'
      <3>1. color_round_[i] < round_[i] /\ (color_round_[i] > 0 => ProposedAt(color_round_[i], color_[i]))
        BY <1>0, <1>1 DEF ServerOK
      <3>2. ASSUME NEW r \in Nat, Voted(i, r)' PROVE r <= color_round_[i]
        <4>1. PICK q \in sent' : IsAck(q) /\ q.m.ack /\ q.from = i /\ q.m.round = r
          BY <3>2 DEF Voted
        <4>2. q \in sent BY <1>3, <1>4, <4>1 DEF IsAck
        <4> QED BY <1>0, <4>1, <4>2 DEF PacketOK, AckOK
      <3>3. color_[i] \in Colors /\ round_[i] \in Nat BY <1>0, ServerTypes
      <3> QED BY <1>1, <1>3, <1>7, <1>9, <2>1, <3>1, <3>2, <3>3 DEF PrepareOK
    <2> QED BY <1>3, <2>1, <2>2 DEF PacketOK, IsPrepare, IsAck, IsPropose, IsDecide
  <1>12. Once'
    <2> SUFFICES ASSUME NEW p \in sent', NEW q \in sent', p.m.type = q.m.type, p.m.round = q.m.round
                 PROVE  /\ (IsPrepare(p) \/ IsAck(p)) /\ p.from = q.from => p = q
                        /\ IsPropose(p) => p.m.color = q.m.color
      BY DEF Once, IsPrepare, IsAck, IsPropose
    <2>1. CASE p \in sent /\ q \in sent BY <1>0, <2>1 DEF Once
    <2>2. ASSUME NEW x \in sent, IsPrepare(x), x.from = i, x.m.round = round_[i] PROVE FALSE
      BY <1>0, <1>1, <2>2 DEF PacketOK, PrepareOK
    <2>3. CASE p \notin sent /\ q \in sent BY <1>3, <1>4, <2>2, <2>3 DEF IsPrepare, IsAck, IsPropose
    <2>4. CASE p \in sent /\ q \notin sent BY <1>3, <1>4, <2>2, <2>4 DEF IsPrepare, IsAck, IsPropose
    <2>5. CASE p \notin sent /\ q \notin sent
      <3>1. p.m = m /\ q.m = m /\ p.from = q.from /\ p.to = q.to BY <1>4, <2>5
      <3>2. p \in Packets /\ q \in Packets BY <1>4
      <3>3. p = q BY <3>1, <3>2 DEF Packets
      <3> QED BY <3>1, <3>3
    <2> QED BY <2>1, <2>3, <2>4, <2>5
  <1> QED BY <1>5, <1>6, <1>8, <1>10, <1>11, <1>12, Assemble

\* The leader's color after one more PREPARE.
LEMMA CollectFacts ==
  ASSUME IInv, NEW i \in Servers, pc[i] = "prepares", NEW p \in sent, Wanted(i, p),
         NEW cr, cr = (IF Newer(i, p) THEN p.m.color_round ELSE color_round_[i]),
         NEW c, c = Latest(i, p)
  PROVE  /\ IsPrepare(p) /\ p.m.round = round_[i] /\ PrepareOK(p)
         /\ cr \in Nat /\ color_round_[i] <= cr /\ p.m.color_round <= cr /\ cr < round_[i]
         /\ c \in Colors /\ (cr > 0 => ProposedAt(cr, c))
  <1>1. IsPrepare(p) /\ p.m.round = round_[i] BY DEF Wanted, Awaits, IsPrepare
  <1>2. PrepareOK(p) /\ ServerOK(i) BY <1>1 DEF IInv, PacketOK
  <1>3. p.m.color_round \in Nat /\ p.m.round \in Nat BY PacketTypes DEF IInv
  <1>4. color_round_[i] \in Nat /\ color_[i] \in Colors /\ round_[i] \in Nat BY ServerTypes DEF IInv
  <1>5. color_round_[i] < round_[i] /\ (color_round_[i] > 0 => ProposedAt(color_round_[i], color_[i]))
    BY <1>2 DEF ServerOK
  <1>6. /\ p.m.color \in Colors /\ p.m.color_round < p.m.round
        /\ p.m.color_round > 0 => ProposedAt(p.m.color_round, p.m.color)
    BY <1>2 DEF PrepareOK
  <1>7. CASE Newer(i, p)
    <2>1. cr = p.m.color_round /\ c = p.m.color BY <1>7 DEF Latest
    <2> QED BY <1>1, <1>2, <1>3, <1>4, <1>6, <1>7, <2>1 DEF Newer
  <1>8. CASE ~Newer(i, p)
    <2>1. cr = color_round_[i] /\ c = color_[i] BY <1>8 DEF Latest
    <2> QED BY <1>1, <1>2, <1>3, <1>4, <1>5, <1>8, <2>1 DEF Newer
  <1> QED BY <1>7, <1>8

\* A leader that heard from most servers proposes a safe color.
LEMMA CollectSafe ==
  ASSUME IInv, NEW r \in Nat, NEW c, NEW cr \in Nat, cr > 0 => ProposedAt(cr, c),
         NEW S \in SUBSET sent, Most(S),
         \A p \in S : IsPrepare(p) /\ p.m.round = r /\ p.m.color_round <= cr
  PROVE  SafeAt(r, c)
  <1> DEFINE Q == {p.from : p \in S}
  <1>1. \A p \in S : /\ p.from \in Servers /\ PrepareOK(p)
                     /\ p.m.color_round \in Nat /\ round_[p.from] \in Nat
    BY PacketTypes, ServerTypes DEF IInv, PacketOK
  <1>2. \A p, q \in S : p.from = q.from => p = q
    BY DEF IInv, Once, IsPrepare
  <1>3. Most(Q) /\ Q \in SUBSET Servers BY <1>1, <1>2, MostSenders
  <1> SUFFICES ASSUME NEW r2 \in 1 .. (r - 1) PROVE Dead(r2) \/ ProposedAt(r2, c)
    BY DEF SafeAt
  <1>4. CASE r2 > cr
    <2>1. ASSUME NEW j \in Q PROVE round_[j] > r2 /\ ~Voted(j, r2)
      <3>1. PICK p \in S : p.from = j OBVIOUS
      <3>2. p.m.round = r /\ p.m.color_round <= cr /\ PrepareOK(p) BY <1>1, <3>1
      <3>3. r <= round_[j] /\ (Voted(j, r2) => r2 <= p.m.color_round)
        BY <3>1, <3>2 DEF PrepareOK
      <3> QED BY <1>1, <1>4, <3>1, <3>2, <3>3
    <2> QED BY <1>3, <2>1 DEF Dead
  <1>5. CASE r2 = cr BY <1>5
  <1>6. CASE r2 < cr
    <2>1. PICK x \in sent : IsPropose(x) /\ x.m.round = cr /\ x.m.color = c
      BY <1>6 DEF ProposedAt
    <2>2. SafeAt(cr, c) BY <2>1 DEF IInv, PacketOK, ProposeOK
    <2> QED BY <1>6, <2>2 DEF SafeAt
  <1> QED BY <1>4, <1>5, <1>6

\* No server proposed, or was proposed to, in the round of a leader that collects.
LEMMA NotYetProposed ==
  ASSUME IInv, NEW i \in Servers, pc[i] \in {"start", "prepares"}, NEW p \in sent, IsPropose(p)
  PROVE  ~(p.from = i /\ p.m.round = round_[i])
  BY DEF IInv, PacketOK, ProposeOK

\* One more PREPARE that is not the last.
LEMMA CollectStep ==
  ASSUME IInv, NEW i \in Servers, pc[i] = "prepares",
         NEW p \in stash_[i] \cup Arriving(i), Receive(i, p),
         color_' = [color_ EXCEPT ![i] = Latest(i, p)],
         color_round_' = [color_round_ EXCEPT ![i] = IF Newer(i, p) THEN p.m.color_round ELSE @],
         counted' = [counted EXCEPT ![i] = @ \cup {p}],
         links_' = Rest(i, p),
         UNCHANGED <<pc, sent, round_, decided_>>
  PROVE  IInv'
  <1>a. PICK cr : cr = (IF Newer(i, p) THEN p.m.color_round ELSE color_round_[i]) OBVIOUS
  <1>b. PICK c : c = Latest(i, p) OBVIOUS
  <1>0. TypeOK /\ NetInv /\ ServerOK(i) /\ Once BY DEF IInv
  <1>1. /\ p \in sent /\ Wanted(i, p)
        /\ Rest(i, p) \in [Links -> Seq(sent)] /\ Carries(Rest(i, p))
        /\ stash_' \in [Servers -> SUBSET sent]
    BY <1>0, Received
  <1>2. /\ IsPrepare(p) /\ p.m.round = round_[i]
        /\ cr \in Nat /\ color_round_[i] <= cr /\ p.m.color_round <= cr /\ cr < round_[i]
        /\ c \in Colors /\ (cr > 0 => ProposedAt(cr, c))
    BY <1>a, <1>b, <1>1, CollectFacts
  <1>3. color_' = [color_ EXCEPT ![i] = c] /\ color_round_' = [color_round_ EXCEPT ![i] = cr]
    BY <1>a, <1>b
  <1>4. color_'[i] = c /\ color_round_'[i] = cr /\ counted'[i] = counted[i] \cup {p}
    BY <1>0, <1>3 DEF TypeOK
  <1>5. TypeOK'
    <2>1. color_' \in [Servers -> Colors] /\ color_round_' \in [Servers -> Nat]
      BY <1>0, <1>2, <1>3 DEF TypeOK
    <2>2. sent \subseteq Packets BY <1>0 DEF TypeOK
    <2>3. counted' \in [Servers -> SUBSET Packets] BY <1>0, <1>1, <2>2 DEF TypeOK
    <2>4. stash_' \in [Servers -> SUBSET Packets] BY <1>1, <2>2
    <2> QED BY <1>0, <1>1, <2>1, <2>3, <2>4 DEF TypeOK, Links, Servers, Packets
  <1>6. NetInv'
    <2>1. Carries(links_)' BY <1>1 DEF Carries, On, Links, Servers
    <2>2. \A j \in Servers : stash_'[j] \subseteq sent /\ counted'[j] \subseteq sent
      BY <1>0, <1>1 DEF NetInv, TypeOK
    <2> QED BY <2>1, <2>2 DEF NetInv, Servers
  <1>7. Frame(i)
    <2>1. \A j \in Servers \ {i} :
             color_'[j] = color_[j] /\ color_round_'[j] = color_round_[j] /\ counted'[j] = counted[j]
      BY <1>0, <1>3 DEF TypeOK
    <2>2. round_[i] >= round_[i] /\ color_round_'[i] >= color_round_[i]
      BY <1>0, <1>2, <1>4, ServerTypes
    <2>3. \A q \in sent : IsPropose(q) => ~(q.from = i /\ q.m.round = round_[i])
      BY NotYetProposed
    <2> QED BY <2>1, <2>2, <2>3 DEF Frame
  <1>8. ServerOK(i)'
    <2>1. (cr > 0 => ProposedAt(cr, c)') BY <1>2 DEF ProposedAt
    <2>2. \A q \in counted'[i] : IsPrepare(q) /\ q.m.round = round_[i] /\ q.m.color_round <= cr
      <3>1. ASSUME NEW q \in counted[i]
            PROVE  IsPrepare(q) /\ q.m.round = round_[i] /\ q.m.color_round <= cr
        <4>1. q.m.color_round \in Nat /\ color_round_[i] \in Nat
          BY <1>0, PacketTypes, ServerTypes DEF NetInv
        <4>2. IsPrepare(q) /\ q.m.round = round_[i] /\ q.m.color_round <= color_round_[i]
          BY <1>0 DEF ServerOK
        <4> QED BY <1>2, <4>1, <4>2
      <3> QED BY <1>2, <1>4, <3>1
    <2>3. ~decided_[i] /\ i = leader(round_[i]) BY <1>0 DEF ServerOK
    <2>4. round_[i] \in Nat /\ cr <= round_[i] BY <1>0, <1>2, ServerTypes
    <2> QED BY <1>2, <1>4, <2>1, <2>2, <2>3, <2>4 DEF ServerOK, leader
  <1>9. Once' BY <1>0 DEF Once, IsPrepare, IsAck, IsPropose
  <1> QED BY <1>5, <1>6, <1>7, <1>8, <1>9, Assemble

Labels == {"start", "prepares", "propose", "acks", "done"}

\* The types of the servers' variables and of the network after a send.
LEMMA NetStep ==
  ASSUME TypeOK, NetInv, NEW L \in [Links -> Seq(sent)], Carries(L),
         NEW i \in Servers, NEW J \in SUBSET (0 .. N), NEW m \in Messages, SendOn(L, i, J, m),
         pc' \in [Servers -> Labels], color_' \in [Servers -> Colors],
         round_' \in [Servers -> Nat \ {0}], color_round_' \in [Servers -> Nat],
         stash_' \in [Servers -> SUBSET sent], decided_' \in [Servers -> BOOLEAN],
         counted' \in [Servers -> SUBSET sent]
  PROVE  /\ TypeOK' /\ NetInv'
         /\ sent \subseteq sent' /\ sent' \subseteq Packets
         /\ \A p \in sent' : p \in sent \/ (p.from = i /\ p.m = m /\ p.to \in J)
         /\ \A j \in J : [from |-> i, to |-> j, m |-> m] \in sent'
  <1>1. sent \subseteq Packets BY DEF TypeOK
  <1>2. /\ sent \subseteq sent' /\ sent' \subseteq Packets
        /\ \A p \in sent' : p \in sent \/ (p.from = i /\ p.m = m /\ p.to \in J)
        /\ \A j \in J : [from |-> i, to |-> j, m |-> m] \in sent'
        /\ links_' \in [Links -> Seq(sent')] /\ Carries(links_)'
    BY <1>1, Sends
  <1>3. stash_' \in [Servers -> SUBSET Packets] /\ counted' \in [Servers -> SUBSET Packets]
    BY <1>1
  <1>4. TypeOK' BY <1>2, <1>3 DEF TypeOK, Labels, Links, Servers, Packets
  <1>5. \A j \in Servers : stash_'[j] \subseteq sent' /\ counted'[j] \subseteq sent' BY <1>2
  <1>6. NetInv' BY <1>2, <1>5 DEF NetInv, Servers
  <1> QED BY <1>2, <1>4, <1>6

\* The last PREPARE, and the proposal to all servers.
LEMMA ProposeStep ==
  ASSUME IInv, NEW i \in Servers, pc[i] = "prepares",
         NEW p \in stash_[i] \cup Arriving(i), Receive(i, p),
         color_' = [color_ EXCEPT ![i] = Latest(i, p)],
         color_round_' = [color_round_ EXCEPT ![i] = IF Newer(i, p) THEN p.m.color_round ELSE @],
         Most(counted[i] \cup {p}),
         counted' = [counted EXCEPT ![i] = {}],
         SendOn(Rest(i, p), i, Servers, propose_message(round_[i], Latest(i, p))),
         pc' = [pc EXCEPT ![i] = "propose"],
         UNCHANGED <<round_, decided_>>
  PROVE  IInv'
  <1>a. PICK cr : cr = (IF Newer(i, p) THEN p.m.color_round ELSE color_round_[i]) OBVIOUS
  <1>b. PICK c : c = Latest(i, p) OBVIOUS
  <1>c. PICK m : m = propose_message(round_[i], c) OBVIOUS
  <1>d. PICK r : r = round_[i] OBVIOUS
  <1>0. TypeOK /\ NetInv /\ ServerOK(i) /\ Once /\ \A q \in sent : PacketOK(q) BY DEF IInv
  <1>1. /\ p \in sent /\ Wanted(i, p)
        /\ Rest(i, p) \in [Links -> Seq(sent)] /\ Carries(Rest(i, p))
        /\ stash_' \in [Servers -> SUBSET sent]
    BY <1>0, Received
  <1>2. /\ IsPrepare(p) /\ p.m.round = r
        /\ cr \in Nat /\ color_round_[i] <= cr /\ p.m.color_round <= cr /\ cr < r
        /\ c \in Colors /\ (cr > 0 => ProposedAt(cr, c))
    BY <1>a, <1>b, <1>d, <1>1, CollectFacts
  <1>3. color_' = [color_ EXCEPT ![i] = c] /\ color_round_' = [color_round_ EXCEPT ![i] = cr]
    BY <1>a, <1>b
  <1>4. /\ color_'[i] = c /\ color_round_'[i] = cr /\ counted'[i] = {} /\ pc'[i] = "propose"
        /\ round_'[i] = r /\ decided_'[i] = decided_[i]
    BY <1>0, <1>3, <1>d DEF TypeOK
  <1>5. r \in Nat /\ r >= 1 /\ i = leader(r) /\ ~decided_[i] BY <1>0, <1>d, ServerTypes DEF ServerOK
  <1>6. m \in Messages /\ m.type = "propose" /\ m.round = r /\ m.color = c
    BY <1>2, <1>5, <1>c, <1>d DEF Messages, propose_message, Types
  <1>7. /\ TypeOK' /\ NetInv' /\ sent \subseteq sent'
        /\ \A q \in sent' : q \in sent \/ (q.from = i /\ q.m = m)
    <2>1. SendOn(Rest(i, p), i, Servers, m) BY <1>b, <1>c
    <2>2. Servers \in SUBSET (0 .. N) BY ConsensusAssumption DEF Servers
    <2>3. pc' \in [Servers -> Labels] BY <1>0 DEF TypeOK, Labels
    <2>4. color_' \in [Servers -> Colors] /\ color_round_' \in [Servers -> Nat]
      BY <1>0, <1>2, <1>3 DEF TypeOK
    <2>5. counted' \in [Servers -> SUBSET sent] BY <1>0 DEF TypeOK, NetInv
    <2>6. round_' \in [Servers -> Nat \ {0}] /\ decided_' \in [Servers -> BOOLEAN] BY <1>0 DEF TypeOK
    <2>7. PICK L : L = Rest(i, p) OBVIOUS
    <2>8. L \in [Links -> Seq(sent)] /\ Carries(L) /\ SendOn(L, i, Servers, m) BY <1>1, <2>1, <2>7
    <2>9. /\ TypeOK' /\ NetInv' /\ sent \subseteq sent'
          /\ \A q \in sent' : q \in sent \/ (q.from = i /\ q.m = m /\ q.to \in Servers)
      BY <1>0, <1>1, <1>6, <2>2, <2>3, <2>4, <2>5, <2>6, <2>8, NetStep
    <2> QED BY <2>9
  <1>8. \A q \in sent : IsPropose(q) => q.m.round # r
    <2> SUFFICES ASSUME NEW q \in sent, IsPropose(q), q.m.round = r PROVE FALSE OBVIOUS
    <2>1. q.from = leader(q.m.round) BY <1>0 DEF PacketOK, ProposeOK
    <2> QED BY <1>5, <1>d, <2>1, NotYetProposed
  <1>9. Frame(i)
    <2>1. \A j \in Servers \ {i} :
            /\ pc'[j] = pc[j] /\ decided_'[j] = decided_[j] /\ counted'[j] = counted[j]
            /\ color_'[j] = color_[j] /\ round_'[j] = round_[j] /\ color_round_'[j] = color_round_[j]
      BY <1>0, <1>3 DEF TypeOK
    <2>2. round_'[i] >= round_[i] /\ color_round_'[i] >= color_round_[i]
      BY <1>0, <1>2, <1>4, <1>5, <1>d, ServerTypes
    <2>3. \A q \in sent' : q \in sent \/ (q.from = i /\ (IsAck(q) => q.m.round = round_[i]))
      BY <1>6, <1>7 DEF IsAck
    <2> QED BY <1>4, <1>7, <1>8, <1>d, <2>1, <2>2, <2>3 DEF Frame
  <1>10. \A r2, c2 : ProposedAt(r2, c2) => ProposedAt(r2, c2)' BY <1>7, Stays
  <1>11. ServerOK(i)'
    <2>1. cr > 0 => ProposedAt(cr, c)' BY <1>2, <1>10
    <2> QED BY <1>2, <1>4, <1>5, <2>1 DEF ServerOK
  <1>12. SafeAt(r, c)'
    <2> DEFINE S == counted[i] \cup {p}
    <2>1. S \in SUBSET sent BY <1>0, <1>1 DEF NetInv
    <2>2. ASSUME NEW q \in counted[i]
          PROVE  IsPrepare(q) /\ q.m.round = r /\ q.m.color_round <= cr
      <3>1. q.m.color_round \in Nat /\ color_round_[i] \in Nat
        BY <1>0, PacketTypes, ServerTypes DEF NetInv
      <3>2. IsPrepare(q) /\ q.m.round = r /\ q.m.color_round <= color_round_[i]
        BY <1>0, <1>d DEF ServerOK
      <3> QED BY <1>2, <3>1, <3>2
    <2>3. SafeAt(r, c) BY <1>2, <1>5, <2>1, <2>2, CollectSafe, ZenonT(60)
    <2> QED BY <1>0, <1>5, <1>7, <1>9, <2>3, DeadStays
  <1>13. ASSUME NEW q \in sent', q \notin sent PROVE PacketOK(q)'
    <2>1. q.from = i /\ q.m = m BY <1>7, <1>13
    <2>2. ProposeOK(q)' BY <1>2, <1>4, <1>5, <1>6, <1>12, <2>1 DEF ProposeOK, leader
    <2> QED BY <1>6, <2>1, <2>2 DEF PacketOK, IsPrepare, IsAck, IsPropose, IsDecide
  <1>14. Once'
    <2> SUFFICES ASSUME NEW x \in sent', NEW q \in sent', x.m.type = q.m.type, x.m.round = q.m.round
                 PROVE  /\ (IsPrepare(x) \/ IsAck(x)) /\ x.from = q.from => x = q
                        /\ IsPropose(x) => x.m.color = q.m.color
      BY DEF Once, IsPrepare, IsAck, IsPropose
    <2>1. CASE x \in sent /\ q \in sent BY <1>0, <2>1 DEF Once
    <2>2. CASE x \notin sent \/ q \notin sent
      BY <1>6, <1>7, <1>8, <2>2 DEF IsPrepare, IsAck, IsPropose
    <2> QED BY <2>1, <2>2
  <1> QED BY <1>7, <1>9, <1>11, <1>13, <1>14, Assemble

\* Server i leaves phase 4 with the answer b and with color c of round cr.
Answers(L, i, b, c, cr) ==
    /\ pc[i] = "propose" /\ Ack(L, i, b)
    /\ L \in [Links -> Seq(sent)] /\ Carries(L) /\ stash_' \in [Servers -> SUBSET sent]
    /\ b \in BOOLEAN /\ c \in Colors /\ cr \in Nat
    /\ color_' = [color_ EXCEPT ![i] = c] /\ color_round_' = [color_round_ EXCEPT ![i] = cr]
    /\ color_round_[i] <= cr /\ cr <= round_[i] /\ (b => cr = round_[i])
    /\ cr > 0 => ProposedAt(cr, c)
    /\ \A q \in sent : IsPropose(q) /\ q.from = i /\ q.m.round = round_[i] => q.m.color = c
    /\ UNCHANGED <<decided_, counted>>

LEMMA AckStep ==
  ASSUME IInv, NEW i \in Servers, NEW L, NEW b, NEW c, NEW cr, Answers(L, i, b, c, cr)
  PROVE  IInv'
  <1> USE DEF Answers
  <1>a. PICK r : r = round_[i] OBVIOUS
  <1>b. PICK m : m = ack_message(r, b) OBVIOUS
  <1>c. PICK J : J = {leader(r)} OBVIOUS
  <1>0. TypeOK /\ NetInv /\ ServerOK(i) /\ Once /\ \A q \in sent : PacketOK(q) BY DEF IInv
  <1>1. r \in Nat /\ r >= 1 /\ J \in SUBSET (0 .. N) /\ color_round_[i] \in Nat
    BY <1>0, <1>a, <1>c, ServerTypes
  <1>2. m \in Messages /\ m.type = "ack" /\ m.round = r /\ m.ack = b
    BY <1>1, <1>b DEF Messages, ack_message, Types
  <1>3. ~decided_[i] /\ counted[i] = {} BY <1>0 DEF ServerOK
  <1>4. \/ i = leader(r) /\ pc' = [pc EXCEPT ![i] = "acks"] /\ round_' = round_
        \/ pc' = [pc EXCEPT ![i] = "start"] /\ round_' = [round_ EXCEPT ![i] = r + 1]
    BY <1>a DEF Ack, Goto
  <1>5. /\ color_'[i] = c /\ color_round_'[i] = cr
        /\ \/ i = leader(r) /\ pc'[i] = "acks" /\ round_'[i] = r
           \/ pc'[i] = "start" /\ round_'[i] = r + 1
    BY <1>0, <1>4, <1>a DEF TypeOK
  <1>6. /\ TypeOK' /\ NetInv' /\ sent \subseteq sent' /\ sent' \subseteq Packets
        /\ \A q \in sent' : q \in sent \/ (q.from = i /\ q.m = m /\ q.to \in J)
    <2>1. SendOn(L, i, J, m) BY <1>a, <1>b, <1>c DEF Ack
    <2>2. pc' \in [Servers -> Labels] BY <1>0, <1>4 DEF TypeOK, Labels
    <2>3. color_' \in [Servers -> Colors] /\ color_round_' \in [Servers -> Nat] BY <1>0 DEF TypeOK
    <2>4. round_' \in [Servers -> Nat \ {0}]
      <3>1. round_ \in [Servers -> Nat \ {0}] /\ r + 1 \in Nat \ {0} BY <1>0, <1>1 DEF TypeOK
      <3> QED BY <1>4, <3>1
    <2>5. counted' \in [Servers -> SUBSET sent] /\ decided_' \in [Servers -> BOOLEAN]
      BY <1>0 DEF TypeOK, NetInv
    <2> QED BY <1>0, <1>1, <1>2, <2>1, <2>2, <2>3, <2>4, <2>5, NetStep
  <1>7. Frame(i)
    <2>1. \A j \in Servers \ {i} :
            /\ pc'[j] = pc[j] /\ decided_'[j] = decided_[j] /\ counted'[j] = counted[j]
            /\ color_'[j] = color_[j] /\ round_'[j] = round_[j] /\ color_round_'[j] = color_round_[j]
      BY <1>0, <1>4 DEF TypeOK
    <2>2. round_'[i] >= round_[i] /\ color_round_'[i] >= color_round_[i]
      BY <1>1, <1>5, <1>a
    <2>3. \A q \in sent' : q \in sent \/ (q.from = i /\ (IsAck(q) => q.m.round = round_[i]))
      BY <1>2, <1>6, <1>a
    <2>4. round_'[i] = round_[i] => pc'[i] = "acks" BY <1>1, <1>5, <1>a
    <2> QED BY <1>5, <1>6, <2>1, <2>2, <2>3, <2>4 DEF Frame
  <1>8. cr > 0 => ProposedAt(cr, c)' BY <1>6, Stays
  <1>9. ServerOK(i)'
    <2>1. cr <= r BY <1>a
    <2>2. CASE i = leader(r) /\ pc'[i] = "acks" /\ round_'[i] = r
      BY <1>1, <1>3, <1>5, <1>8, <2>1, <2>2 DEF ServerOK, leader
    <2>3. CASE pc'[i] = "start" /\ round_'[i] = r + 1
      <3>1. cr < r + 1 /\ cr <= r + 1 BY <1>1, <2>1
      <3> QED BY <1>3, <1>5, <1>8, <2>3, <3>1 DEF ServerOK
    <2> QED BY <1>5, <2>2, <2>3
  <1>10. ASSUME NEW q \in sent', q \notin sent PROVE PacketOK(q)'
    <2>1. q.from = i /\ q.m = m BY <1>6, <1>10
    <2>2. r <= round_'[i] /\ (r = round_'[i] => pc'[i] = "acks") BY <1>1, <1>5
    <2>3. b => r <= cr /\ \E c2 \in Colors : ProposedAt(r, c2)'
      BY <1>1, <1>8, <1>a
    <2>4. AckOK(q)' BY <1>2, <1>5, <2>1, <2>2, <2>3 DEF AckOK
    <2> QED BY <1>2, <2>1, <2>4 DEF PacketOK, IsPrepare, IsAck, IsPropose, IsDecide
  <1>11. Once'
    <2> SUFFICES ASSUME NEW x \in sent', NEW q \in sent', x.m.type = q.m.type, x.m.round = q.m.round
                 PROVE  /\ (IsPrepare(x) \/ IsAck(x)) /\ x.from = q.from => x = q
                        /\ IsPropose(x) => x.m.color = q.m.color
      BY DEF Once, IsPrepare, IsAck, IsPropose
    <2>1. CASE x \in sent /\ q \in sent BY <1>0, <2>1 DEF Once
    <2>2. ASSUME NEW y \in sent, IsAck(y), y.from = i, y.m.round = r PROVE FALSE
      BY <1>0, <1>a, <2>2 DEF PacketOK, AckOK
    <2>3. CASE x \notin sent /\ q \in sent BY <1>2, <1>6, <2>2, <2>3 DEF IsPrepare, IsAck, IsPropose
    <2>4. CASE x \in sent /\ q \notin sent BY <1>2, <1>6, <2>2, <2>4 DEF IsPrepare, IsAck, IsPropose
    <2>5. CASE x \notin sent /\ q \notin sent
      <3>1. x.m = m /\ q.m = m /\ x.from = q.from /\ x.to = q.to BY <1>6, <1>c, <2>5
      <3>2. x \in Packets /\ q \in Packets BY <1>6
      <3>3. x = q BY <3>1, <3>2 DEF Packets
      <3> QED BY <3>1, <3>3
    <2> QED BY <2>1, <2>3, <2>4, <2>5
  <1> QED BY <1>6, <1>7, <1>9, <1>10, <1>11, Assemble

\* A server decides for a color that was chosen.
LEMMA DecideStep ==
  ASSUME IInv, NEW i \in Servers, pc[i] \notin {"start", "done"},
         NEW L \in [Links -> Seq(sent)], Carries(L),
         NEW c \in Colors, Chosen(c), Decide(L, i, c), color_' = [color_ EXCEPT ![i] = c],
         stash_' \in [Servers -> SUBSET sent], counted' \in [Servers -> SUBSET sent],
         \A j \in Servers \ {i} : counted'[j] = counted[j],
         UNCHANGED <<round_, color_round_>>
  PROVE  IInv'
  <1>a. PICK m : m = decide_message(c) OBVIOUS
  <1>b. PICK J : J = ({nancy_id} \cup Servers) \ {i} OBVIOUS
  <1>0. TypeOK /\ NetInv /\ ServerOK(i) /\ Once /\ \A q \in sent : PacketOK(q) BY DEF IInv
  <1>1. J \in SUBSET (0 .. N) BY <1>b, ConsensusAssumption DEF nancy_id, Servers
  <1>2. m \in Messages /\ m.type = "decide" /\ m.color = c
    BY <1>a DEF Messages, decide_message, Types
  <1>3. pc' = [pc EXCEPT ![i] = "done"] /\ decided_' = [decided_ EXCEPT ![i] = TRUE]
    BY DEF Decide, Goto
  <1>4. pc'[i] = "done" /\ color_'[i] = c BY <1>0, <1>3 DEF TypeOK
  <1>5. /\ TypeOK' /\ NetInv' /\ sent \subseteq sent'
        /\ \A q \in sent' : q \in sent \/ (q.from = i /\ q.m = m /\ q.to \in J)
    <2>1. SendOn(L, i, J, m) BY <1>a, <1>b DEF Decide
    <2>2. pc' \in [Servers -> Labels] BY <1>0, <1>3 DEF TypeOK, Labels
    <2>3. color_' \in [Servers -> Colors] /\ color_round_' \in [Servers -> Nat] BY <1>0 DEF TypeOK
    <2>4. round_' \in [Servers -> Nat \ {0}] /\ decided_' \in [Servers -> BOOLEAN]
      BY <1>0, <1>3 DEF TypeOK
    <2> QED BY <1>0, <1>1, <1>2, <2>1, <2>2, <2>3, <2>4, NetStep
  <1>6. Frame(i)
    <2>1. \A j \in Servers \ {i} :
            /\ pc'[j] = pc[j] /\ decided_'[j] = decided_[j] /\ counted'[j] = counted[j]
            /\ color_'[j] = color_[j] /\ round_'[j] = round_[j] /\ color_round_'[j] = color_round_[j]
      BY <1>0, <1>3 DEF TypeOK
    <2>2. round_'[i] >= round_[i] /\ color_round_'[i] >= color_round_[i] BY <1>0, ServerTypes
    <2>3. \A q \in sent' : q \in sent \/ (q.from = i /\ (IsAck(q) => q.m.round = round_[i]))
      BY <1>2, <1>5 DEF IsAck
    <2> QED BY <1>4, <1>5, <2>1, <2>2, <2>3 DEF Frame
  <1>7. Chosen(c)' BY <1>5, Stays
  <1>8. ServerOK(i)'
    <2>1. color_round_[i] <= round_[i] BY <1>0 DEF ServerOK
    <2> QED BY <1>4, <1>7, <2>1 DEF ServerOK
  <1>9. ASSUME NEW q \in sent', q \notin sent PROVE PacketOK(q)'
    <2>1. q.m = m BY <1>5, <1>9
    <2> QED BY <1>2, <1>7, <2>1 DEF PacketOK, IsPrepare, IsAck, IsPropose, IsDecide
  <1>10. Once' BY <1>0, <1>2, <1>5 DEF Once, IsPrepare, IsAck, IsPropose
  <1> QED BY <1>5, <1>6, <1>8, <1>9, <1>10, Assemble

\* A leader whose proposal most servers accepted decides for what was chosen.
LEMMA CountChosen ==
  ASSUME IInv, NEW i \in Servers, pc[i] = "acks", NEW S \in SUBSET sent, Most(S),
         \A p \in S : IsAck(p) /\ p.m.ack /\ p.m.round = round_[i]
  PROVE  Chosen(color_[i])
  <1> DEFINE Q == {p.from : p \in S}
  <1>a. PICK r : r = round_[i] OBVIOUS
  <1>0. TypeOK /\ ServerOK(i) /\ \A q \in sent : PacketOK(q) BY DEF IInv
  <1>1. \A p \in S : p.from \in Servers BY <1>0, PacketTypes
  <1>2. \A p, q \in S : p.from = q.from => p = q BY DEF IInv, Once, IsAck
  <1>3. Most(Q) BY <1>1, <1>2, MostSenders
  <1>4. Q \subseteq {j \in Servers : Voted(j, r)}
    <2>1. \A p \in S : Voted(p.from, r) BY <1>a DEF Voted
    <2> QED BY <1>1, <2>1
  <1>5. Most({j \in Servers : Voted(j, r)}) BY <1>3, <1>4, MostLarger
  <1>6. S # {}
    <2>1. CASE S = {}
      <3>1. ~Most({}) BY FS_EmptySet, ConsensusAssumption DEF Most
      <3> QED BY <2>1, <3>1
    <2> QED BY <2>1
  <1>7. PICK p \in S : TRUE BY <1>6
  <1>8. PICK c \in Colors : ProposedAt(r, c) BY <1>0, <1>7, <1>a DEF PacketOK, AckOK
  <1>9. PICK q \in sent : IsPropose(q) /\ q.m.round = r /\ q.m.color = c BY <1>8 DEF ProposedAt
  <1>10. q.from = leader(r) /\ i = leader(r) BY <1>0, <1>9, <1>a DEF PacketOK, ProposeOK, ServerOK
  <1>11. c = color_[i] BY <1>0, <1>9, <1>10, <1>a DEF PacketOK, ProposeOK
  <1>12. r \in Nat BY <1>0, <1>a, ServerTypes
  <1> QED BY <1>5, <1>8, <1>11, <1>12 DEF Chosen

\* One more ACK that does not end the loop, or one that ends the round without
\* a decision.
LEMMA CountStep ==
  ASSUME IInv, NEW i \in Servers, pc[i] = "acks",
         NEW p \in stash_[i] \cup Arriving(i), Receive(i, p), links_' = Rest(i, p),
         \/ /\ counted' = [counted EXCEPT ![i] = counted[i] \cup {p}]
            /\ UNCHANGED <<pc, round_>>
         \/ /\ counted' = [counted EXCEPT ![i] = {}]
            /\ round_' = [round_ EXCEPT ![i] = @ + 1]
            /\ pc' = [pc EXCEPT ![i] = "start"],
         UNCHANGED <<sent, color_, color_round_, decided_>>
  PROVE  IInv'
  <1>a. PICK r : r = round_[i] OBVIOUS
  <1>0. TypeOK /\ NetInv /\ ServerOK(i) /\ Once /\ \A q \in sent : PacketOK(q) BY DEF IInv
  <1>1. /\ p \in sent /\ Wanted(i, p)
        /\ Rest(i, p) \in [Links -> Seq(sent)] /\ Carries(Rest(i, p))
        /\ stash_' \in [Servers -> SUBSET sent]
    BY <1>0, Received
  <1>2. IsAck(p) /\ p.m.round = r BY <1>1, <1>a DEF Wanted, Awaits, IsAck
  <1>3. r \in Nat /\ r >= 1 /\ color_round_[i] \in Nat BY <1>0, <1>a, ServerTypes
  <1>4. \/ pc'[i] = "acks" /\ round_'[i] = r /\ counted'[i] = counted[i] \cup {p}
        \/ pc'[i] = "start" /\ round_'[i] = r + 1 /\ counted'[i] = {}
    BY <1>0, <1>a DEF TypeOK
  <1>5. TypeOK' /\ NetInv'
    <2>1. round_' \in [Servers -> Nat \ {0}]
      <3>1. round_ \in [Servers -> Nat \ {0}] /\ r + 1 \in Nat \ {0} BY <1>0, <1>3 DEF TypeOK
      <3> QED BY <1>a, <3>1
    <2>2. pc' \in [Servers -> Labels] BY <1>0 DEF TypeOK, Labels
    <2>3. counted' \in [Servers -> SUBSET sent]
      <3>1. counted \in [Servers -> SUBSET sent] BY <1>0 DEF TypeOK, NetInv
      <3>2. counted[i] \cup {p} \in SUBSET sent BY <1>1, <3>1
      <3> QED BY <3>1, <3>2
    <2>4. sent \subseteq Packets BY <1>0 DEF TypeOK
    <2>5. counted' \in [Servers -> SUBSET Packets] /\ stash_' \in [Servers -> SUBSET Packets]
      BY <1>1, <2>3, <2>4
    <2>6. TypeOK' BY <1>0, <1>1, <2>1, <2>2, <2>5 DEF TypeOK, Labels, Links, Servers, Packets
    <2>7. Carries(links_)' BY <1>1 DEF Carries, On, Links, Servers
    <2>8. \A j \in Servers : stash_'[j] \subseteq sent /\ counted'[j] \subseteq sent BY <1>1, <2>3
    <2>9. NetInv' BY <2>7, <2>8 DEF NetInv, Servers
    <2> QED BY <2>6, <2>9
  <1>6. Frame(i)
    <2>1. \A j \in Servers \ {i} : pc'[j] = pc[j] /\ counted'[j] = counted[j] /\ round_'[j] = round_[j]
      BY <1>0 DEF TypeOK
    <2>2. round_'[i] >= round_[i] /\ color_round_'[i] >= color_round_[i] BY <1>3, <1>4, <1>a
    <2>3. round_'[i] = round_[i] => pc'[i] = "acks" BY <1>3, <1>4, <1>a
    <2>4. \A q \in sent : IsPropose(q) /\ q.from = i /\ q.m.round = round_[i] => q.m.color = color_[i]
      BY <1>0 DEF PacketOK, ProposeOK
    <2> QED BY <2>1, <2>2, <2>3, <2>4 DEF Frame
  <1>7. ServerOK(i)'
    <2>1. /\ color_round_[i] <= r /\ i = leader(r) /\ ~decided_[i]
          /\ color_round_[i] > 0 => ProposedAt(color_round_[i], color_[i])
          /\ \A q \in counted[i] : IsAck(q) /\ q.m.round = r
      BY <1>0, <1>a DEF ServerOK
    <2>2. color_round_[i] > 0 => ProposedAt(color_round_[i], color_[i])' BY <2>1 DEF ProposedAt
    <2>3. CASE pc'[i] = "acks" /\ round_'[i] = r /\ counted'[i] = counted[i] \cup {p}
      BY <1>2, <2>1, <2>2, <2>3 DEF ServerOK, leader
    <2>4. CASE pc'[i] = "start" /\ round_'[i] = r + 1 /\ counted'[i] = {}
      <3>1. color_round_[i] < r + 1 /\ color_round_[i] <= r + 1 BY <1>3, <2>1
      <3> QED BY <2>1, <2>2, <2>4, <3>1 DEF ServerOK
    <2> QED BY <1>4, <2>3, <2>4
  <1>8. Once' BY <1>0 DEF Once, IsPrepare, IsAck, IsPropose
  <1> QED BY <1>5, <1>6, <1>7, <1>8, Assemble

\* Taking a packet from a link, to the stash or to Nancy, changes nothing else.
LEMMA NetOnly ==
  ASSUME IInv, links_' \in [Links -> Seq(sent)], Carries(links_'),
         stash_' \in [Servers -> SUBSET sent],
         UNCHANGED <<pc, color_, round_, color_round_, decided_, counted, sent>>
  PROVE  IInv'
  <1>0. TypeOK /\ NetInv /\ Once /\ (\A p \in sent : PacketOK(p)) /\ (\A i \in Servers : ServerOK(i))
    BY DEF IInv
  <1>1. sent \subseteq Packets BY <1>0 DEF TypeOK
  <1>2. stash_' \in [Servers -> SUBSET Packets] BY <1>1
  <1>3. TypeOK' BY <1>0, <1>2 DEF TypeOK, Links, Servers, Packets
  <1>4. Carries(links_)' BY DEF Carries, On, Links, Servers
  <1>5. NetInv' BY <1>0, <1>4 DEF NetInv, Servers
  <1>6. /\ \A r, c : ProposedAt(r, c)' <=> ProposedAt(r, c)
        /\ \A j, r : Voted(j, r)' <=> Voted(j, r)
    BY DEF ProposedAt, Voted, IsPropose, IsAck
  <1>7. \A c : Chosen(c) => Chosen(c)' BY Stays
  <1>8. \A r, c : SafeAt(r, c) => SafeAt(r, c)'
    <2>1. \A r : Dead(r) => Dead(r)' BY <1>6 DEF Dead, Most, Servers
    <2> QED BY <1>6, <2>1 DEF SafeAt
  <1>9. \A i \in Servers : ServerOK(i)' BY <1>0, <1>6, <1>7 DEF ServerOK, leader
  <1>10. \A p \in sent' : PacketOK(p)'
    <2> SUFFICES ASSUME NEW p \in sent PROVE PacketOK(p)' OBVIOUS
    <2>1. PrepareOK(p) => PrepareOK(p)' BY <1>6 DEF PrepareOK
    <2>2. AckOK(p) => AckOK(p)' BY <1>6 DEF AckOK
    <2>3. ProposeOK(p) => ProposeOK(p)' BY <1>8 DEF ProposeOK, leader
    <2> QED BY <1>0, <1>7, <2>1, <2>2, <2>3 DEF PacketOK, IsPrepare, IsAck, IsPropose, IsDecide
  <1>11. Once' BY <1>0 DEF Once, IsPrepare, IsAck, IsPropose
  <1> QED BY <1>3, <1>5, <1>9, <1>10, <1>11 DEF IInv, Servers

\* Every step of server i, and every suspicion, preserves the invariant.
LEMMA ServerStep ==
  ASSUME IInv, NEW i \in Servers, Step(i) \/ Suspect(i)
  PROVE  IInv'
  <1>0. TypeOK /\ NetInv /\ ServerOK(i) /\ Once /\ \A q \in sent : PacketOK(q) BY DEF IInv
  <1>1. CASE Prepare(i) BY <1>1, PrepareStep
  <1>2. CASE Collect(i)
    <2>1. PICK p \in stash_[i] \cup Arriving(i) :
            /\ Receive(i, p)
            /\ color_' = [color_ EXCEPT ![i] = Latest(i, p)]
            /\ color_round_' = [color_round_ EXCEPT ![i] = IF Newer(i, p) THEN p.m.color_round ELSE @]
            /\ \/ /\ counted' = [counted EXCEPT ![i] = @ \cup {p}]
                  /\ links_' = Rest(i, p)
                  /\ UNCHANGED <<pc, sent>>
               \/ /\ Most(counted[i] \cup {p})
                  /\ counted' = [counted EXCEPT ![i] = {}]
                  /\ SendOn(Rest(i, p), i, Servers, propose_message(round_[i], Latest(i, p)))
                  /\ pc' = [pc EXCEPT ![i] = "propose"]
      BY <1>2 DEF Collect, Goto
    <2>2. pc[i] = "prepares" /\ UNCHANGED <<round_, decided_>> BY <1>2 DEF Collect
    <2> QED BY <2>1, <2>2, CollectStep, ProposeStep
  <1>3. CASE Accept(i)
    <2>1. PICK p \in stash_[i] \cup Arriving(i) :
            Receive(i, p) /\ color_' = [color_ EXCEPT ![i] = p.m.color] /\ Ack(Rest(i, p), i, TRUE)
      BY <1>3 DEF Accept
    <2>2. /\ pc[i] = "propose" /\ color_round_' = [color_round_ EXCEPT ![i] = round_[i]]
          /\ UNCHANGED <<decided_, counted>>
      BY <1>3 DEF Accept
    <2>3. /\ p \in sent /\ Wanted(i, p)
          /\ Rest(i, p) \in [Links -> Seq(sent)] /\ Carries(Rest(i, p))
          /\ stash_' \in [Servers -> SUBSET sent]
      BY <1>0, <2>1, Received
    <2>4. IsPropose(p) /\ p.m.round = round_[i] BY <2>2, <2>3 DEF Wanted, Awaits, IsPropose
    <2>5. p.m.color \in Colors BY <1>0, <2>3, <2>4 DEF PacketOK, ProposeOK
    <2>6. ProposedAt(round_[i], p.m.color) BY <2>3, <2>4 DEF ProposedAt
    <2>7. round_[i] \in Nat /\ round_[i] <= round_[i] /\ color_round_[i] <= round_[i]
      BY <1>0, ServerTypes DEF ServerOK
    <2>8. \A q \in sent : IsPropose(q) /\ q.from = i /\ q.m.round = round_[i] => q.m.color = p.m.color
      BY <1>0, <2>3, <2>4 DEF Once, IsPropose
    <2>9. Answers(Rest(i, p), i, TRUE, p.m.color, round_[i])
      BY <2>1, <2>2, <2>3, <2>5, <2>6, <2>7, <2>8 DEF Answers
    <2> QED BY <2>9, AckStep
  <1>4. CASE Suspect(i)
    <2>1. /\ pc[i] = "propose" /\ Ack(links_, i, FALSE)
          /\ UNCHANGED <<color_, color_round_, stash_, decided_, counted>>
      BY <1>4 DEF Suspect
    <2>2. links_ \in [Links -> Seq(sent)] /\ Carries(links_) /\ stash_' \in [Servers -> SUBSET sent]
      BY <1>0, <2>1 DEF TypeOK, NetInv
    <2>3. color_' = [color_ EXCEPT ![i] = color_[i]]
          /\ color_round_' = [color_round_ EXCEPT ![i] = color_round_[i]]
      BY <1>0, <2>1 DEF TypeOK
    <2>4. /\ color_[i] \in Colors /\ color_round_[i] \in Nat
          /\ color_round_[i] <= color_round_[i] /\ color_round_[i] <= round_[i]
          /\ color_round_[i] > 0 => ProposedAt(color_round_[i], color_[i])
      BY <1>0, <2>1, ServerTypes DEF ServerOK
    <2>5. \A q \in sent : IsPropose(q) /\ q.from = i /\ q.m.round = round_[i] => q.m.color = color_[i]
      BY <1>0, <2>1 DEF PacketOK, ProposeOK
    <2>6. Answers(links_, i, FALSE, color_[i], color_round_[i])
      BY <2>1, <2>2, <2>3, <2>4, <2>5 DEF Answers
    <2> QED BY <2>6, AckStep
  <1>5. CASE Count(i)
    <2>1. PICK p \in stash_[i] \cup Arriving(i) :
            /\ Receive(i, p)
            /\ \/ /\ counted' = [counted EXCEPT ![i] = counted[i] \cup {p}]
                  /\ links_' = Rest(i, p)
                  /\ UNCHANGED <<pc, round_, decided_, sent>>
               \/ /\ Most(Successes(counted[i] \cup {p}))
                  /\ counted' = [counted EXCEPT ![i] = {}]
                  /\ Decide(Rest(i, p), i, color_[i])
                  /\ UNCHANGED round_
               \/ /\ counted' = [counted EXCEPT ![i] = {}]
                  /\ links_' = Rest(i, p)
                  /\ round_' = [round_ EXCEPT ![i] = @ + 1]
                  /\ pc' = [pc EXCEPT ![i] = "start"]
                  /\ UNCHANGED <<decided_, sent>>
      BY <1>5 DEF Count, Goto
    <2>2. pc[i] = "acks" /\ UNCHANGED <<color_, color_round_>> BY <1>5 DEF Count
    <2>3. CASE /\ Most(Successes(counted[i] \cup {p}))
               /\ counted' = [counted EXCEPT ![i] = {}]
               /\ Decide(Rest(i, p), i, color_[i])
               /\ UNCHANGED round_
      <3> DEFINE S == Successes(counted[i] \cup {p})
      <3>1. /\ p \in sent /\ Wanted(i, p)
            /\ Rest(i, p) \in [Links -> Seq(sent)] /\ Carries(Rest(i, p))
            /\ stash_' \in [Servers -> SUBSET sent]
        BY <1>0, <2>1, Received
      <3>2. IsAck(p) /\ p.m.round = round_[i] BY <2>2, <3>1 DEF Wanted, Awaits, IsAck
      <3>3. \A q \in counted[i] : q \in sent /\ IsAck(q) /\ q.m.round = round_[i]
        BY <1>0, <2>2 DEF ServerOK, NetInv
      <3>4. S \in SUBSET sent /\ \A q \in S : IsAck(q) /\ q.m.ack /\ q.m.round = round_[i]
        BY <3>1, <3>2, <3>3 DEF Successes
      <3>5. Chosen(color_[i]) BY <2>2, <2>3, <3>4, CountChosen
      <3>6. color_[i] \in Colors /\ color_' = [color_ EXCEPT ![i] = color_[i]]
        BY <1>0, <2>2 DEF TypeOK
      <3>7. counted' \in [Servers -> SUBSET sent] /\ \A j \in Servers \ {i} : counted'[j] = counted[j]
        BY <1>0, <2>3 DEF TypeOK, NetInv
      <3> QED BY <2>2, <2>3, <3>1, <3>5, <3>6, <3>7, DecideStep
    <2> QED BY <2>1, <2>2, <2>3, CountStep
  <1>6. CASE Stash(i)
    <2>1. PICK p \in Arriving(i) :
            links_' = Popped(p) /\ stash_' = [stash_ EXCEPT ![i] = Keep(i, @ \cup {p})]
      BY <1>6 DEF Stash
    <2>2. UNCHANGED <<pc, color_, round_, color_round_, decided_, counted, sent>> BY <1>6 DEF Stash
    <2>3. i \in 0 .. N BY ConsensusAssumption DEF Servers
    <2>4. p \in sent /\ Popped(p) \in [Links -> Seq(sent)] /\ Carries(Popped(p))
      BY <1>0, <2>3, Deliver
    <2>5. stash_' \in [Servers -> SUBSET sent]
      <3>1. stash_ \in [Servers -> SUBSET sent] BY <1>0 DEF TypeOK, NetInv
      <3>2. Keep(i, stash_[i] \cup {p}) \in SUBSET sent BY <2>4, <3>1 DEF Keep
      <3> QED BY <2>1, <3>1, <3>2
    <2> QED BY <2>1, <2>2, <2>4, <2>5, NetOnly
  <1>7. CASE Learn(i)
    <2>1. PICK p \in Arriving(i) :
            /\ p.m.type = "decide" /\ color_' = [color_ EXCEPT ![i] = p.m.color]
            /\ Decide(Popped(p), i, p.m.color)
      BY <1>7 DEF Learn
    <2>2. UNCHANGED <<round_, color_round_, stash_, counted>> /\ pc[i] \notin {"start", "done"}
      BY <1>7 DEF Learn, Awaits
    <2>3. i \in 0 .. N BY ConsensusAssumption DEF Servers
    <2>4. p \in sent /\ Popped(p) \in [Links -> Seq(sent)] /\ Carries(Popped(p))
      BY <1>0, <2>3, Deliver
    <2>5. p.m.color \in Colors /\ Chosen(p.m.color) BY <1>0, <2>1, <2>4 DEF PacketOK, IsDecide
    <2>6. stash_' \in [Servers -> SUBSET sent] /\ counted' \in [Servers -> SUBSET sent]
      BY <1>0, <2>2 DEF TypeOK, NetInv
    <2> QED BY <2>1, <2>2, <2>4, <2>5, <2>6, DecideStep
  <1> QED BY <1>1, <1>2, <1>3, <1>4, <1>5, <1>6, <1>7 DEF Step

-----------------------------------------------------------------------------
(* The theorems. *)

LEMMA InitInv == Init => IInv
  <1> SUFFICES ASSUME Init PROVE IInv OBVIOUS
  <1>1. TypeOK
    <2>1. color_ \in [Servers -> Colors] BY ConsensusAssumption DEF Init, Servers
    <2>2. links_ \in [Links -> Seq(sent)] BY DEF Init
    <2> QED BY <2>1, <2>2 DEF Init, TypeOK
  <1>2. NetInv BY DEF Init, NetInv, Carries
  <1>3. \A i \in Servers : ServerOK(i) BY DEF Init, ServerOK
  <1>4. Once /\ \A p \in sent : PacketOK(p) BY DEF Init, Once
  <1> QED BY <1>1, <1>2, <1>3, <1>4 DEF IInv

LEMMA NextInv == IInv /\ [Next]_vars => IInv'
  <1> SUFFICES ASSUME IInv, [Next]_vars PROVE IInv' OBVIOUS
  <1>0. TypeOK /\ NetInv BY DEF IInv
  <1>1. stash_ \in [Servers -> SUBSET sent] /\ links_ \in [Links -> Seq(sent)] /\ Carries(links_)
    BY <1>0 DEF TypeOK, NetInv
  <1>2. ASSUME NEW i \in Servers, Step(i) \/ Suspect(i) PROVE IInv' BY <1>2, ServerStep
  <1>3. CASE NancyReceive
    <2>1. PICK p \in Arriving(nancy_id) : links_' = Popped(p) BY <1>3 DEF NancyReceive
    <2>2. UNCHANGED <<pc, color_, round_, color_round_, stash_, decided_, counted, sent>>
      BY <1>3 DEF NancyReceive, serverVars
    <2>3. nancy_id \in 0 .. N BY ConsensusAssumption DEF nancy_id
    <2>4. Popped(p) \in [Links -> Seq(sent)] /\ Carries(Popped(p)) BY <1>0, <2>3, Deliver
    <2> QED BY <1>1, <2>1, <2>2, <2>4, NetOnly
  <1>4. CASE NancyStops \/ UNCHANGED vars
    <2>1. UNCHANGED <<pc, color_, round_, color_round_, stash_, decided_, counted, sent, links_>>
      BY <1>4 DEF NancyStops, vars, serverVars
    <2> QED BY <1>1, <2>1, NetOnly
  <1> QED BY <1>2, <1>3, <1>4 DEF Next

\* What was chosen stays the only color: two colors that most servers accepted, in
\* whatever rounds, are one.
LEMMA OneChosen ==
  ASSUME IInv, NEW r1 \in Nat, NEW c1, ProposedAt(r1, c1), Most({j \in Servers : Voted(j, r1)}),
         NEW r2 \in Nat, NEW c2, ProposedAt(r2, c2), r1 <= r2
  PROVE  c1 = c2
  <1>1. CASE r1 = r2 BY <1>1 DEF IInv, Once, ProposedAt, IsPropose
  <1>2. CASE r1 < r2
    <2>1. PICK p \in sent : IsPropose(p) /\ p.m.round = r1 /\ p.m.color = c1 BY DEF ProposedAt
    <2>2. PICK q \in sent : IsPropose(q) /\ q.m.round = r2 /\ q.m.color = c2 BY DEF ProposedAt
    <2>3. r1 >= 1 /\ SafeAt(r2, c2) BY <2>1, <2>2 DEF IInv, PacketOK, ProposeOK
    <2>4. Dead(r1) \/ ProposedAt(r1, c2) BY <1>2, <2>3 DEF SafeAt
    <2>5. ~Dead(r1)
      <3> SUFFICES ASSUME NEW Q \in SUBSET Servers, Most(Q), \A j \in Q : ~Voted(j, r1)
                   PROVE  FALSE
        BY DEF Dead
      <3>1. \E j \in Q : j \in {k \in Servers : Voted(k, r1)} BY MostMeet
      <3> QED BY <3>1
    <2> QED BY <2>4, <2>5 DEF IInv, Once, ProposedAt, IsPropose
  <1> QED BY <1>1, <1>2

LEMMA AgreementFromInv == IInv => Agreement
  <1> SUFFICES ASSUME IInv, NEW i \in Servers, NEW j \in Servers, decided_[i], decided_[j]
               PROVE  color_[i] = color_[j]
    BY DEF Agreement
  <1>1. Chosen(color_[i]) /\ Chosen(color_[j]) BY DEF IInv, ServerOK
  <1>2. PICK r1 \in Nat : ProposedAt(r1, color_[i]) /\ Most({k \in Servers : Voted(k, r1)})
    BY <1>1 DEF Chosen
  <1>3. PICK r2 \in Nat : ProposedAt(r2, color_[j]) /\ Most({k \in Servers : Voted(k, r2)})
    BY <1>1 DEF Chosen
  <1>4. r1 <= r2 \/ r2 <= r1 OBVIOUS
  <1> QED BY <1>2, <1>3, <1>4, OneChosen

LEMMA ColorLockedFromInv == IInv => ColorLocked
  <1> SUFFICES ASSUME IInv, NEW m1 \in Proposals, NEW m2 \in Proposals,
                      m1.round <= m2.round, Most(Accepted(m1.round))
               PROVE  m1.color = m2.color
    BY DEF ColorLocked
  <1>0. TypeOK BY DEF IInv
  <1>1. PICK p \in sent : IsPropose(p) /\ m1 = p.m BY DEF Proposals, IsPropose
  <1>2. PICK q \in sent : IsPropose(q) /\ m2 = q.m BY DEF Proposals, IsPropose
  <1>3. m1.round \in Nat /\ m2.round \in Nat BY <1>0, <1>1, <1>2, PacketTypes
  <1>4. ProposedAt(m1.round, m1.color) /\ ProposedAt(m2.round, m2.color)
    BY <1>1, <1>2 DEF ProposedAt
  <1>5. Accepted(m1.round) \subseteq {j \in Servers : Voted(j, m1.round)}
    BY <1>0, PacketTypes DEF Accepted, Voted, IsAck
  <1>6. Most({j \in Servers : Voted(j, m1.round)}) BY <1>5, MostLarger
  <1> QED BY <1>3, <1>4, <1>6, OneChosen

\* Every variable keeps its type; in particular what is on a link was sent.
THEOREM ConsensusTypeCorrect == Spec => []TypeOK
  <1>1. IInv => TypeOK BY DEF IInv
  <1> QED BY <1>1, InitInv, NextInv, PTL DEF Spec

\* Servers that decide, in server::consensus by counting ACKs or in receive() by
\* a DECIDE, decide for one color, however many servers there are, however often
\* a leader is suspected and however late messages are.
THEOREM ConsensusAgreement == Spec => []Agreement
  BY InitInv, NextInv, AgreementFromInv, PTL DEF Spec

\* Once most servers accepted a leader's color, every later leader's PREPAREs make
\* it propose that color.
THEOREM ConsensusColorLocked == Spec => []ColorLocked
  BY InitInv, NextInv, ColorLockedFromInv, PTL DEF Spec

============================================================================
