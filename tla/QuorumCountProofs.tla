-------------------------- MODULE QuorumCountProofs --------------------------
(***************************************************************************)
(* Proofs about EventQuorum: a quorum triggers exactly when enough of its  *)
(* arguments have, with the invariant and the lemmas of EventQuorumProofs. *)
(*                                                                         *)
(* CountInv relates triggered_ to the arguments that have triggered: while *)
(* the quorum can still trigger, those are counted, once each, that are    *)
(* neither in its list nor still to be added by make(); afterwards never   *)
(* more.  A body that any() or all() gets n times is n arguments, <<x, 1>> *)
(* to <<x, n>>.                                                            *)
(***************************************************************************)
EXTENDS EventQuorumProofs

-----------------------------------------------------------------------------
(* Counting: triggered_ is the number of arguments that have triggered. *)

\* The arguments of q among the bodies of T, but for m of each.
Past(q, m, T) == {a \in Args(q) : a[1] \in T /\ a[2] > m[a[1]]}

\* Of the arguments of q, m are in the list or still to be added, and those of T have
\* triggered.  Never too many are counted; if q is open, all that triggered and have
\* left the list are, and nobody has left it before.
Balanced(q, count, m, T, open) ==
    /\ \A x \in Bodies : m[x] <= Members[q][x]
    /\ count <= Cardinality(Past(q, m, T))
    /\ open => /\ count = Cardinality(Past(q, m, T))
               /\ \A x \in Bodies \ T : m[x] = Members[q][x]

LEMMA ArgsFacts ==
    ASSUME NEW q \in Quorums
    PROVE  /\ IsFiniteSet(Args(q))
           /\ \A a \in Args(q) : a[1] \in Bodies /\ a[2] \in Nat \ {0} /\ a[2] <= Members[q][a[1]]
           /\ \A x \in Bodies, i \in Nat \ {0} : i <= Members[q][x] => <<x, i>> \in Args(q)
<1>1. Members[q] \in [Bodies -> Nat] /\ IsFiniteSet(Bodies)
  BY QuorumAssumption
<1>2. PICK M \in [Bodies -> Nat] : M = Members[q]
  BY <1>1
<1>3. PICK S : S = {{x} \X (1..M[x]) : x \in Bodies}
  OBVIOUS
<1>4. PICK g : g = [x \in Bodies |-> {x} \X (1..M[x])]
  OBVIOUS
<1>5. g \in Surjection(Bodies, S)
  BY <1>3, <1>4 DEF Surjection
<1>6. IsFiniteSet(S)
  BY <1>1, <1>5, FS_Surjection
<1>7. ASSUME NEW P \in S PROVE IsFiniteSet(P)
  <2>1. PICK x \in Bodies : P = {x} \X (1..M[x])
    BY <1>3, <1>7
  <2>2. IsFiniteSet({x}) /\ IsFiniteSet(1..M[x])
    <3>1. M[x] \in Int /\ 1 \in Int
      BY <1>2
    <3> QED
      BY <3>1, FS_Singleton, FS_Interval
  <2> QED
    BY <2>1, <2>2, FS_Product
<1>8. IsFiniteSet(UNION S)
  BY <1>6, <1>7, FS_UNION
<1>9. Args(q) = UNION S
  BY <1>2, <1>3 DEF Args
<1>10. ASSUME NEW a \in Args(q)
       PROVE  a[1] \in Bodies /\ a[2] \in Nat \ {0} /\ a[2] <= M[a[1]]
  <2>1. PICK x \in Bodies : a \in {x} \X (1..M[x])
    BY <1>2, <1>10 DEF Args
  <2> QED
    BY <2>1
<1>11. ASSUME NEW x \in Bodies, NEW i \in Nat \ {0}, i <= M[x]
       PROVE  <<x, i>> \in Args(q)
  <2>1. <<x, i>> \in {x} \X (1..M[x])
    BY <1>11
  <2> QED
    BY <1>2, <2>1 DEF Args
<1> QED
  BY <1>2, <1>8, <1>9, <1>10, <1>11

LEMMA PastGrows ==
    ASSUME NEW q \in Quorums, NEW m \in [Bodies -> Nat], NEW n \in [Bodies -> Nat],
           \A x \in Bodies : n[x] <= m[x], NEW T, NEW U, T \subseteq U
    PROVE  /\ IsFiniteSet(Past(q, m, T)) /\ Cardinality(Past(q, m, T)) \in Nat
           /\ IsFiniteSet(Past(q, n, U)) /\ Cardinality(Past(q, n, U)) \in Nat
           /\ Past(q, m, T) \subseteq Past(q, n, U)
           /\ Cardinality(Past(q, m, T)) <= Cardinality(Past(q, n, U))
<1>1. IsFiniteSet(Args(q)) /\ \A a \in Args(q) : a[1] \in Bodies /\ a[2] \in Nat
  BY ArgsFacts
<1>2. Past(q, m, T) \in SUBSET Args(q) /\ Past(q, n, U) \in SUBSET Args(q)
  BY DEF Past
<1>3. Past(q, m, T) \subseteq Past(q, n, U)
  <2>1. ASSUME NEW a \in Past(q, m, T) PROVE a \in Past(q, n, U)
    <3>1. a \in Args(q) /\ a[1] \in T /\ a[2] > m[a[1]] /\ a[1] \in Bodies /\ a[2] \in Nat
      BY <1>1, <2>1 DEF Past
    <3>2. PICK y \in Bodies, i \in Nat : y = a[1] /\ i = a[2]
      BY <3>1
    <3>3. n[y] <= m[y] /\ n[y] \in Nat /\ m[y] \in Nat /\ i > m[y]
      BY <3>1, <3>2
    <3>4. i > n[y]
      BY <3>3
    <3> QED
      BY <3>1, <3>2, <3>4 DEF Past
  <2> QED
    BY <2>1
<1>4. IsFiniteSet(Past(q, m, T)) /\ IsFiniteSet(Past(q, n, U))
  BY <1>1, <1>2, FS_Subset
<1>5. Cardinality(Past(q, m, T)) \in Nat /\ Cardinality(Past(q, n, U)) \in Nat
  BY <1>4, FS_CardinalityType
<1>6. Cardinality(Past(q, m, T)) <= Cardinality(Past(q, n, U))
  BY <1>3, <1>4, FS_Subset
<1> QED
  BY <1>3, <1>4, <1>5, <1>6

\* More bodies have triggered.
LEMMA BalancedGrows ==
    ASSUME NEW q \in Quorums, NEW c \in Nat, NEW m \in [Bodies -> Nat], NEW T, NEW U, T \subseteq U,
           NEW o \in BOOLEAN, NEW p \in BOOLEAN, p => o, Balanced(q, c, m, T, o)
    PROVE  Balanced(q, c, m, U, p)
<1>1. /\ Cardinality(Past(q, m, T)) \in Nat /\ Cardinality(Past(q, m, U)) \in Nat
      /\ Past(q, m, T) \subseteq Past(q, m, U)
      /\ Cardinality(Past(q, m, T)) <= Cardinality(Past(q, m, U))
  <2>1. \A x \in Bodies : m[x] <= m[x]
    OBVIOUS
  <2> QED
    BY <2>1, PastGrows
<1>2. ASSUME p PROVE Past(q, m, U) \subseteq Past(q, m, T)
  <2>1. ASSUME NEW a \in Past(q, m, U), a[1] \notin T PROVE FALSE
    <3>1. a[1] \in Bodies /\ a[2] \in Nat /\ a[2] <= Members[q][a[1]] /\ a[2] > m[a[1]]
      BY <2>1, ArgsFacts DEF Past
    <3>2. m[a[1]] = Members[q][a[1]] /\ m[a[1]] \in Nat
      BY <1>2, <2>1, <3>1 DEF Balanced
    <3> QED
      BY <3>1, <3>2
  <2> QED
    BY <2>1 DEF Past
<1>3. p => Past(q, m, U) = Past(q, m, T)
  BY <1>1, <1>2
<1>4. c <= Cardinality(Past(q, m, U))
  BY <1>1 DEF Balanced
<1>5. p => c = Cardinality(Past(q, m, U)) /\ \A x \in Bodies \ U : m[x] = Members[q][x]
  BY <1>3 DEF Balanced
<1> QED
  BY <1>4, <1>5 DEF Balanced

\* The list of a quorum that is not open shrinks.
LEMMA BalancedLess ==
    ASSUME NEW q \in Quorums, NEW c \in Nat, NEW m \in [Bodies -> Nat], NEW T, NEW U, T \subseteq U,
           NEW o \in BOOLEAN, NEW p \in BOOLEAN, ~p, Balanced(q, c, m, T, o),
           NEW d \in Nat, d <= c, NEW n \in [Bodies -> Nat], \A x \in Bodies : n[x] <= m[x]
    PROVE  Balanced(q, d, n, U, p)
<1>1. /\ Cardinality(Past(q, m, T)) \in Nat /\ Cardinality(Past(q, n, U)) \in Nat
      /\ Cardinality(Past(q, m, T)) <= Cardinality(Past(q, n, U))
  BY PastGrows
<1>2. d <= Cardinality(Past(q, n, U))
  BY <1>1 DEF Balanced
<1>3. ASSUME NEW x \in Bodies PROVE n[x] <= Members[q][x]
  <2>1. Members[q][x] \in Nat
    BY QuorumAssumption
  <2>2. n[x] <= m[x] /\ m[x] <= Members[q][x]
    BY DEF Balanced
  <2> QED
    BY <2>1, <2>2
<1> QED
  BY <1>2, <1>3 DEF Balanced

\* An argument that has triggered is counted, and leaves the list or is not added to it.
LEMMA BalancedCounts ==
    ASSUME NEW q \in Quorums, NEW c \in Nat, NEW m \in [Bodies -> Nat], NEW T,
           NEW o \in BOOLEAN, NEW p \in BOOLEAN, p => o, Balanced(q, c, m, T, o),
           NEW x \in Bodies, x \in T, m[x] > 0
    PROVE  Balanced(q, c + 1, Dec(m, x), T, p)
<1>1. PICK n \in [Bodies -> Nat] : n = Dec(m, x)
  BY BagFacts
<1>2. \A y \in Bodies : n[y] = IF y = x THEN m[x] - 1 ELSE m[y]
  BY <1>1, BagFacts
<1>3. \A y \in Bodies : m[y] <= Members[q][y] /\ m[y] \in Nat /\ Members[q][y] \in Nat
  BY QuorumAssumption DEF Balanced
<1>4. \A y \in Bodies : n[y] <= m[y] /\ n[y] <= Members[q][y]
  BY <1>2, <1>3
<1>5. IsFiniteSet(Past(q, m, T)) /\ Cardinality(Past(q, m, T)) \in Nat /\ Past(q, m, T) \subseteq Past(q, n, T)
  BY <1>4, PastGrows
<1>6. PICK a : a = <<x, m[x]>>
  OBVIOUS
<1>7. a \in Past(q, n, T) /\ a \notin Past(q, m, T)
  <2>1. a \in Args(q)
    BY <1>3, <1>6, ArgsFacts
  <2>2. a[1] = x /\ a[2] = m[x] /\ n[x] = m[x] - 1 /\ m[x] \in Nat
    BY <1>2, <1>6
  <2> QED
    BY <2>1, <2>2 DEF Past
<1>8. ASSUME NEW e \in Past(q, n, T), e \notin Past(q, m, T) PROVE e = a
  <2>1. e \in Args(q) /\ e[1] \in T /\ e[1] \in Bodies /\ e[2] \in Nat /\ e[2] > n[e[1]] /\ ~(e[2] > m[e[1]])
    BY <1>8, ArgsFacts DEF Past
  <2>2. e[1] = x /\ e[2] = m[x]
    <3>1. PICK y \in Bodies, i \in Nat : y = e[1] /\ i = e[2]
      BY <2>1
    <3>2. i > n[y] /\ ~(i > m[y]) /\ m[y] \in Nat
      BY <2>1, <3>1
    <3>3. y = x /\ i = m[x]
      BY <1>2, <3>2
    <3> QED
      BY <3>1, <3>3
  <2>3. e = <<e[1], e[2]>>
    <3>1. PICK y \in Bodies : e \in {y} \X (1..Members[q][y])
      BY <2>1 DEF Args
    <3> QED
      BY <3>1
  <2> QED
    BY <1>6, <2>2, <2>3
<1>9. Past(q, n, T) = Past(q, m, T) \union {a}
  BY <1>5, <1>7, <1>8
<1>10. Cardinality(Past(q, n, T)) = Cardinality(Past(q, m, T)) + 1
  BY <1>5, <1>7, <1>9, FS_AddElement
<1>11. c <= Cardinality(Past(q, m, T)) /\ (p => c = Cardinality(Past(q, m, T)))
  BY DEF Balanced
<1>12. c + 1 <= Cardinality(Past(q, n, T)) /\ (p => c + 1 = Cardinality(Past(q, n, T)))
  BY <1>5, <1>10, <1>11
<1>13. p => \A y \in Bodies \ T : n[y] = Members[q][y]
  <2>1. ASSUME p, NEW y \in Bodies \ T PROVE n[y] = Members[q][y]
    <3>1. m[y] = Members[q][y]
      BY <2>1 DEF Balanced
    <3> QED
      BY <1>2, <2>1, <3>1
  <2> QED
    BY <2>1
<1>14. Balanced(q, c + 1, n, T, p)
  BY <1>4, <1>12, <1>13 DEF Balanced
<1> QED
  BY <1>1, <1>14

\* make() has everything to add.
LEMMA BalancedStart ==
    ASSUME NEW q \in Quorums, NEW m \in [Bodies -> Nat], m = Members[q], NEW T, NEW o \in BOOLEAN
    PROVE  Balanced(q, 0, m, T, o)
<1>1. Past(q, m, T) = {}
  <2>1. ASSUME NEW a \in Past(q, m, T) PROVE FALSE
    <3>1. a[1] \in Bodies /\ a[2] \in Nat /\ a[2] <= m[a[1]] /\ a[2] > m[a[1]]
      BY <2>1, ArgsFacts DEF Past
    <3> QED
      BY <3>1
  <2> QED
    BY <2>1
<1>2. Cardinality(Past(q, m, T)) = 0
  BY <1>1, FS_EmptySet
<1> QED
  BY <1>2 DEF Balanced

-----------------------------------------------------------------------------
(* The second invariant. *)

\* make() has still to add the arguments of left.
ToAdd(q, left) ==
    \/ left = Nobody /\ \A t \in Threads : \A k \in 1..Len(stack[t]) : ~Is(t, k, "make", q)
    \/ \E t \in Threads : \E k \in 1..Len(stack[t]) : Is(t, k, "make", q) /\ left = stack[t][k].left

Fired == {x \in Bodies : body[x].triggered}
Pending(q, left) == [x \in Bodies |-> body[q].members[x] + left[x]]

Publishing(q) == \E t \in Threads : \E k \in 1..Len(stack[t]) : Is(t, k, "publish", q)

\* Somebody is about to look whether q should trigger.
Looking(q) ==
    \E t \in Threads : \E k \in 1..Len(stack[t]) : Is(t, k, "make", q) \/ Is(t, k, "member_end", q)

\* q has references and has not begun to trigger, so its members have not been culled.
Open(q) == Live(q) /\ body[q].ref > 0 /\ ~body[q].triggered /\ ~Publishing(q)

CountOK(q) ==
    \A left \in [Bodies -> Nat] : ToAdd(q, left) =>
        Balanced(q, body[q].count, Pending(q, left), Fired, Open(q))

CountInv ==
    \A q \in Quorums :
        /\ CountOK(q)
        /\ Open(q) /\ Reached(q) => Looking(q)
        /\ body[q].triggered \/ Publishing(q) => Arrived(q) >= Needed[q]

\* What a step of t does to the count of q.
Tally(t, b, new, q) ==
    /\ CountOK(q)'
    /\ Open(q)' /\ Reached(q)' => Looking(q)'
    /\ (\E j \in 1..Len(new) : new[j].op = "publish" /\ new[j].on = q) => Arrived(q) >= Needed[q]

LEMMA ArrivedFacts ==
    ASSUME NEW q \in Quorums
    PROVE  /\ Arrived(q) = Cardinality(Past(q, Nobody, Fired)) /\ Arrived(q) \in Nat
           /\ Arrived(q)' = Cardinality(Past(q, Nobody, Fired')) /\ Arrived(q)' \in Nat
           /\ Fired \subseteq Fired' => Arrived(q) <= Arrived(q)'
<1>1. {a \in Args(q) : body[a[1]].triggered} = Past(q, Nobody, Fired)
  BY ArgsFacts, NobodyFacts DEF Past, Fired
<1>2. {a \in Args(q) : body'[a[1]].triggered} = Past(q, Nobody, Fired')
  BY ArgsFacts, NobodyFacts DEF Past, Fired
<1>3. PICK T, U : T = Fired /\ U = Fired'
  OBVIOUS
<1>4. \A x \in Bodies : Nobody[x] <= Nobody[x]
  BY NobodyFacts
<1>5. Cardinality(Past(q, Nobody, T)) \in Nat /\ Cardinality(Past(q, Nobody, U)) \in Nat
  BY <1>4, PastGrows, NobodyFacts
<1>6. T \subseteq U => Cardinality(Past(q, Nobody, T)) <= Cardinality(Past(q, Nobody, U))
  BY <1>4, PastGrows, NobodyFacts
<1> QED
  BY <1>1, <1>2, <1>3, <1>5, <1>6 DEF Arrived

LEMMA FiredGrows ==
    ASSUME NEW t, NEW b, TriggerStep(t, b)
    PROVE  Fired \subseteq Fired'
BY DEF TriggerStep, Fired

LEMMA CountStep ==
    ASSUME IInv, CountInv, TypeOK', NEW t \in Threads, NEW b, NEW new, Moves(t, b, new), TriggerStep(t, b),
           \A q \in Quorums : Tally(t, b, new, q)
    PROVE  CountInv'
<1>1. ASSUME NEW q \in Quorums, body'[q].triggered \/ Publishing(q)'
      PROVE  Arrived(q) >= Needed[q]
  <2>1. q \in Bodies
    BY DEF Bodies
  <2>2. CASE body[q].triggered \/ Publishing(q)
    BY <2>2 DEF CountInv
  <2>3. CASE body'[q].triggered /\ ~body[q].triggered
    <3>1. Pops(t, b, "publish", q) /\ Moves(t, b, new)
      BY <2>1, <2>3 DEF TriggerStep
    <3>2. b + 1 \in 1..Len(stack[t])
      BY <3>1 DEF Pops, Moves
    <3>3. Publishing(q)
      BY <3>1, <3>2 DEF Publishing, Pops
    <3> QED
      BY <3>3 DEF CountInv
  <2>4. CASE Publishing(q)'
    <3>1. PICK u \in Threads : \E k \in 1..Len(stack'[u]) : Is(u, k, "publish", q)'
      BY <2>4 DEF Publishing
    <3>2. PICK k \in 1..Len(stack'[u]) : Is(u, k, "publish", q)'
      BY <3>1
    <3>3. \/ k \in 1..Len(stack[u]) /\ stack'[u][k] = stack[u][k]
          \/ k - b \in 1..Len(new) /\ stack'[u][k] = new[k - b]
      <4>1. TypeOK /\ Moves(t, b, new)
        BY DEF IInv
      <4> QED
        BY ONLY <4>1, t \in Threads, MovesFacts, u \in Threads, k \in 1..Len(stack'[u])
    <3>4. CASE k \in 1..Len(stack[u]) /\ stack'[u][k] = stack[u][k]
      <4>1. Publishing(q)
        BY <3>2, <3>4 DEF Publishing, Is
      <4> QED
        BY <4>1 DEF CountInv
    <3>5. CASE k - b \in 1..Len(new) /\ stack'[u][k] = new[k - b]
      BY <3>2, <3>5 DEF Tally, Is
    <3> QED
      BY <3>3, <3>4, <3>5
  <2> QED
    BY <1>1, <2>2, <2>3, <2>4
<1>2. ASSUME NEW q \in Quorums, body'[q].triggered \/ Publishing(q)'
      PROVE  Arrived(q)' >= Needed[q]
  <2>1. Arrived(q) <= Arrived(q)' /\ Arrived(q) \in Nat /\ Arrived(q)' \in Nat
    BY FiredGrows, ArrivedFacts
  <2>2. Needed[q] \in Nat
    BY QuorumAssumption
  <2> QED
    BY <1>1, <1>2, <2>1, <2>2
<1>3. ASSUME NEW q \in Quorums
      PROVE  CountOK(q)' /\ (Open(q)' /\ Reached(q)' => Looking(q)')
  BY DEF Tally
<1> QED
  BY <1>2, <1>3 DEF CountInv

-----------------------------------------------------------------------------
(* Steps that leave the count of a quorum alone. *)

LEMMA PendingType ==
    ASSUME TypeOK, NEW q \in Bodies, NEW left \in [Bodies -> Nat]
    PROVE  Pending(q, left) \in [Bodies -> Nat] /\ body[q].count \in Nat
BY SMTT(60) DEF Pending, TypeOK, BodyType

\* The step is not about make() of q.
NoMake(t, b, new, q) ==
    ~Pops(t, b, "make", q) /\ \A j \in 1..Len(new) : ~(new[j].op = "make" /\ new[j].on = q)

LEMMA ToAddKept ==
    ASSUME TypeOK, NEW t \in Threads, NEW b, NEW new, Moves(t, b, new), NEW q, NoMake(t, b, new, q),
           NEW left, ToAdd(q, left)'
    PROVE  ToAdd(q, left)
<1>1. CASE left = Nobody /\ \A u \in Threads : \A k \in 1..Len(stack'[u]) : ~Is(u, k, "make", q)'
  <2>1. ASSUME NEW u \in Threads, NEW k \in 1..Len(stack[u]), Is(u, k, "make", q) PROVE FALSE
    <3>1. \/ k \in 1..Len(stack'[u]) /\ stack'[u][k] = stack[u][k]
          \/ u = t /\ k = b + 1 /\ Len(stack[t]) = b + 1
      BY MovesFacts
    <3> QED
      BY <1>1, <2>1, <3>1 DEF Is, NoMake, Pops
  <2> QED
    BY <1>1, <2>1 DEF ToAdd
<1>2. CASE \E u \in Threads : \E k \in 1..Len(stack'[u]) : Is(u, k, "make", q)' /\ left = stack'[u][k].left
  <2>1. PICK u \in Threads : \E k \in 1..Len(stack'[u]) : Is(u, k, "make", q)' /\ left = stack'[u][k].left
    BY <1>2
  <2>2. PICK k \in 1..Len(stack'[u]) : Is(u, k, "make", q)' /\ left = stack'[u][k].left
    BY <2>1
  <2>3. \/ k \in 1..Len(stack[u]) /\ stack'[u][k] = stack[u][k]
        \/ k - b \in 1..Len(new) /\ stack'[u][k] = new[k - b]
    BY MovesFacts
  <2>4. k \in 1..Len(stack[u]) /\ stack'[u][k] = stack[u][k]
    BY <2>2, <2>3 DEF Is, NoMake
  <2> QED
    BY <2>2, <2>4 DEF ToAdd, Is
<1> QED
  BY <1>1, <1>2 DEF ToAdd

\* Nobody stops looking.
LEMMA LookingKept ==
    ASSUME TypeOK, NEW t \in Threads, NEW b, NEW new, Moves(t, b, new), NEW q, NoMake(t, b, new, q),
           ~Pops(t, b, "member_end", q), Looking(q)
    PROVE  Looking(q)'
<1>1. PICK u \in Threads : \E k \in 1..Len(stack[u]) : Is(u, k, "make", q) \/ Is(u, k, "member_end", q)
  BY DEF Looking
<1>2. PICK k \in 1..Len(stack[u]) : Is(u, k, "make", q) \/ Is(u, k, "member_end", q)
  BY <1>1
<1>3. \/ k \in 1..Len(stack'[u]) /\ stack'[u][k] = stack[u][k]
      \/ u = t /\ k = b + 1 /\ Len(stack[t]) = b + 1
  BY MovesFacts
<1>4. k \in 1..Len(stack'[u]) /\ stack'[u][k] = stack[u][k]
  BY <1>2, <1>3 DEF NoMake, Pops
<1> QED
  BY <1>2, <1>4 DEF Looking, Is

\* make() has as much to add as before.
AddsSame(t, b, new, q) == NoMake(t, b, new, q) \/ \A left : ToAdd(q, left)' => ToAdd(q, left)

\* The step counts nothing, and q keeps its members or is not open.
Uncounted(t, b, new, q) ==
    /\ AddsSame(t, b, new, q)
    /\ (\E j \in 1..Len(new) : new[j].op = "publish" /\ new[j].on = q) => Arrived(q) >= Needed[q]
    /\ \/ /\ body'[q].count = body[q].count /\ body'[q].members = body[q].members
          /\ Open(q)' => Open(q)
          /\ Pops(t, b, "member_end", q) \/ ~NoMake(t, b, new, q) => ~(Open(q)' /\ Reached(q)')
       \/ /\ body'[q].count <= body[q].count /\ ~Open(q)'
          /\ \A x \in Bodies : body'[q].members[x] <= body[q].members[x]

LEMMA UncountedTally ==
    ASSUME IInv, CountInv, TypeOK', NEW t \in Threads, NEW b, NEW new, Moves(t, b, new), TriggerStep(t, b),
           NEW q \in Quorums, Uncounted(t, b, new, q)
    PROVE  Tally(t, b, new, q)
<1>1. q \in Bodies /\ TypeOK
  BY DEF Bodies, IInv
<1>2. PICK T, U : T = Fired /\ U = Fired' /\ T \subseteq U
  BY FiredGrows
<1>3. PICK o \in BOOLEAN : o = Open(q)
  BY DEF Open, Live, Publishing
<1>4. PICK p \in BOOLEAN : p = Open(q)'
  BY DEF Open, Live, Publishing
<1>5. body[q] \in BodyType /\ body'[q] \in BodyType
  BY <1>1 DEF TypeOK
<1>6. PICK c \in Nat, d \in Nat : c = body[q].count /\ d = body'[q].count
  BY <1>5 DEF BodyType
<1>7. ASSUME NEW left \in [Bodies -> Nat], ToAdd(q, left)'
      PROVE  Balanced(q, body'[q].count, Pending(q, left)', Fired', Open(q)')
  <2>1. ToAdd(q, left)
    BY <1>1, <1>7, ToAddKept DEF Uncounted, AddsSame
  <2>2. PICK m \in [Bodies -> Nat] : m = Pending(q, left)
    BY <1>1, PendingType
  <2>3. PICK n \in [Bodies -> Nat] : n = Pending(q, left)'
    <3>1. body'[q].members \in [Bodies -> Nat]
      BY <1>5 DEF BodyType
    <3>2. Pending(q, left)' = [x \in Bodies |-> body'[q].members[x] + left[x]]
      BY DEF Pending
    <3> QED
      BY <3>1, <3>2
  <2>4. Balanced(q, c, m, T, o)
    BY <1>2, <1>3, <1>6, <2>1, <2>2 DEF CountInv, CountOK
  <2>5. CASE c = d /\ body'[q].members = body[q].members /\ (p => o)
    <3>1. m = n
      BY <2>2, <2>3, <2>5 DEF Pending
    <3>2. Balanced(q, c, m, U, p)
      BY ONLY <1>2, <2>4, <2>5, BalancedGrows, q \in Quorums, c \in Nat, m \in [Bodies -> Nat],
              o \in BOOLEAN, p \in BOOLEAN
    <3> QED
      BY <1>2, <1>4, <1>6, <2>3, <2>5, <3>1, <3>2
  <2>6. CASE d <= c /\ ~p /\ \A x \in Bodies : body'[q].members[x] <= body[q].members[x]
    <3>1. ASSUME NEW x \in Bodies PROVE n[x] <= m[x]
      <4>1. /\ body[q].members[x] \in Nat /\ body'[q].members[x] \in Nat /\ left[x] \in Nat
            /\ body'[q].members[x] <= body[q].members[x]
        BY <1>5, <2>6 DEF BodyType
      <4>2. n[x] = body'[q].members[x] + left[x] /\ m[x] = body[q].members[x] + left[x]
        BY <2>2, <2>3 DEF Pending
      <4> QED
        BY <4>1, <4>2
    <3>2. Balanced(q, d, n, U, p)
      BY ONLY <1>2, <2>4, <2>6, <3>1, BalancedLess, q \in Quorums, c \in Nat, d \in Nat,
              m \in [Bodies -> Nat], n \in [Bodies -> Nat], o \in BOOLEAN, p \in BOOLEAN
    <3> QED
      BY <1>2, <1>4, <1>6, <2>3, <3>2
  <2> QED
    BY <1>3, <1>4, <1>6, <2>5, <2>6 DEF Uncounted
<1>8. ASSUME Open(q)', Reached(q)' PROVE Looking(q)'
  <2>1. /\ body'[q].count = body[q].count /\ Open(q) /\ ~Pops(t, b, "member_end", q)
        /\ NoMake(t, b, new, q)
    BY <1>8 DEF Uncounted
  <2>2. Reached(q)
    BY <1>8, <2>1 DEF Reached
  <2>3. Looking(q)
    BY <2>1, <2>2 DEF CountInv
  <2> QED
    BY <1>1, <2>1, <2>3, LookingKept
<1> QED
  BY <1>7, <1>8 DEF Tally, CountOK, Uncounted

\* A body becomes c without being triggered or counting: it keeps its members, or is deleted.
Quietly(b, c) ==
    /\ c.triggered <=> b.triggered
    /\ \/ /\ c.count = b.count /\ c.members = b.members
          /\ c.life = "live" /\ c.ref > 0 => b.life = "live" /\ b.ref > 0
       \/ c.life = "deleted" /\ c.count = 0 /\ c.members = Nobody

\* A step of t, in a call of its own or not, that triggers no quorum and counts nothing.
QuietStep(t, b, new) ==
    /\ Moves(t, b, new)
    /\ Len(stack[t]) = b + 1 => stack[t][b + 1].op \notin {"make", "member_end", "publish"}
    /\ \A j \in 1..Len(new) : new[j].op # "make" /\ ~(new[j].op = "publish" /\ new[j].on \in Quorums)
    /\ \A y \in Bodies : Quietly(body[y], body'[y])

\* Nobody is about to trigger q any more only if q is triggered.
LEMMA PublishingKept ==
    ASSUME TypeOK, NEW t \in Threads, NEW b, NEW new, Moves(t, b, new), NEW q, ~Pops(t, b, "publish", q),
           Publishing(q)
    PROVE  Publishing(q)'
<1>1. PICK u \in Threads : \E k \in 1..Len(stack[u]) : Is(u, k, "publish", q)
  BY DEF Publishing
<1>2. PICK k \in 1..Len(stack[u]) : Is(u, k, "publish", q)
  BY <1>1
<1>3. \/ k \in 1..Len(stack'[u]) /\ stack'[u][k] = stack[u][k]
      \/ u = t /\ k = b + 1 /\ Len(stack[t]) = b + 1
  BY MovesFacts
<1>4. k \in 1..Len(stack'[u]) /\ stack'[u][k] = stack[u][k]
  BY <1>2, <1>3 DEF Pops
<1> QED
  BY <1>2, <1>4 DEF Publishing, Is

LEMMA QuietCounts ==
    ASSUME IInv, CountInv, TypeOK', NEW t \in Threads, NEW b, NEW new, QuietStep(t, b, new)
    PROVE  CountInv'
<1>1. TypeOK /\ Moves(t, b, new)
  BY DEF QuietStep, IInv
<1>2. TriggerStep(t, b)
  BY DEF TriggerStep, QuietStep, Quietly
<1>3. ASSUME NEW q \in Quorums PROVE Uncounted(t, b, new, q)
  <2>1. q \in Bodies
    BY DEF Bodies
  <2>2. /\ NoMake(t, b, new, q) /\ ~Pops(t, b, "member_end", q) /\ ~Pops(t, b, "publish", q)
        /\ ~(\E j \in 1..Len(new) : new[j].op = "publish" /\ new[j].on = q)
    BY DEF QuietStep, NoMake, Pops, Is
  <2>3. Publishing(q) => Publishing(q)'
    BY <1>1, <2>2, PublishingKept
  <2>4. PICK d, e : d = body[q] /\ e = body'[q] /\ d \in BodyType /\ e \in BodyType
    BY <1>1, <2>1 DEF TypeOK
  <2>5. Quietly(d, e)
    BY <2>1, <2>4 DEF QuietStep
  <2>6. CASE /\ e.count = d.count /\ e.members = d.members
             /\ e.life = "live" /\ e.ref > 0 => d.life = "live" /\ d.ref > 0
    <3>1. Open(q)' => Open(q)
      BY <2>3, <2>4, <2>5, <2>6 DEF Open, Live, Quietly
    <3> QED
      BY <2>2, <2>4, <2>6, <3>1 DEF Uncounted, AddsSame
  <2>7. CASE e.life = "deleted" /\ e.count = 0 /\ e.members = Nobody
    <3>1. ~Open(q)'
      BY <2>4, <2>7 DEF Open, Live
    <3>2. e.count <= d.count /\ \A x \in Bodies : e.members[x] <= d.members[x]
      BY <2>4, <2>7, NobodyFacts DEF BodyType
    <3> QED
      BY <2>2, <2>4, <3>1, <3>2 DEF Uncounted, AddsSame
  <2> QED
    BY <2>5, <2>6, <2>7 DEF Quietly
<1> QED
  BY <1>1, <1>2, <1>3, UncountedTally, CountStep

-----------------------------------------------------------------------------
(* The actions that are quiet. *)

QuietCalls(new) ==
    /\ new \in Seq(FrameType)
    /\ \A j \in 1..Len(new) : new[j].op # "make" /\ ~(new[j].op = "publish" /\ new[j].on \in Quorums)

LEMMA QuietNew ==
    /\ QuietCalls(<< >>)
    /\ \A g \in FrameType : g.op # "make" /\ ~(g.op = "publish" /\ g.on \in Quorums) => QuietCalls(<<g>>)
<1>1. QuietCalls(<< >>)
  BY DEF QuietCalls
<1>2. ASSUME NEW g \in FrameType, g.op # "make", ~(g.op = "publish" /\ g.on \in Quorums)
      PROVE  QuietCalls(<<g>>)
  <2>1. PICK s : s = <<g>>
    OBVIOUS
  <2>2. s \in Seq(FrameType) /\ 1..Len(s) = {1} /\ s[1] = g
    BY <2>1, OneCall
  <2> QED
    BY <1>2, <2>1, <2>2 DEF QuietCalls
<1> QED
  BY <1>1, <1>2

LEMMA QuietBoth ==
    ASSUME NEW r, NEW s, QuietCalls(r), QuietCalls(s)
    PROVE  QuietCalls(r \o s)
<1>1. r \in Seq(FrameType) /\ s \in Seq(FrameType)
  BY DEF QuietCalls
<1>2. PICK w : w = r \o s
  OBVIOUS
<1>3. /\ w \in Seq(FrameType) /\ Len(w) = Len(r) + Len(s) /\ Len(r) \in Nat /\ Len(s) \in Nat
      /\ \A i \in 1..Len(w) : w[i] = IF i <= Len(r) THEN r[i] ELSE s[i - Len(r)]
  BY <1>1, <1>2, ConcatProperties
<1>4. ASSUME NEW j \in 1..Len(w)
      PROVE  w[j].op # "make" /\ ~(w[j].op = "publish" /\ w[j].on \in Quorums)
  <2>1. CASE j <= Len(r)
    BY <1>3, <2>1 DEF QuietCalls
  <2>2. CASE ~(j <= Len(r))
    <3>1. j - Len(r) \in 1..Len(s) /\ w[j] = s[j - Len(r)]
      BY <1>3, <2>2
    <3> QED
      BY <3>1 DEF QuietCalls
  <2> QED
    BY <2>1, <2>2
<1> QED
  BY <1>2, <1>3, <1>4 DEF QuietCalls

LEMMA QuietRelease ==
    ASSUME NEW x \in Bodies
    PROVE  QuietCalls(<<Release(x)>>)
BY ReleaseFacts, QuietNew

LEMMA QuietCall ==
    ASSUME NEW op \in Ops, op \notin {"make", "publish"}, NEW x \in Bodies
    PROVE  QuietCalls(<<Call(op, x)>>)
BY CallFacts, QuietNew

\* A step of a call.
LEMMA QuietIn ==
    ASSUME IInv, CountInv, TypeOK', NEW t \in Threads, NEW op, In(t, op),
           op \notin {"make", "member_end", "publish"}, NEW new, QuietCalls(new), Replace(t, new),
           \A y \in Bodies : Quietly(body[y], body'[y])
    PROVE  CountInv'
<1>1. new \in Seq(FrameType)
  BY DEF QuietCalls
<1>2. PICK b \in Nat, f \in FrameType :
          /\ Popped(t, b, f) /\ f.op = op
          /\ \A s \in Seq(FrameType) : Replace(t, s) => Moves(t, b, s)
  BY InFacts
<1>3. Moves(t, b, new)
  BY <1>1, <1>2
<1>4. Len(stack[t]) = b + 1 => stack[t][b + 1].op \notin {"make", "member_end", "publish"}
  BY <1>2 DEF Popped
<1>5. QuietStep(t, b, new)
  BY <1>3, <1>4 DEF QuietStep, QuietCalls
<1> QED
  BY <1>5, QuietCounts

\* A step of the program, with a call that begins, or without.
LEMMA QuietBegin ==
    ASSUME IInv, CountInv, TypeOK', NEW t \in Threads, Ready(t), NEW g, QuietCalls(<<g>>), g \in FrameType,
           Begin(t, g), \A y \in Bodies : Quietly(body[y], body'[y])
    PROVE  CountInv'
<1>1. Moves(t, 0, <<g>>) /\ Idle(t)
  BY IdleBegin
<1>2. Len(stack[t]) # 0 + 1
  <2>1. Len(stack[t]) = 0
    BY <1>1, IdleFacts
  <2> QED
    BY <2>1
<1>3. QuietStep(t, 0, <<g>>)
  BY <1>1, <1>2 DEF QuietStep, QuietCalls
<1> QED
  BY <1>3, QuietCounts

LEMMA QuietStay ==
    ASSUME IInv, CountInv, TypeOK', NEW t \in Threads, Ready(t), stack' = stack,
           \A y \in Bodies : Quietly(body[y], body'[y])
    PROVE  CountInv'
<1>1. Moves(t, 0, << >>) /\ Idle(t)
  BY IdleStays
<1>2. Len(stack[t]) # 0 + 1
  <2>1. Len(stack[t]) = 0
    BY <1>1, IdleFacts
  <2> QED
    BY <2>1
<1>3. QuietStep(t, 0, << >>)
  BY <1>1, <1>2, QuietNew DEF QuietStep, QuietCalls
<1> QED
  BY <1>3, QuietCounts

LEMMA QuietOne ==
    ASSUME TypeOK, NEW x \in Bodies, NEW c, body' = [body EXCEPT ![x] = c], Quietly(body[x], c)
    PROVE  \A y \in Bodies : Quietly(body[y], body'[y])
<1>1. ASSUME NEW y \in Bodies PROVE Quietly(body[y], body'[y])
  <2>1. CASE y = x
    BY <2>1 DEF TypeOK
  <2>2. CASE y # x
    <3>1. body'[y] = body[y]
      BY <2>2 DEF TypeOK
    <3> QED
      BY <3>1 DEF Quietly
  <2> QED
    BY <2>1, <2>2
<1> QED
  BY <1>1

LEMMA QuietSame ==
    ASSUME body' = body
    PROVE  \A y \in Bodies : Quietly(body[y], body'[y])
BY DEF Quietly

LEMMA QuietOps ==
    ASSUME NEW b \in BodyType
    PROVE  /\ Quietly(b, b) /\ Quietly(b, Unlocked(b)) /\ Quietly(b, Deleted(b))
           /\ b.life = "live" /\ b.ref > 0 => \A n \in Nat : Quietly(b, Refs(b, n))
<1>1. Quietly(b, b)
  BY DEF Quietly
<1>2. Quietly(b, Unlocked(b))
  BY UnlockedFacts DEF Quietly
<1>3. Quietly(b, Deleted(b))
  BY DeletedFacts DEF Quietly
<1>4. ASSUME b.life = "live" /\ b.ref > 0, NEW n \in Nat PROVE Quietly(b, Refs(b, n))
  BY <1>4, RefsFacts DEF Quietly
<1> QED
  BY <1>1, <1>2, <1>3, <1>4

\* The body that a call in progress is on.
LEMMA TopFacts ==
    ASSUME IInv, NEW t \in Threads, NEW op, In(t, op)
    PROVE  /\ Top(t) \in FrameType /\ Top(t).on \in Bodies /\ Top(t).op = op
           /\ Top(t).left \in [Bodies -> Nat]
           /\ body[Top(t).on] \in BodyType /\ BodyOK(Top(t).on, body[Top(t).on])
           /\ op = "trigger" => Top(t).on \in Events
           /\ op = "drive" /\ Top(t).on \in Quorums => body[Top(t).on].triggered
           /\ Counts(Top(t)) \/ (Top(t).on \in Events /\ op \in {"inform", "trigger"}) =>
                 body[Top(t).on].life = "live" /\ body[Top(t).on].ref > 0
<1>1. PICK b \in Nat, f \in FrameType : Popped(t, b, f) /\ f = Top(t) /\ f.op = op
  BY InFacts
<1>2. PICK x \in Bodies : x = f.on
  BY <1>1 DEF Popped
<1>3. OnBody(t, b, f, x)
  BY <1>1, <1>2, CallOn
<1>4. /\ body[x] \in BodyType /\ BodyOK(x, body[x]) /\ body[x].ref \in Nat
      /\ Counts(f) => body[x].ref >= 1 /\ body[x].life = "live"
      /\ x \in Quorums <=> x \notin Events
  BY <1>3 DEF OnBody
<1>5. ShapeOK(t, b + 1) /\ HandleOK(t, b + 1) /\ OnceOK(f) /\ stack[t][b + 1] = f
  BY <1>1 DEF Popped, FrameOK
<1>6. op = "trigger" => x \in Events
  BY <1>1, <1>2, <1>5 DEF ShapeOK
<1>7. op = "drive" /\ x \in Quorums => body[x].triggered
  BY <1>1, <1>2, <1>5 DEF OnceOK
<1>8. ASSUME x \in Events, op \in {"inform", "trigger"} PROVE body[x].life = "live" /\ body[x].ref > 0
  <2>1. Secured(t, x)
    BY <1>1, <1>2, <1>5, <1>8 DEF HandleOK
  <2>2. TypeOK /\ RefInv
    BY DEF IInv
  <2>3. /\ HeldCount(x) \in Nat /\ QueueCount(x) \in Nat /\ AtCount(x) \in Nat /\ MemCount(x) \in Nat
        /\ CallCount(x) \in Nat
        /\ body[x].ref = HeldCount(x) + QueueCount(x) + AtCount(x) + MemCount(x) + CallCount(x)
        /\ held[t][x] > 0 => HeldCount(x) >= 1
    BY <2>2, Referrers
  <2>4. Is(t, 1, "claimed", x) => CallCount(x) >= 1
    <3>1. 1 \in 1..Len(stack[t])
      BY <1>1 DEF Popped
    <3>2. \A k \in 1..Len(stack[t]) : Counts(stack[t][k]) /\ stack[t][k].on = x => CallCount(x) >= 1
      BY <2>2, Referrers
    <3> QED
      BY <3>1, <3>2 DEF Is, Counts
  <2>5. body[x].ref > 0
    BY <2>1, <2>3, <2>4 DEF Secured
  <2> QED
    BY <2>5, LiveFacts
<1> QED
  BY <1>1, <1>2, <1>4, <1>6, <1>7, <1>8 DEF Popped

LEMMA DropCounts ==
    ASSUME IInv, CountInv, TypeOK', NEW t \in Threads, Drop(t)
    PROVE  CountInv'
<1>1. PICK x \in Bodies : x = Top(t).on
  BY TopFacts DEF Drop
<1>2. PICK op \in {"deref", "hard"} : Replace(t, <<Call(op, x)>>)
  BY <1>1 DEF Drop
<1>3. QuietCalls(<<Call(op, x)>>)
  BY QuietCall DEF Ops
<1> QED
  BY <1>2, <1>3, QuietIn, QuietSame DEF Drop

LEMMA DerefCounts ==
    ASSUME IInv, CountInv, TypeOK', NEW t \in Threads, Deref(t)
    PROVE  CountInv'
<1>1. In(t, "deref") /\ Replace(t, << >>) /\ TypeOK
  BY DEF Deref, IInv
<1>2. PICK x \in Bodies : x = Top(t).on
  BY <1>1, TopFacts
<1>3. PICK b \in BodyType : b = body[x] /\ b.life = "live" /\ b.ref > 0
  BY <1>1, <1>2, TopFacts DEF Counts
<1>4. PICK c : c = IF b.ref = 1 THEN Deleted(b) ELSE [b EXCEPT !.ref = b.ref - 1]
  OBVIOUS
<1>5. body' = [body EXCEPT ![x] = c]
  BY <1>2, <1>3, <1>4 DEF Deref
<1>6. Quietly(b, c)
  <2>1. Quietly(b, [b EXCEPT !.ref = b.ref - 1])
    BY <1>3 DEF Quietly, BodyType
  <2> QED
    BY <1>4, <2>1, QuietOps
<1>7. \A y \in Bodies : Quietly(body[y], body'[y])
  BY <1>1, <1>3, <1>5, <1>6, QuietOne
<1> QED
  BY <1>1, <1>7, QuietIn, QuietNew

LEMMA HardDerefCounts ==
    ASSUME IInv, CountInv, TypeOK', NEW t \in Threads, HardDeref(t)
    PROVE  CountInv'
<1>1. In(t, "hard") /\ TypeOK
  BY DEF HardDeref, IInv
<1>2. PICK x \in Bodies : x = Top(t).on
  BY <1>1, TopFacts
<1>3. PICK b \in BodyType : b = body[x] /\ b.life = "live" /\ b.ref > 0
  BY <1>1, <1>2, TopFacts DEF Counts
<1>4. body' = [body EXCEPT ![x] = [b EXCEPT !.lock = TRUE, !.ref = b.ref - 1]]
  BY <1>2, <1>3 DEF HardDeref
<1>5. Quietly(b, [b EXCEPT !.lock = TRUE, !.ref = b.ref - 1])
  BY <1>3 DEF Quietly, BodyType
<1>6. \A y \in Bodies : Quietly(body[y], body'[y])
  BY <1>1, <1>3, <1>4, <1>5, QuietOne
<1>7. PICK g : g = Frame("cull", x, None, b.members, FALSE)
  OBVIOUS
<1>8. QuietCalls(Loop(g))
  <2>1. g \in FrameType /\ g.op = "cull"
    <3>1. b.members \in [Bodies -> Nat] /\ "cull" \in Ops
      BY DEF BodyType, Ops
    <3> QED
      BY <1>7, <3>1, NewFrame
  <2> QED
    BY <2>1, LoopFacts, QuietNew
<1>9. QuietCalls(<<Call("unlock", x)>>) /\ QuietCalls(<<Call("hard_end", x)>>)
  BY QuietCall DEF Ops
<1>10. QuietCalls(<<Call("hard_end", x)>> \o Loop(g))
  BY <1>8, <1>9, QuietBoth
<1>11. PICK new : QuietCalls(new) /\ Replace(t, new)
  BY <1>2, <1>3, <1>7, <1>9, <1>10 DEF HardDeref
<1> QED
  BY <1>1, <1>6, <1>11, QuietIn

LEMMA UnlockCounts ==
    ASSUME IInv, CountInv, TypeOK', NEW t \in Threads, Unlock(t)
    PROVE  CountInv'
<1>1. In(t, "unlock") /\ Replace(t, << >>) /\ TypeOK
  BY DEF Unlock, IInv
<1>2. PICK x \in Bodies : x = Top(t).on /\ body[x] \in BodyType
  BY <1>1, TopFacts
<1>3. body' = [body EXCEPT ![x] = Unlocked(body[x])]
  BY <1>2 DEF Unlock
<1>4. \A y \in Bodies : Quietly(body[y], body'[y])
  BY <1>1, <1>2, <1>3, QuietOps, QuietOne
<1> QED
  BY <1>1, <1>4, QuietIn, QuietNew

LEMMA HardEndCounts ==
    ASSUME IInv, CountInv, TypeOK', NEW t \in Threads, HardEnd(t)
    PROVE  CountInv'
<1>1. In(t, "hard_end") /\ Replace(t, << >>) /\ TypeOK
  BY DEF HardEnd, IInv
<1>2. PICK x \in Bodies : x = Top(t).on /\ body[x] \in BodyType
  BY <1>1, TopFacts
<1>3. PICK c \in {Deleted(body[x]), Unlocked(body[x])} : body' = [body EXCEPT ![x] = c]
  BY <1>2 DEF HardEnd
<1>4. Quietly(body[x], c)
  BY <1>2, QuietOps
<1>5. \A y \in Bodies : Quietly(body[y], body'[y])
  BY <1>1, <1>3, <1>4, QuietOne
<1> QED
  BY <1>1, <1>5, QuietIn, QuietNew

\* A change of listeners.
LEMMA QuietListeners ==
    ASSUME NEW b \in BodyType, NEW S \in SUBSET Coroutines
    PROVE  Quietly(b, Unlocked([b EXCEPT !.coroutines = S]))
<1>1. PICK c : c = [b EXCEPT !.coroutines = S]
  OBVIOUS
<1>2. /\ c \in BodyType /\ c.life = b.life /\ c.ref = b.ref
      /\ c.triggered = b.triggered /\ c.members = b.members /\ c.count = b.count
  BY <1>1 DEF BodyType
<1>3. PICK u : u = Unlocked(c)
  OBVIOUS
<1>4. /\ u.life = c.life /\ (u.triggered <=> c.triggered) /\ u.ref = c.ref
      /\ u.members = c.members /\ u.count = c.count
  BY <1>2, <1>3, UnlockedFacts
<1>5. Quietly(b, u)
  BY <1>2, <1>4 DEF Quietly
<1> QED
  BY <1>1, <1>3, <1>5

LEMMA QuietPair ==
    ASSUME NEW g \in FrameType, NEW h \in FrameType, g.op \notin {"make", "publish"},
           h.op \notin {"make", "publish"}
    PROVE  QuietCalls(<<g, h>>)
<1>1. PICK s : s = <<g, h>>
  OBVIOUS
<1>2. s \in Seq(FrameType) /\ Len(s) = 2 /\ s[1] = g /\ s[2] = h
  BY <1>1
<1>3. \A j \in 1..Len(s) : j = 1 \/ j = 2
  BY <1>2
<1> QED
  BY <1>1, <1>2, <1>3 DEF QuietCalls

\* trigger_unlock of an event.
LEMMA QuietTrigger ==
    ASSUME NEW b \in BodyType, NEW x \in Events, NEW drv \in BOOLEAN
    PROVE  /\ QuietCalls(TriggerUnlock(b, x, drv))
           /\ b.life = "live" /\ b.ref > 0 => Quietly(b, Referenced(Locked(b), x))
<1>1. x \in Bodies /\ x \notin Quorums
  BY QuorumAssumption DEF Bodies
<1>2. PICK g : g = Frame("publish", x, None, Nobody, drv)
  OBVIOUS
<1>3. g \in FrameType /\ g.op = "publish" /\ g.on = x
  BY <1>1, <1>2, NewFrame, NobodyFacts DEF Ops
<1>4. TriggerUnlock(b, x, drv) = <<g>>
  BY <1>1, <1>2 DEF TriggerUnlock
<1>5. QuietCalls(<<g>>)
  BY <1>1, <1>3, QuietNew
<1>6. ASSUME b.life = "live", b.ref > 0 PROVE Quietly(b, Referenced(Locked(b), x))
  <2>1. PICK l \in BodyType : l = Locked(b) /\ l.life = b.life /\ (l.triggered <=> b.triggered)
                              /\ l.members = b.members /\ l.count = b.count
    BY LockedFacts
  <2>2. PICK c \in BodyType : c = Referenced(l, x) /\ c.life = l.life /\ (c.triggered <=> l.triggered)
                              /\ c.members = l.members /\ c.count = l.count
    BY ReferencedFacts
  <2> QED
    BY <1>6, <2>1, <2>2 DEF Quietly
<1> QED
  BY <1>4, <1>5, <1>6

LEMMA TriggerCounts ==
    ASSUME IInv, CountInv, TypeOK', NEW t \in Threads, Trigger(t)
    PROVE  CountInv'
<1>1. In(t, "trigger") /\ TypeOK
  BY DEF Trigger, IInv
<1>2. PICK x \in Events : x = Top(t).on
  BY <1>1, TopFacts
<1>3. x \in Bodies
  BY DEF Bodies
<1>4. PICK b \in BodyType : b = body[x] /\ b.life = "live" /\ b.ref > 0
  BY <1>1, <1>2, TopFacts
<1>5. CASE Replace(t, << >>) /\ body' = body
  BY <1>1, <1>5, QuietIn, QuietNew, QuietSame
<1>6. CASE body' = [body EXCEPT ![x] = Referenced(Locked(b), x)] /\ Replace(t, TriggerUnlock(b, x, FALSE))
  <2>1. QuietCalls(TriggerUnlock(b, x, FALSE)) /\ Quietly(b, Referenced(Locked(b), x))
    BY <1>4, QuietTrigger
  <2>2. \A y \in Bodies : Quietly(body[y], body'[y])
    BY <1>1, <1>3, <1>4, <1>6, <2>1, QuietOne
  <2> QED
    BY <1>1, <1>6, <2>1, <2>2, QuietIn
<1> QED
  BY <1>2, <1>4, <1>5, <1>6 DEF Trigger

LEMMA InformCounts ==
    ASSUME IInv, CountInv, TypeOK', NEW t \in Threads, Inform(t)
    PROVE  CountInv'
<1>1. In(t, "inform") /\ body' = body
  BY DEF Inform
<1>2. PICK f \in FrameType : f = Top(t) /\ f.op = "inform" /\ f.on \in Bodies
  BY <1>1, TopFacts
<1>3. PICK q \in Quorums : Replace(t, <<Visited(f, q), Frame("member", q, f.on, Nobody, f.drv)>>)
  BY <1>2 DEF Inform
<1>4. q \in Bodies
  BY DEF Bodies
<1>5. PICK g \in FrameType : g = Visited(f, q) /\ g.op = "inform"
  BY <1>2, <1>4, VisitedFacts
<1>6. PICK h \in FrameType : h = Frame("member", q, f.on, Nobody, f.drv) /\ h.op = "member"
  <2>1. PICK x \in Bodies, d \in BOOLEAN : x = f.on /\ d = f.drv
    BY <1>2 DEF FrameType
  <2>2. PICK h : h = Frame("member", q, x, Nobody, d)
    OBVIOUS
  <2>3. h \in FrameType /\ h.op = "member"
    BY <1>4, <2>2, NobodyFacts DEF Frame, FrameType, Ops
  <2> QED
    BY <2>1, <2>2, <2>3
<1>7. QuietCalls(<<g, h>>)
  BY <1>5, <1>6, QuietPair
<1> QED
  BY <1>1, <1>3, <1>5, <1>6, <1>7, QuietIn, QuietSame

LEMMA PostCounts ==
    ASSUME IInv, CountInv, TypeOK', NEW t \in Threads, Post(t)
    PROVE  CountInv'
<1>1. In(t, "inform") /\ TypeOK
  BY DEF Post, IInv
<1>2. PICK f \in FrameType : f = Top(t) /\ f.op = "inform" /\ f.on \in Bodies
  BY <1>1, TopFacts
<1>3. PICK x \in Bodies : x = f.on
  BY <1>2
<1>4. PICK b \in BodyType : b = body[x] /\ b.life = "live" /\ b.ref > 0
  <2>1. Counts(f) \/ f.on \in Events
    BY <1>2 DEF Counts, Bodies
  <2> QED
    BY <1>1, <1>2, <1>3, <2>1, TopFacts
<1>5. Cardinality(f.to) \in Nat
  <2>1. f.to \in SUBSET Threads /\ IsFiniteSet(Threads)
    BY QuorumAssumption DEF FrameType
  <2>2. IsFiniteSet(f.to)
    BY <2>1, FS_Subset
  <2> QED
    BY <2>2, FS_CardinalityType
<1>6. body' = [body EXCEPT ![x] = Refs(b, Cardinality(f.to))]
  BY <1>2, <1>3, <1>4 DEF Post
<1>7. \A y \in Bodies : Quietly(body[y], body'[y])
  BY <1>1, <1>4, <1>5, <1>6, QuietOps, QuietOne
<1>8. PICK new : Replace(t, new) /\ (new = << >> \/ new = <<Release(x)>>)
  BY <1>2, <1>3 DEF Post
<1> QED
  BY <1>1, <1>7, <1>8, QuietIn, QuietNew, QuietRelease

LEMMA DriveCounts ==
    ASSUME IInv, CountInv, TypeOK', NEW t \in Threads, Drive(t)
    PROVE  CountInv'
<1>1. In(t, "drive") /\ TypeOK
  BY DEF Drive, IInv
<1>2. PICK x \in Bodies : x = Top(t).on
  BY <1>1, TopFacts
<1>3. PICK b \in BodyType : b = body[x] /\ b.life = "live" /\ b.ref > 0
  BY <1>1, <1>2, TopFacts DEF Counts
<1>4. QuietCalls(<<Call("claimed", x)>>)
  BY QuietCall DEF Ops
<1>5. CASE Replace(t, <<Release(x)>>) /\ body' = body
  BY <1>1, <1>5, QuietIn, QuietRelease, QuietSame
<1>6. CASE /\ ~b.triggered /\ body' = [body EXCEPT ![x] = Referenced(Locked(b), x)]
           /\ Replace(t, <<Call("claimed", x)>> \o TriggerUnlock(b, x, TRUE))
  <2>1. x \in Events
    BY <1>1, <1>2, <1>3, <1>6, TopFacts DEF Bodies
  <2>2. QuietCalls(TriggerUnlock(b, x, TRUE)) /\ Quietly(b, Referenced(Locked(b), x))
    BY <1>3, <2>1, QuietTrigger
  <2>3. \A y \in Bodies : Quietly(body[y], body'[y])
    BY <1>1, <1>3, <1>6, <2>2, QuietOne
  <2>4. QuietCalls(<<Call("claimed", x)>> \o TriggerUnlock(b, x, TRUE))
    BY <1>4, <2>2, QuietBoth
  <2> QED
    BY <1>1, <1>6, <2>3, <2>4, QuietIn
<1>7. CASE /\ \E S : body' = [body EXCEPT ![x] = Unlocked([b EXCEPT !.coroutines = S])] /\ S \in SUBSET Coroutines
           /\ Replace(t, <<Call("claimed", x)>>)
  <2>1. PICK S \in SUBSET Coroutines : body' = [body EXCEPT ![x] = Unlocked([b EXCEPT !.coroutines = S])]
    BY <1>7
  <2>2. Quietly(b, Unlocked([b EXCEPT !.coroutines = S]))
    BY QuietListeners
  <2>3. \A y \in Bodies : Quietly(body[y], body'[y])
    BY <1>1, <1>3, <2>1, <2>2, QuietOne
  <2> QED
    BY <1>1, <1>4, <1>7, <2>3, QuietIn
<1>8. ASSUME NEW c, body' = [body EXCEPT ![x] = Unlocked([b EXCEPT !.coroutines = b.coroutines \ {c}])],
             Replace(t, <<Call("claimed", x)>>)
      PROVE  CountInv'
  <2>1. b.coroutines \ {c} \in SUBSET Coroutines
    BY DEF BodyType
  <2> QED
    BY <1>7, <1>8, <2>1
<1> QED
  BY <1>2, <1>3, <1>5, <1>6, <1>8 DEF Drive

LEMMA ResumeCounts ==
    ASSUME IInv, CountInv, TypeOK', NEW t \in Threads, Resume(t)
    PROVE  CountInv'
<1>1. In(t, "claimed") /\ body' = body /\ TypeOK
  BY DEF Resume, IInv
<1>2. PICK x \in Bodies : x = Top(t).on
  BY <1>1, TopFacts
<1>3. CASE Replace(t, <<Release(x)>>)
  BY <1>1, <1>3, QuietIn, QuietRelease, QuietSame
<1>4. CASE coh[t] # None /\ Replace(t, <<Call("drive", x), Release(at[coh[t]])>>)
  <2>1. PICK c \in Coroutines : c = coh[t]
    BY <1>1, <1>4 DEF TypeOK
  <2>2. PICK y \in Bodies : y = at[c]
    BY <1>1, <1>4, <2>1 DEF IInv, CoroutineInv, TypeOK
  <2>3. PICK g \in FrameType, h \in FrameType :
            g = Call("drive", x) /\ h = Release(y) /\ g.op = "drive" /\ h.op \in {"drop", "deref"}
    BY CallFacts, ReleaseFacts DEF Ops
  <2>4. QuietCalls(<<g, h>>)
    BY <2>3, QuietPair
  <2> QED
    BY <1>1, <1>4, <2>1, <2>2, <2>3, <2>4, QuietIn, QuietSame
<1> QED
  BY <1>2, <1>3, <1>4 DEF Resume

\* A body that a thread has a handle of.
LEMMA HeldFacts ==
    ASSUME IInv, NEW t \in Threads, NEW x \in Bodies, Holds(t, x)
    PROVE  /\ Ready(t) /\ TypeOK /\ body[x] \in BodyType
           /\ body[x].life = "live" /\ body[x].ref > 0
<1>1. Ready(t) /\ held[t][x] > 0 /\ TypeOK /\ RefInv
  BY DEF Holds, IInv
<1>2. /\ HeldCount(x) \in Nat /\ QueueCount(x) \in Nat /\ AtCount(x) \in Nat /\ MemCount(x) \in Nat
      /\ CallCount(x) \in Nat
      /\ body[x].ref = HeldCount(x) + QueueCount(x) + AtCount(x) + MemCount(x) + CallCount(x)
      /\ held[t][x] > 0 => HeldCount(x) >= 1
  BY <1>1, Referrers
<1>3. body[x].ref > 0
  BY <1>1, <1>2
<1> QED
  BY <1>1, <1>3, LiveFacts

LEMMA CallTriggerCounts ==
    ASSUME IInv, CountInv, TypeOK', NEW t \in Threads, NEW e \in Events, CallTrigger(t, e)
    PROVE  CountInv'
<1>1. e \in Bodies /\ Ready(t) /\ Begin(t, Call("trigger", e)) /\ body' = body
  BY DEF Bodies, CallTrigger, Holds
<1>2. PICK g \in FrameType : g = Call("trigger", e) /\ QuietCalls(<<g>>)
  BY <1>1, CallFacts, QuietCall DEF Ops
<1> QED
  BY <1>1, <1>2, QuietBegin, QuietSame

LEMMA CallDropCounts ==
    ASSUME IInv, CountInv, TypeOK', NEW t \in Threads, NEW x \in Bodies, CallDrop(t, x)
    PROVE  CountInv'
<1>1. Ready(t) /\ Begin(t, Release(x)) /\ body' = body
  BY DEF CallDrop, Holds
<1>2. PICK g \in FrameType : g = Release(x) /\ QuietCalls(<<g>>)
  BY ReleaseFacts, QuietRelease
<1> QED
  BY <1>1, <1>2, QuietBegin, QuietSame

LEMMA RunAsapCounts ==
    ASSUME IInv, CountInv, TypeOK', NEW t \in Threads, RunAsap(t)
    PROVE  CountInv'
<1>1. Ready(t) /\ Begin(t, Call("drive", Head(queue[t]))) /\ body' = body /\ queue[t] # << >>
  BY DEF RunAsap
<1>2. queue[t] \in Seq(Bodies)
  BY DEF IInv, TypeOK
<1>3. PICK x \in Bodies : x = Head(queue[t])
  BY <1>1, <1>2
<1>4. PICK g \in FrameType : g = Call("drive", x) /\ QuietCalls(<<g>>)
  BY CallFacts, QuietCall DEF Ops
<1> QED
  BY <1>1, <1>3, <1>4, QuietBegin, QuietSame

\* A reference more.
LEMMA CopyCounts ==
    ASSUME IInv, CountInv, TypeOK', NEW t \in Threads, NEW x \in Bodies, Holds(t, x),
           body' = [body EXCEPT ![x] = Refs(body[x], 1)], stack' = stack
    PROVE  CountInv'
<1>1. Ready(t) /\ TypeOK /\ body[x] \in BodyType /\ body[x].life = "live" /\ body[x].ref > 0
  BY HeldFacts
<1>2. Quietly(body[x], Refs(body[x], 1))
  BY <1>1, QuietOps
<1>3. \A y \in Bodies : Quietly(body[y], body'[y])
  BY <1>1, <1>2, QuietOne
<1> QED
  BY <1>1, <1>3, QuietStay

LEMMA AwaitCounts ==
    ASSUME IInv, CountInv, TypeOK', NEW d \in Coroutines, NEW x \in Bodies, Await(d, x)
    PROVE  CountInv'
<1>1. Home[d] \in Threads
  BY QuorumAssumption
<1>2. Holds(Home[d], x) /\ stack' = stack
  BY DEF Await
<1>3. Ready(Home[d]) /\ TypeOK /\ body[x] \in BodyType
  BY <1>1, <1>2, HeldFacts
<1>4. PICK S \in SUBSET Coroutines : body' = [body EXCEPT ![x] = Unlocked([body[x] EXCEPT !.coroutines = S])]
  BY <1>3 DEF Await, BodyType
<1>5. Quietly(body[x], Unlocked([body[x] EXCEPT !.coroutines = S]))
  BY <1>3, QuietListeners
<1>6. \A y \in Bodies : Quietly(body[y], body'[y])
  BY <1>3, <1>4, <1>5, QuietOne
<1> QED
  BY <1>1, <1>2, <1>3, <1>6, QuietStay

LEMMA DestroyCounts ==
    ASSUME IInv, CountInv, TypeOK', NEW d \in Coroutines, Destroy(d)
    PROVE  CountInv'
<1>1. Home[d] \in Threads /\ TypeOK
  BY QuorumAssumption DEF IInv
<1>2. PICK x \in Bodies : x = at[d]
  BY <1>1 DEF Destroy, TypeOK
<1>3. Ready(Home[d]) /\ Begin(Home[d], Release(x)) /\ body[x] \in BodyType
  BY <1>1, <1>2 DEF Destroy, TypeOK
<1>4. PICK S \in SUBSET Coroutines : body' = [body EXCEPT ![x] = Unlocked([body[x] EXCEPT !.coroutines = S])]
  BY <1>2, <1>3 DEF Destroy, BodyType
<1>5. Quietly(body[x], Unlocked([body[x] EXCEPT !.coroutines = S]))
  BY <1>3, QuietListeners
<1>6. \A y \in Bodies : Quietly(body[y], body'[y])
  BY <1>1, <1>4, <1>5, QuietOne
<1>7. PICK g \in FrameType : g = Release(x) /\ QuietCalls(<<g>>)
  BY ReleaseFacts, QuietRelease
<1> QED
  BY <1>1, <1>3, <1>6, <1>7, QuietBegin

-----------------------------------------------------------------------------
(* The actions that count, cull and trigger. *)

\* Another body of a step that does not count.
LEMMA OtherTally ==
    ASSUME IInv, CountInv, TypeOK', NEW t \in Threads, NEW b, NEW new, Moves(t, b, new), TriggerStep(t, b),
           NEW q \in Quorums, Quietly(body[q], body'[q]), NoMake(t, b, new, q),
           ~Pops(t, b, "member_end", q), ~Pops(t, b, "publish", q),
           ~(\E j \in 1..Len(new) : new[j].op = "publish" /\ new[j].on = q)
    PROVE  Tally(t, b, new, q)
<1>1. TypeOK /\ q \in Bodies
  BY DEF IInv, Bodies
<1>2. Publishing(q) => Publishing(q)'
  BY <1>1, PublishingKept
<1>3. PICK d, e : d = body[q] /\ e = body'[q] /\ d \in BodyType /\ e \in BodyType
  BY <1>1 DEF TypeOK
<1>4. Quietly(d, e)
  BY <1>3
<1>5. CASE /\ e.count = d.count /\ e.members = d.members
           /\ e.life = "live" /\ e.ref > 0 => d.life = "live" /\ d.ref > 0
  <2>1. Open(q)' => Open(q)
    BY <1>2, <1>3, <1>4, <1>5 DEF Open, Live, Quietly
  <2>2. Uncounted(t, b, new, q)
    BY <1>3, <1>5, <2>1 DEF Uncounted, AddsSame
  <2> QED
    BY <2>2, UncountedTally
<1>6. CASE e.life = "deleted" /\ e.count = 0 /\ e.members = Nobody
  <2>1. ~Open(q)'
    BY <1>3, <1>6 DEF Open, Live
  <2>2. e.count <= d.count /\ \A x \in Bodies : e.members[x] <= d.members[x]
    BY <1>3, <1>6, NobodyFacts DEF BodyType
  <2>3. Uncounted(t, b, new, q)
    BY <1>3, <2>1, <2>2 DEF Uncounted, AddsSame
  <2> QED
    BY <2>3, UncountedTally
<1> QED
  BY <1>4, <1>5, <1>6 DEF Quietly

\* A call on x that is in progress: what the step does to the others.
LEMMA OthersTally ==
    ASSUME IInv, CountInv, TypeOK', NEW t \in Threads, NEW b, NEW f, Popped(t, b, f), NEW new,
           Moves(t, b, new), TriggerStep(t, b),
           \A j \in 1..Len(new) :
              new[j].op \in {"make", "publish"} /\ new[j].on \in Quorums => new[j].on = f.on,
           \A y \in Bodies : y # f.on => Quietly(body[y], body'[y]),
           f.on \in Quorums => Tally(t, b, new, f.on)
    PROVE  CountInv'
<1>1. ASSUME NEW q \in Quorums, q # f.on PROVE Tally(t, b, new, q)
  <2>1. ~Pops(t, b, "make", q) /\ ~Pops(t, b, "member_end", q) /\ ~Pops(t, b, "publish", q)
    BY <1>1 DEF Pops, Is, Popped
  <2>2. NoMake(t, b, new, q) /\ ~(\E j \in 1..Len(new) : new[j].op = "publish" /\ new[j].on = q)
    BY <1>1, <2>1 DEF NoMake
  <2>3. Quietly(body[q], body'[q])
    BY <1>1 DEF Bodies
  <2> QED
    BY <2>1, <2>2, <2>3, OtherTally
<1>2. \A q \in Quorums : Tally(t, b, new, q)
  BY <1>1
<1> QED
  BY <1>2, CountStep

LEMMA PublishCounts ==
    ASSUME IInv, CountInv, TypeOK', NEW t \in Threads, Publish(t)
    PROVE  CountInv'
<1>1. PICK b \in Nat, f \in FrameType :
         /\ Popped(t, b, f) /\ f = Top(t) /\ f.op = "publish"
         /\ \A new \in Seq(FrameType) : Replace(t, new) => Moves(t, b, new)
  BY InFacts DEF Publish
<1>2. PICK x \in Bodies : x = f.on
  BY <1>1 DEF Popped
<1>3. body \in [Bodies -> BodyType]
  BY DEF IInv, TypeOK
<1>4. PICK d, D : /\ body' = [body EXCEPT ![x] =
                       Unlocked([body[x] EXCEPT !.triggered = TRUE, !.quorums = Nobody,
                                                !.coroutines = body[x].coroutines \ {d}])]
                  /\ D \in SUBSET Threads
                  /\ Replace(t, <<[f EXCEPT !.op = "inform", !.left = body[x].quorums, !.to = D]>>)
  <2>1. ASSUME NEW S PROVE {Home[c] : c \in body[x].coroutines \ S} \in SUBSET Threads
    BY <1>3, QuorumAssumption DEF BodyType
  <2> QED
    BY <1>1, <1>2, <2>1 DEF Publish
<1>5. PICK r : r = [body[x] EXCEPT !.triggered = TRUE, !.quorums = Nobody,
                                   !.coroutines = body[x].coroutines \ {d}]
  OBVIOUS
<1>6. r \in BodyType /\ r.triggered /\ r.members = body[x].members /\ r.count = body[x].count
  <2>1. body[x] \in BodyType /\ body[x].coroutines \ {d} \in SUBSET Coroutines
    BY <1>3 DEF BodyType
  <2> QED
    BY <1>5, <2>1, NobodyFacts DEF BodyType
<1>7. PICK c \in BodyType : c = Unlocked(r) /\ c.triggered /\ c.members = body[x].members /\ c.count = body[x].count
  BY <1>6, UnlockedFacts
<1>8. body'[x] = c /\ \A y \in Bodies : y # x => body'[y] = body[y]
  BY <1>3, <1>4, <1>5, <1>7
<1>9. PICK g : g = [f EXCEPT !.op = "inform", !.left = body[x].quorums, !.to = D]
  OBVIOUS
<1>10. g \in FrameType /\ g.op = "inform"
  BY <1>3, <1>4, <1>9 DEF FrameType, Ops, BodyType
<1>11. PICK new : new = <<g>>
  OBVIOUS
<1>12. new \in Seq(FrameType) /\ 1..Len(new) = {1} /\ new[1] = g
  BY <1>10, <1>11, OneCall
<1>13. Moves(t, b, new)
  BY <1>1, <1>4, <1>9, <1>11, <1>12
<1>14. Pops(t, b, "publish", x) /\ NoMake(t, b, new, x) /\ ~Pops(t, b, "member_end", x)
  BY <1>1, <1>2, <1>10, <1>12 DEF Popped, Pops, Is, NoMake
<1>15. TriggerStep(t, b)
  BY <1>7, <1>8, <1>14 DEF TriggerStep
<1>16. x \in Quorums => Tally(t, b, new, x)
  <2>1. ~Open(x)'
    BY <1>7, <1>8 DEF Open
  <2>2. Uncounted(t, b, new, x)
    BY <1>7, <1>8, <1>10, <1>12, <1>14, <2>1 DEF Uncounted, AddsSame
  <2> QED
    BY <1>13, <1>15, <2>2, UncountedTally
<1>17. \A y \in Bodies : y # f.on => Quietly(body[y], body'[y])
  BY <1>2, <1>8 DEF Quietly
<1>18. \A j \in 1..Len(new) : new[j].op \notin {"make", "publish"}
  BY <1>10, <1>12
<1> QED
  BY <1>1, <1>2, <1>13, <1>15, <1>16, <1>17, <1>18, OthersTally

LEMMA CullCounts ==
    ASSUME IInv, CountInv, TypeOK', NEW t \in Threads, Cull(t)
    PROVE  CountInv'
<1>1. PICK b \in Nat, f \in FrameType :
         /\ Popped(t, b, f) /\ f = Top(t) /\ f.op = "cull" /\ Runs(t)
         /\ \A new \in Seq(FrameType) : Replace(t, new) => Moves(t, b, new)
  BY InFacts DEF Cull
<1>2. PICK x \in Bodies :
         /\ f.left[x] > 0
         /\ \/ Replace(t, Loop(Visited(f, x))) /\ body' = body
            \/ /\ body' = [body EXCEPT ![x] = Without(body[x], f.on), ![f.on] = Lost(body[f.on], x)]
               /\ Replace(t, Loop(Visited(f, x)) \o <<Release(x)>>)
  BY <1>1 DEF Cull
<1>3. PICK q \in Bodies, v \in FrameType : CullTurn(t, b, f, q, x, v)
  BY <1>1, <1>2, CullTurnFacts
<1>4. q = f.on /\ v = Visited(f, x) /\ v.op = "cull" /\ q \in Quorums /\ x # q /\ b >= 1
  BY <1>3 DEF CullTurn
<1>5. QuietCalls(Loop(v)) /\ QuietCalls(Loop(v) \o <<Release(x)>>)
  BY <1>4, LoopFacts, QuietNew, QuietRelease, QuietBoth
<1>6. CASE Replace(t, Loop(v)) /\ body' = body
  BY <1>1, <1>5, <1>6, QuietIn, QuietSame DEF Cull
<1>7. CASE /\ body' = [body EXCEPT ![x] = Without(body[x], q), ![q] = Lost(body[q], x)]
           /\ Replace(t, Loop(v) \o <<Release(x)>>)
  <2>1. body \in [Bodies -> BodyType]
    BY DEF IInv, TypeOK
  <2>2. PICK new : new = Loop(v) \o <<Release(x)>>
    OBVIOUS
  <2>3. /\ QuietCalls(new) /\ Moves(t, b, new)
        /\ \A j \in 1..Len(new) : ~(new[j].op \in {"make", "publish"} /\ new[j].on \in Quorums)
    BY <1>1, <1>5, <1>7, <2>2 DEF QuietCalls
  <2>4. PICK c : c = Without(body[x], q) /\ c.life = body[x].life /\ (c.triggered <=> body[x].triggered)
                 /\ c.ref = body[x].ref /\ c.members = body[x].members /\ c.count = body[x].count
    BY <2>1, WithoutFacts
  <2>5. PICK e : e = Lost(body[q], x) /\ e.life = body[q].life /\ (e.triggered <=> body[q].triggered)
                 /\ e.ref = body[q].ref /\ e.members = Dec(body[q].members, x) /\ e.count = body[q].count
    BY <2>1, LostFacts
  <2>6. body'[x] = c /\ body'[q] = e /\ \A y \in Bodies : y # x /\ y # q => body'[y] = body[y]
    BY <1>4, <1>7, <2>1, <2>4, <2>5
  <2>7. \A y \in Bodies : y # q => Quietly(body[y], body'[y])
    BY <2>4, <2>6 DEF Quietly
  <2>8. TriggerStep(t, b)
    BY <2>4, <2>5, <2>6 DEF TriggerStep
  <2>9. ~Open(q)'
    <3>1. CASE Is(t, b, "publish", q)
      <4>1. b \in 1..Len(stack'[t]) /\ stack'[t][b] = stack[t][b]
        <5>1. Len(stack'[t]) = b + Len(new) /\ Len(new) \in Nat /\ \A k \in 1..b : stack'[t][k] = stack[t][k]
          BY <2>3 DEF Moves, Onto
        <5> QED
          BY <1>4, <5>1
      <4>2. Publishing(q)'
        BY <3>1, <4>1 DEF Publishing, Is
      <4> QED
        BY <4>2 DEF Open
    <3>2. CASE Is(t, b, "hard_end", q)
      <4>1. b \in 1..Len(stack[t])
        BY <1>1, <1>4 DEF Popped
      <4>2. body[q].ref = 0
        BY <3>2, <4>1, CallsOK DEF FrameOK, OnceOK, Is
      <4> QED
        BY <2>5, <2>6, <4>2 DEF Open
    <3> QED
      BY <1>3, <3>1, <3>2 DEF CullTurn
  <2>10. \A y \in Bodies : body'[q].members[y] <= body[q].members[y]
    <3>1. PICK m \in [Bodies -> Nat] : m = body[q].members
      BY <2>1 DEF BodyType
    <3> QED
      BY <2>5, <2>6, <3>1, DecEmpty
  <2>11. Tally(t, b, new, q)
    <3>1. NoMake(t, b, new, q) /\ ~(\E j \in 1..Len(new) : new[j].op = "publish" /\ new[j].on = q)
      BY <1>1, <1>4, <2>3 DEF NoMake, Pops, Is, Popped
    <3>2. body'[q].count <= body[q].count
      BY <2>1, <2>5, <2>6 DEF BodyType
    <3>3. Uncounted(t, b, new, q)
      BY <2>9, <2>10, <3>1, <3>2 DEF Uncounted, AddsSame
    <3> QED
      BY <1>4, <2>3, <2>8, <3>3, UncountedTally
  <2> QED
    BY <1>1, <1>4, <2>3, <2>7, <2>8, <2>11, OthersTally
<1> QED
  BY <1>2, <1>4, <1>6, <1>7

\* What is counted has triggered.
LEMMA ReachedArrived ==
    ASSUME IInv, CountInv, NEW q \in Quorums, Reached(q)
    PROVE  Arrived(q) >= Needed[q]
<1>1. q \in Bodies /\ TypeOK
  BY DEF Bodies, IInv
<1>2. PICK left \in [Bodies -> Nat] : ToAdd(q, left)
  <2>1. CASE \A t \in Threads : \A k \in 1..Len(stack[t]) : ~Is(t, k, "make", q)
    BY <2>1, NobodyFacts DEF ToAdd
  <2>2. CASE ~(\A t \in Threads : \A k \in 1..Len(stack[t]) : ~Is(t, k, "make", q))
    <3>1. PICK t \in Threads : \E k \in 1..Len(stack[t]) : Is(t, k, "make", q)
      BY <2>2
    <3>2. PICK k \in 1..Len(stack[t]) : Is(t, k, "make", q)
      BY <3>1
    <3>3. stack[t][k].left \in [Bodies -> Nat]
      BY CallsOK DEF FrameType
    <3>4. ToAdd(q, stack[t][k].left)
      BY <3>2 DEF ToAdd
    <3> QED
      BY <3>3, <3>4
  <2> QED
    BY <2>1, <2>2
<1>3. PICK m \in [Bodies -> Nat] : m = Pending(q, left)
  BY <1>1, PendingType
<1>4. PICK T : T = Fired
  OBVIOUS
<1>5. body[q].count \in Nat /\ body[q].count <= Cardinality(Past(q, m, T))
  BY <1>1, <1>2, <1>3, <1>4, PendingType DEF CountInv, CountOK, Balanced
<1>6. Cardinality(Past(q, m, T)) \in Nat /\ Cardinality(Past(q, m, T)) <= Cardinality(Past(q, Nobody, T))
      /\ Cardinality(Past(q, Nobody, T)) \in Nat
  <2>1. \A x \in Bodies : Nobody[x] <= m[x]
    BY NobodyFacts
  <2> QED
    BY <2>1, NobodyFacts, PastGrows
<1>7. Arrived(q) = Cardinality(Past(q, Nobody, T))
  BY <1>4, ArrivedFacts
<1>8. Needed[q] \in Nat /\ body[q].count >= Needed[q]
  BY QuorumAssumption DEF Reached
<1> QED
  BY <1>5, <1>6, <1>7, <1>8

\* One argument, x, has been counted.
LEMMA ToldTally ==
    ASSUME IInv, CountInv, TypeOK', NEW q \in Quorums, Fired' = Fired, NEW x \in Bodies, x \in Fired,
           NEW from \in [Bodies -> Nat], ToAdd(q, from), NEW left \in [Bodies -> Nat],
           \A y \in Bodies : body'[q].members[y] + left[y]
                                = (body[q].members[y] + from[y]) - (IF y = x THEN 1 ELSE 0),
           body[q].members[x] + from[x] > 0,
           body'[q].count = body[q].count + 1, Open(q)' => Open(q)
    PROVE  Balanced(q, body'[q].count, Pending(q, left)', Fired', Open(q)')
<1>1. q \in Bodies /\ TypeOK
  BY DEF Bodies, IInv
<1>2. PICK T : T = Fired /\ T = Fired'
  OBVIOUS
<1>3. PICK o \in BOOLEAN : o = Open(q)
  BY DEF Open, Live, Publishing
<1>4. PICK p \in BOOLEAN : p = Open(q)'
  BY DEF Open, Live, Publishing
<1>5. PICK m \in [Bodies -> Nat] : m = Pending(q, from)
  BY <1>1, PendingType
<1>6. PICK c \in Nat : c = body[q].count
  BY <1>1, PendingType
<1>7. Balanced(q, c, m, T, o)
  BY <1>2, <1>3, <1>5, <1>6 DEF CountInv, CountOK
<1>8. \A y \in Bodies : m[y] = body[q].members[y] + from[y]
  BY <1>5 DEF Pending
<1>9. PICK n : n = Pending(q, left)'
  OBVIOUS
<1>10. n = Dec(m, x)
  <2>1. n = [y \in Bodies |-> body'[q].members[y] + left[y]]
    BY <1>9 DEF Pending
  <2>2. PICK e \in [Bodies -> Nat] : e = Dec(m, x) /\ \A y \in Bodies : e[y] = IF y = x THEN m[x] - 1 ELSE m[y]
    BY <1>8, BagFacts, SMTT(60)
  <2>3. ASSUME NEW y \in Bodies PROVE n[y] = e[y]
    <3>1. n[y] = body'[q].members[y] + left[y]
      BY <2>1
    <3>2. n[y] = m[y] - (IF y = x THEN 1 ELSE 0)
      BY <1>8, <3>1
    <3>3. m[y] \in Nat
      OBVIOUS
    <3> QED
      BY <2>2, <3>2, <3>3
  <2> QED
    BY <2>1, <2>2, <2>3
<1>11. Balanced(q, c + 1, Dec(m, x), T, p)
  <2>1. m[x] > 0 /\ x \in T /\ (p => o)
    BY <1>2, <1>3, <1>4, <1>8
  <2> QED
    BY ONLY <1>7, <2>1, BalancedCounts, q \in Quorums, c \in Nat, m \in [Bodies -> Nat], x \in Bodies,
            o \in BOOLEAN, p \in BOOLEAN
<1> QED
  BY <1>2, <1>4, <1>6, <1>9, <1>10, <1>11

LEMMA MemberCounts ==
    ASSUME IInv, CountInv, TypeOK', NEW t \in Threads, Member(t)
    PROVE  CountInv'
<1>1. PICK b \in Nat, f \in FrameType :
         /\ Popped(t, b, f) /\ f = Top(t) /\ f.op = "member"
         /\ \A new \in Seq(FrameType) : Replace(t, new) => Moves(t, b, new)
  BY InFacts DEF Member
<1>2. /\ b >= 1 /\ b \in 1..Len(stack[t]) /\ f.src \in Bodies /\ f.on \in Quorums
      /\ Is(t, b, "inform", f.src)
      /\ \A z \in Bodies : body[z].members[f.src] = stack[t][b].left[z] + (IF z = f.on THEN 1 ELSE 0)
      /\ \A z \in Bodies : stack[t][b].left[z] \in Nat
  BY <1>1, MemberFacts
<1>3. PICK q \in Quorums, x \in Bodies : q = f.on /\ x = f.src
  BY <1>2
<1>4. q \in Bodies /\ TypeOK /\ body \in [Bodies -> BodyType]
  BY DEF Bodies, IInv, TypeOK
<1>5. body[q].members[x] > 0 /\ body[x].triggered
  <2>1. body[x].triggered
    BY <1>2, <1>3, CallsOK DEF FrameOK, OnceOK, Is
  <2>2. body[q].members[x] = stack[t][b].left[q] + 1 /\ stack[t][b].left[q] \in Nat
    BY <1>2, <1>3, <1>4
  <2> QED
    BY <2>1, <2>2
<1>6. /\ body' = [body EXCEPT ![q] = Locked(Lost(Counted(body[q]), x))]
      /\ Replace(t, <<[f EXCEPT !.op = "member_end"], Release(x)>>)
  BY <1>1, <1>3, <1>5 DEF Member
<1>7. PICK c \in BodyType : c = Counted(body[q]) /\ c.life = body[q].life /\ (c.triggered <=> body[q].triggered)
         /\ c.ref = body[q].ref /\ c.members = body[q].members /\ c.count = body[q].count + 1
  BY <1>4, CountedFacts
<1>8. PICK d \in BodyType : d = Lost(c, x) /\ d.life = c.life /\ (d.triggered <=> c.triggered)
         /\ d.ref = c.ref /\ d.members = Dec(c.members, x) /\ d.count = c.count
  BY LostFacts
<1>9. PICK e \in BodyType : e = Locked(d) /\ e.life = d.life /\ (e.triggered <=> d.triggered)
         /\ e.ref = d.ref /\ e.members = d.members /\ e.count = d.count
  BY LockedFacts
<1>10. body'[q] = e /\ \A y \in Bodies : y # q => body'[y] = body[y]
  BY <1>4, <1>6, <1>7, <1>8, <1>9
<1>11. /\ (e.triggered <=> body[q].triggered) /\ e.life = body[q].life /\ e.ref = body[q].ref
       /\ e.members = Dec(body[q].members, x) /\ e.count = body[q].count + 1
  BY <1>7, <1>8, <1>9
<1>12. PICK g : g = [f EXCEPT !.op = "member_end"]
  OBVIOUS
<1>13. g \in FrameType /\ g.op = "member_end" /\ g.on = q
  BY <1>3, <1>12 DEF FrameType, Ops
<1>14. PICK h \in FrameType : h = Release(x) /\ h.op \in {"drop", "deref"}
  BY ReleaseFacts
<1>15. PICK new : new = <<g, h>>
  OBVIOUS
<1>16. new \in Seq(FrameType) /\ Len(new) = 2 /\ new[1] = g /\ new[2] = h
  BY <1>13, <1>15
<1>17. \A j \in 1..Len(new) : new[j].op \notin {"make", "publish"}
  <2>1. \A j \in 1..Len(new) : j = 1 \/ j = 2
    BY <1>16
  <2> QED
    BY <1>13, <1>14, <1>16, <2>1
<1>18. Moves(t, b, new)
  BY <1>1, <1>6, <1>12, <1>14, <1>15, <1>16
<1>19. Fired' = Fired /\ TriggerStep(t, b) /\ x \in Fired
  BY <1>5, <1>10, <1>11 DEF Fired, TriggerStep
<1>20. NoMake(t, b, new, q) /\ ~Pops(t, b, "publish", q)
  BY <1>1, <1>17 DEF NoMake, Pops, Is, Popped
<1>21. Open(q)' => Open(q)
  <2>1. Publishing(q) => Publishing(q)'
    BY <1>4, <1>18, <1>20, PublishingKept
  <2> QED
    BY <1>10, <1>11, <2>1 DEF Open, Live
<1>22. Looking(q)'
  <2>1. b + 1 \in 1..Len(stack'[t]) /\ stack'[t][b + 1] = g
    BY <1>16, <1>18 DEF Moves, Onto
  <2> QED
    BY <1>13, <2>1 DEF Looking, Is
<1>23. Tally(t, b, new, q)
  <2>1. ASSUME NEW left \in [Bodies -> Nat], ToAdd(q, left)'
        PROVE  Balanced(q, body'[q].count, Pending(q, left)', Fired', Open(q)')
    <3>1. ToAdd(q, left)
      BY <1>4, <1>18, <1>20, <2>1, ToAddKept
    <3>2. PICK m \in [Bodies -> Nat] : m = body[q].members
      BY <1>4 DEF BodyType
    <3>3. PICK n : n = Dec(m, x) /\ \A y \in Bodies : n[y] = IF y # x THEN m[y] ELSE IF m[x] = 0 THEN 0 ELSE m[x] - 1
      BY BagFacts
    <3>4. ASSUME NEW y \in Bodies
          PROVE  body'[q].members[y] + left[y] = (body[q].members[y] + left[y]) - (IF y = x THEN 1 ELSE 0)
      <4>1. body'[q].members[y] = n[y] /\ m[y] \in Nat /\ left[y] \in Nat /\ m[x] # 0
        BY <1>5, <1>10, <1>11, <3>2, <3>3
      <4> QED
        BY <3>2, <3>3, <4>1
    <3>5. body[q].members[x] + left[x] > 0 /\ body'[q].count = body[q].count + 1
      BY <1>5, <1>10, <1>11, <3>2
    <3> QED
      BY <1>19, <1>21, <3>1, <3>4, <3>5, ToldTally
  <2> QED
    BY <1>17, <1>22, <2>1 DEF Tally, CountOK
<1>24. \A y \in Bodies : y # f.on => Quietly(body[y], body'[y])
  BY <1>3, <1>10 DEF Quietly
<1> QED
  BY <1>1, <1>3, <1>17, <1>18, <1>19, <1>23, <1>24, OthersTally

\* What make() has to add after a step of q's only maker, or when q had none.
LEMMA ToAddMade ==
    ASSUME TypeOK, NEW t \in Threads, NEW b, NEW new, Moves(t, b, new), NEW q, NEW left, ToAdd(q, left)',
           \A u \in Threads : \A k \in 1..Len(stack[u]) : Is(u, k, "make", q) => u = t /\ k = b + 1
    PROVE  \/ \E j \in 1..Len(new) : new[j].op = "make" /\ new[j].on = q /\ left = new[j].left
           \/ left = Nobody /\ \A j \in 1..Len(new) : ~(new[j].op = "make" /\ new[j].on = q)
<1>1. CASE left = Nobody /\ \A u \in Threads : \A k \in 1..Len(stack'[u]) : ~Is(u, k, "make", q)'
  <2>1. ASSUME NEW j \in 1..Len(new) PROVE ~(new[j].op = "make" /\ new[j].on = q)
    <3>1. b + j \in 1..Len(stack'[t]) /\ stack'[t][b + j] = new[j]
      BY MovesFacts
    <3> QED
      BY <1>1, <3>1 DEF Is
  <2> QED
    BY <1>1, <2>1
<1>2. CASE \E u \in Threads : \E k \in 1..Len(stack'[u]) : Is(u, k, "make", q)' /\ left = stack'[u][k].left
  <2>1. PICK u \in Threads : \E k \in 1..Len(stack'[u]) : Is(u, k, "make", q)' /\ left = stack'[u][k].left
    BY <1>2
  <2>2. PICK k \in 1..Len(stack'[u]) : Is(u, k, "make", q)' /\ left = stack'[u][k].left
    BY <2>1
  <2>3. \/ k \in 1..Len(stack[u]) /\ stack'[u][k] = stack[u][k] /\ (u = t => k <= b)
        \/ k - b \in 1..Len(new) /\ stack'[u][k] = new[k - b]
    BY MovesFacts
  <2>4. CASE k \in 1..Len(stack[u]) /\ stack'[u][k] = stack[u][k] /\ (u = t => k <= b)
    <3>1. u = t /\ k = b + 1
      BY <2>2, <2>4 DEF Is
    <3> QED
      BY <2>4, <3>1 DEF Moves
  <2>5. CASE k - b \in 1..Len(new) /\ stack'[u][k] = new[k - b]
    BY <2>2, <2>5 DEF Is
  <2> QED
    BY <2>3, <2>4, <2>5
<1> QED
  BY <1>1, <1>2 DEF ToAdd

\* A quorum has one maker.
LEMMA OneMaker ==
    ASSUME IInv, NEW t \in Threads, NEW b \in Nat, NEW f, Popped(t, b, f), f.op = "make",
           NEW u \in Threads, NEW k \in 1..Len(stack[u]), Is(u, k, "make", f.on)
    PROVE  u = t /\ k = b + 1
<1>1. b + 1 \in 1..Len(stack[t]) /\ Owns(t, b + 1, f.on) /\ Owns(u, k, f.on) /\ f.on \in Bodies
  BY DEF Popped, Owns, Owners, Is
<1> QED
  BY <1>1 DEF IInv, LockInv

\* What a decision does to the counts.
LEMMA DecidedTally ==
    ASSUME IInv, CountInv, TypeOK', NEW t \in Threads, NEW b \in Nat, NEW f, Popped(t, b, f),
           NEW q \in Quorums, q = f.on, f.op \in {"make", "member_end"}, f.left = Nobody,
           NEW new, Moves(t, b, new), \A j \in 1..Len(new) : new[j].op # "make",
           \A j \in 1..Len(new) : new[j].op = "publish" => new[j].on = q /\ Arrived(q) >= Needed[q],
           \A y \in Bodies : y # q => body'[y] = body[y],
           body'[q].triggered <=> body[q].triggered,
           ~(Open(q)' /\ Reached(q)'),
           \/ body'[q].count = body[q].count /\ body'[q].members = body[q].members /\ (Open(q)' => Open(q))
           \/ body'[q].count = 0 /\ body'[q].members = Nobody /\ ~Open(q)'
    PROVE  CountInv'
<1>1. q \in Bodies /\ TypeOK /\ body[q] \in BodyType /\ Moves(t, b, new)
  BY DEF Bodies, IInv, TypeOK
<1>2. TriggerStep(t, b)
  BY DEF TriggerStep
<1>3. \A y \in Bodies : y # f.on => Quietly(body[y], body'[y])
  BY DEF Quietly
<1>4. AddsSame(t, b, new, q)
  <2>1. CASE f.op = "member_end"
    BY <2>1 DEF AddsSame, NoMake, Pops, Is, Popped
  <2>2. CASE f.op = "make"
    <3>1. b + 1 \in 1..Len(stack[t]) /\ Is(t, b + 1, "make", q) /\ stack[t][b + 1].left = Nobody
      BY <2>2 DEF Popped, Is
    <3>2. ToAdd(q, Nobody)
      BY <3>1 DEF ToAdd
    <3>3. ASSUME NEW u \in Threads, NEW k \in 1..Len(stack[u]), Is(u, k, "make", q) PROVE u = t /\ k = b + 1
      BY <2>2, <3>3, OneMaker
    <3>4. ASSUME NEW left, ToAdd(q, left)' PROVE left = Nobody
      BY <1>1, <3>3, <3>4, ToAddMade
    <3> QED
      BY <3>2, <3>4 DEF AddsSame
  <2> QED
    BY <2>1, <2>2
<1>5. Uncounted(t, b, new, q)
  <2>1. CASE body'[q].count = body[q].count /\ body'[q].members = body[q].members /\ (Open(q)' => Open(q))
    BY <1>4, <2>1 DEF Uncounted
  <2>2. CASE body'[q].count = 0 /\ body'[q].members = Nobody /\ ~Open(q)'
    <3>1. 0 <= body[q].count /\ \A x \in Bodies : Nobody[x] <= body[q].members[x]
      BY <1>1, NobodyFacts DEF BodyType
    <3> QED
      BY <1>4, <2>2, <3>1 DEF Uncounted
  <2> QED
    BY <2>1, <2>2
<1>6. Tally(t, b, new, q)
  BY <1>1, <1>2, <1>5, UncountedTally
<1> QED
  BY <1>1, <1>2, <1>3, <1>6, OthersTally

\* The call that has the lock of q looks whether to trigger it, and gives the lock back or
\* goes on to trigger_unlock.
Decides(t, b, f, q, new) ==
    /\ Popped(t, b, f) /\ q = f.on /\ q \in Quorums /\ f.op \in {"make", "member_end"} /\ f.left = Nobody
    /\ Moves(t, b, new)
    /\ \/ /\ body' = [body EXCEPT ![q] = Referenced(body[q], q)] /\ Reached(q)
          /\ \E drv \in BOOLEAN : new = TriggerUnlock(body[q], q, drv)
       \/ /\ \/ body' = [body EXCEPT ![q] = Unlocked(body[q])]
             \/ body' = [body EXCEPT ![q] = Deleted(body[q])]
          /\ new = << >> /\ (body[q].triggered \/ ~Reached(q))

LEMMA DecidesCounts ==
    ASSUME IInv, CountInv, TypeOK', NEW t \in Threads, NEW b \in Nat, NEW f, NEW q, NEW new,
           Decides(t, b, f, q, new)
    PROVE  CountInv'
<1>1. /\ Popped(t, b, f) /\ q = f.on /\ q \in Quorums /\ f.op \in {"make", "member_end"} /\ f.left = Nobody
      /\ Moves(t, b, new) /\ q \in Bodies /\ TypeOK /\ body \in [Bodies -> BodyType]
  BY DEF Decides, Bodies, IInv, TypeOK
<1>2. \A y \in Bodies : y # q => body'[y] = body[y]
  BY <1>1 DEF Decides
<1>3. PICK d, e : d = body[q] /\ e = body'[q] /\ d \in BodyType /\ e \in BodyType
  BY <1>1 DEF TypeOK
<1>4. CASE /\ body' = [body EXCEPT ![q] = Referenced(body[q], q)] /\ Reached(q)
           /\ \E drv \in BOOLEAN : new = TriggerUnlock(body[q], q, drv)
  <2>1. PICK drv \in BOOLEAN : new = TriggerUnlock(d, q, drv)
    BY <1>3, <1>4
  <2>2. /\ Len(new) \in {1, 2} /\ 1 \in 1..Len(new) /\ \A j \in 1..Len(new) : j = 1 \/ (j = 2 /\ Len(new) = 2)
        /\ new[1].op = "publish" /\ new[1].on = q /\ (Len(new) = 2 => new[2].op = "cull")
    BY <1>1, <1>3, <2>1, TriggerCalls
  <2>3. e = Referenced(d, q)
    BY <1>1, <1>3, <1>4
  <2>4. (e.triggered <=> d.triggered) /\ e.count = d.count /\ e.members = d.members
    BY <1>3, <2>3, ReferencedFacts
  <2>5. ~Open(q)'
    <3>1. b + 1 \in 1..Len(stack'[t]) /\ stack'[t][b + 1] = new[1]
      BY <1>1, <2>2, MovesFacts
    <3>2. Publishing(q)'
      BY <2>2, <3>1 DEF Publishing, Is
    <3> QED
      BY <3>2 DEF Open
  <2>6. Arrived(q) >= Needed[q]
    BY <1>1, <1>4, ReachedArrived
  <2>7. \A j \in 1..Len(new) : new[j].op # "make"
    BY <2>2
  <2> QED
    BY <1>1, <1>2, <1>3, <2>2, <2>4, <2>5, <2>6, <2>7, DecidedTally, SMTT(60)
<1>5. CASE /\ \/ body' = [body EXCEPT ![q] = Unlocked(body[q])]
              \/ body' = [body EXCEPT ![q] = Deleted(body[q])]
           /\ new = << >> /\ (body[q].triggered \/ ~Reached(q))
  <2>0. \A j \in 1..Len(new) : new[j].op \notin {"make", "publish"}
    BY <1>5
  <2>1. CASE e = Unlocked(d)
    <3>1. /\ (e.triggered <=> d.triggered) /\ e.count = d.count /\ e.members = d.members
          /\ e.life = d.life /\ e.ref = d.ref
      BY <1>3, <2>1, UnlockedFacts
    <3>2. ~(Open(q)' /\ Reached(q)')
      BY <1>3, <1>5, <3>1 DEF Open, Reached
    <3>3. Publishing(q) => Publishing(q)'
      BY <1>1, PublishingKept DEF Pops, Is, Popped
    <3>4. Open(q)' => Open(q)
      BY <1>3, <3>1, <3>3 DEF Open, Live
    <3> QED
      BY <1>1, <1>2, <1>3, <2>0, <3>1, <3>2, <3>4, DecidedTally
  <2>2. CASE e = Deleted(d)
    <3>1. (e.triggered <=> d.triggered) /\ e.count = 0 /\ e.members = Nobody /\ e.life = "deleted"
      BY <1>3, <2>2, DeletedFacts
    <3>2. ~Open(q)'
      BY <1>3, <3>1 DEF Open, Live
    <3> QED
      BY <1>1, <1>2, <1>3, <2>0, <3>1, <3>2, DecidedTally
  <2>3. e = Unlocked(d) \/ e = Deleted(d)
    BY <1>1, <1>3, <1>5
  <2> QED
    BY <2>1, <2>2, <2>3
<1> QED
  BY <1>4, <1>5 DEF Decides

\* trigger_unlock, or unlock and return.
LEMMA DecisionCounts ==
    ASSUME IInv, CountInv, TypeOK', NEW t \in Threads, NEW b \in Nat, NEW f \in FrameType, Popped(t, b, f),
           f.op \in {"make", "member_end"}, f.left = Nobody, NEW q \in Quorums, q = f.on,
           \A new \in Seq(FrameType) : Replace(t, new) => Moves(t, b, new), NEW drv \in BOOLEAN,
           \/ /\ body' = [body EXCEPT ![q] = Referenced(body[q], q)] /\ Reached(q)
              /\ Replace(t, TriggerUnlock(body[q], q, drv))
           \/ /\ \/ body' = [body EXCEPT ![q] = Unlocked(body[q])]
                 \/ body' = [body EXCEPT ![q] = Deleted(body[q])]
              /\ Replace(t, << >>) /\ (body[q].triggered \/ ~Reached(q))
    PROVE  CountInv'
<1>1. q \in Bodies /\ body[q] \in BodyType
  BY DEF Bodies, IInv, TypeOK
<1>2. CASE /\ body' = [body EXCEPT ![q] = Referenced(body[q], q)] /\ Reached(q)
           /\ Replace(t, TriggerUnlock(body[q], q, drv))
  <2>1. PICK d \in BodyType : d = body[q]
    BY <1>1
  <2>2. PICK new : new = TriggerUnlock(d, q, drv)
    OBVIOUS
  <2>3. new \in Seq(FrameType)
    BY <1>1, <2>2, TriggerCalls
  <2>4. Replace(t, new)
    BY <1>2, <2>1, <2>2
  <2>5. Moves(t, b, new)
    BY <2>3, <2>4
  <2>6. Decides(t, b, f, q, new)
    BY <1>2, <2>1, <2>2, <2>5 DEF Decides
  <2> QED
    BY <2>6, DecidesCounts
<1>3. CASE /\ \/ body' = [body EXCEPT ![q] = Unlocked(body[q])]
              \/ body' = [body EXCEPT ![q] = Deleted(body[q])]
           /\ Replace(t, << >>) /\ (body[q].triggered \/ ~Reached(q))
  <2>1. Moves(t, b, << >>)
    BY <1>3, NoCalls
  <2>2. Decides(t, b, f, q, << >>)
    BY <1>3, <2>1 DEF Decides
  <2> QED
    BY <2>2, DecidesCounts
<1> QED
  BY <1>2, <1>3

LEMMA MemberEndCounts ==
    ASSUME IInv, CountInv, TypeOK', NEW t \in Threads, MemberEnd(t)
    PROVE  CountInv'
<1>1. PICK b \in Nat, f \in FrameType :
         /\ Popped(t, b, f) /\ f = Top(t) /\ f.op = "member_end"
         /\ \A new \in Seq(FrameType) : Replace(t, new) => Moves(t, b, new)
  BY InFacts DEF MemberEnd
<1>2. f.on \in Quorums /\ f.left = Nobody /\ f.drv \in BOOLEAN
  BY <1>1 DEF Popped, FrameOK, ShapeOK, OnQuorum, FrameType
<1>3. PICK q \in Quorums : q = f.on
  BY <1>2
<1>4. PICK drv \in BOOLEAN : drv = f.drv
  BY <1>2
<1>5. \/ /\ body' = [body EXCEPT ![q] = Referenced(body[q], q)] /\ Reached(q)
         /\ Replace(t, TriggerUnlock(body[q], q, drv))
      \/ /\ \/ body' = [body EXCEPT ![q] = Unlocked(body[q])]
            \/ body' = [body EXCEPT ![q] = Deleted(body[q])]
         /\ Replace(t, << >>) /\ (body[q].triggered \/ ~Reached(q))
  BY <1>1, <1>3, <1>4 DEF MemberEnd
<1> QED
  BY <1>1, <1>2, <1>3, <1>5, DecisionCounts

LEMMA DecOne ==
    ASSUME NEW m \in [Bodies -> Nat], NEW x \in Bodies, m[x] > 0
    PROVE  /\ Dec(m, x) \in [Bodies -> Nat]
           /\ Dec(m, x)[x] = m[x] - 1 /\ \A y \in Bodies : y # x => Dec(m, x)[y] = m[y]
BY DEF Dec

\* What make() has to add before and after one turn.
LEMMA MakeTurnAdds ==
    ASSUME IInv, NEW t \in Threads, NEW b \in Nat, NEW f \in FrameType, NEW q \in Bodies, NEW x \in Bodies,
           NEW v \in FrameType, MakeTurn(t, b, f, q, x, v), NEW new \in Seq(FrameType), Len(new) = 1,
           new[1] = v, Moves(t, b, new)
    PROVE  /\ Popped(t, b, f) /\ f.op = "make" /\ q = f.on /\ f.left[x] > 0 /\ q \in Quorums
           /\ f.left \in [Bodies -> Nat] /\ v.left \in [Bodies -> Nat] /\ v.left = Dec(f.left, x)
           /\ ToAdd(q, f.left) /\ \A left : ToAdd(q, left)' => left = v.left
           /\ Looking(q)' /\ (Publishing(q) => Publishing(q)')
           /\ \A j \in 1..Len(new) : new[j].op # "publish" /\ new[j].on = f.on
<1>1. /\ Popped(t, b, f) /\ f.op = "make" /\ q = f.on /\ f.left[x] > 0 /\ q \in Quorums
      /\ v.op = "make" /\ v.on = q /\ v.left = Dec(f.left, x) /\ f.left \in [Bodies -> Nat]
      /\ v.left \in [Bodies -> Nat] /\ TypeOK
  BY DEF MakeTurn, Popped, FrameType, IInv
<1>2. Len(new) = 1 /\ new[1] = v /\ 1..Len(new) = {1}
  OBVIOUS
<1>3. ~Pops(t, b, "publish", q)
  BY <1>1 DEF Pops, Is, Popped
<1>4. Publishing(q) => Publishing(q)'
  BY <1>1, <1>3, PublishingKept
<1>5. Looking(q)'
  <2>1. b + 1 \in 1..Len(stack'[t]) /\ stack'[t][b + 1] = v
    BY <1>2 DEF Moves, Onto
  <2> QED
    BY <1>1, <2>1 DEF Looking, Is
<1>6. ToAdd(q, f.left)
  <2>1. b + 1 \in 1..Len(stack[t]) /\ Is(t, b + 1, "make", q) /\ stack[t][b + 1].left = f.left
    BY <1>1 DEF Popped, Is
  <2> QED
    BY <2>1 DEF ToAdd
<1>7. ASSUME NEW left, ToAdd(q, left)' PROVE left = v.left
  <2>1. ASSUME NEW u \in Threads, NEW k \in 1..Len(stack[u]), Is(u, k, "make", q) PROVE u = t /\ k = b + 1
    BY <1>1, <2>1, OneMaker
  <2>2. \/ \E j \in 1..Len(new) : new[j].op = "make" /\ new[j].on = q /\ left = new[j].left
        \/ left = Nobody /\ \A j \in 1..Len(new) : ~(new[j].op = "make" /\ new[j].on = q)
    BY ONLY <1>1, <1>7, <2>1, t \in Threads, Moves(t, b, new), ToAddMade
  <2> QED
    BY <1>1, <1>2, <2>2
<1>8. \A j \in 1..Len(new) : new[j].op # "publish" /\ new[j].on = f.on
  BY <1>1, <1>2
<1> QED
  BY <1>1, <1>4, <1>5, <1>6, <1>7, <1>8

\* One turn of make() leaves the counts right if it does so for its own quorum.
LEMMA MakeTurnCounts ==
    ASSUME IInv, CountInv, TypeOK', NEW t \in Threads, NEW b \in Nat, NEW f \in FrameType, NEW q \in Bodies,
           NEW x \in Bodies, NEW v \in FrameType, MakeTurn(t, b, f, q, x, v), NEW new \in Seq(FrameType),
           Len(new) = 1, new[1] = v, Moves(t, b, new), TriggerStep(t, b), NEW n, n = v.left,
           Balanced(q, body'[q].count, Pending(q, n)', Fired', Open(q)'),
           \A y \in Bodies : y # q => Quietly(body[y], body'[y])
    PROVE  CountInv'
<1>1. /\ Popped(t, b, f) /\ q = f.on /\ q \in Quorums /\ (\A left : ToAdd(q, left)' => left = v.left)
      /\ Looking(q)' /\ \A j \in 1..Len(new) : new[j].op # "publish" /\ new[j].on = f.on
  BY MakeTurnAdds
<1>2. CountOK(q)'
  BY <1>1 DEF CountOK
<1>3. Tally(t, b, new, q)
  BY <1>1, <1>2 DEF Tally
<1>4. /\ \A j \in 1..Len(new) :
            new[j].op \in {"make", "publish"} /\ new[j].on \in Quorums => new[j].on = f.on
      /\ f.on \in Quorums => Tally(t, b, new, f.on)
      /\ \A y \in Bodies : y # f.on => Quietly(body[y], body'[y])
  BY <1>1, <1>3
<1> QED
  BY ONLY IInv, CountInv, TypeOK', t \in Threads, Moves(t, b, new), TriggerStep(t, b), <1>1, <1>4, OthersTally

\* add_member counts an argument that has triggered.
LEMMA MakeToldCounts ==
    ASSUME IInv, CountInv, TypeOK', NEW t \in Threads, NEW b \in Nat, NEW f \in FrameType, NEW q \in Bodies,
           NEW x \in Bodies, NEW v \in FrameType, MakeTurn(t, b, f, q, x, v), body[x].triggered,
           NEW new \in Seq(FrameType), Len(new) = 1, new[1] = v, Moves(t, b, new),
           body' = [body EXCEPT ![q] = Counted(body[q])]
    PROVE  CountInv'
<1>1. /\ q \in Quorums /\ f.left[x] > 0 /\ v.left = Dec(f.left, x) /\ f.left \in [Bodies -> Nat]
      /\ v.left \in [Bodies -> Nat] /\ ToAdd(q, f.left) /\ (Publishing(q) => Publishing(q)')
  BY MakeTurnAdds
<1>2. body \in [Bodies -> BodyType] /\ body[q].members \in [Bodies -> Nat]
  BY DEF IInv, TypeOK, BodyType
<1>3. PICK c \in BodyType : c = Counted(body[q]) /\ c.life = body[q].life /\ (c.triggered <=> body[q].triggered)
         /\ c.ref = body[q].ref /\ c.members = body[q].members /\ c.count = body[q].count + 1
  BY <1>2, CountedFacts
<1>4. body'[q] = c /\ \A y \in Bodies : y # q => body'[y] = body[y]
  BY <1>2, <1>3
<1>5. Fired' = Fired /\ TriggerStep(t, b) /\ x \in Fired
  BY <1>3, <1>4 DEF Fired, TriggerStep
<1>6. Open(q)' => Open(q)
  BY <1>1, <1>3, <1>4 DEF Open, Live
<1>7. PICK m \in [Bodies -> Nat] : m = f.left
  BY <1>1
<1>8. PICK n : n = Dec(m, x) /\ n[x] = m[x] - 1 /\ \A y \in Bodies : y # x => n[y] = m[y]
  <2>1. m[x] > 0
    BY <1>1, <1>7
  <2> QED
    BY ONLY m \in [Bodies -> Nat], x \in Bodies, <2>1, DecOne
<1>9. n = v.left /\ n \in [Bodies -> Nat]
  BY <1>1, <1>7, <1>8
<1>10. ASSUME NEW y \in Bodies
       PROVE  body'[q].members[y] + n[y] = (body[q].members[y] + m[y]) - (IF y = x THEN 1 ELSE 0)
  <2>1. body'[q].members[y] = body[q].members[y] /\ body[q].members[y] \in Nat /\ m[x] # 0 /\ m[x] \in Nat
    BY <1>1, <1>2, <1>3, <1>4, <1>7
  <2> QED
    <3>1. m[y] \in Nat
      OBVIOUS
    <3>2. CASE y = x
      <4>1. n[y] = m[y] - 1
        BY <1>8, <3>2
      <4>2. body'[q].members[y] + n[y] = (body[q].members[y] + m[y]) - 1
        <5>1. PICK i \in Nat, j \in Nat : i = body[q].members[y] /\ i = body'[q].members[y] /\ j = m[y]
          BY <2>1, <3>1
        <5>2. i + (j - 1) = (i + j) - 1
          OBVIOUS
        <5> QED
          BY <4>1, <5>1, <5>2
      <4> QED
        BY <3>2, <4>2
    <3>3. CASE y # x
      BY ONLY <1>8, <2>1, <3>1, <3>3, y \in Bodies
    <3> QED
      BY <3>2, <3>3
<1>11. body[q].members[x] + m[x] > 0 /\ body'[q].count = body[q].count + 1
  BY <1>1, <1>2, <1>3, <1>4, <1>7
<1>12. Balanced(q, body'[q].count, Pending(q, n)', Fired', Open(q)')
  <2>1. q \in Quorums /\ Fired' = Fired /\ x \in Fired /\ ToAdd(q, m) /\ n \in [Bodies -> Nat]
    BY <1>1, <1>5, <1>7, <1>9
  <2> QED
    BY ONLY IInv, CountInv, TypeOK', x \in Bodies, m \in [Bodies -> Nat], <1>6, <1>10, <1>11, <2>1, ToldTally
<1>13. \A y \in Bodies : y # q => Quietly(body[y], body'[y])
  BY <1>4 DEF Quietly
<1> QED
  BY <1>5, <1>9, <1>12, <1>13, MakeTurnCounts

\* add_member adds an argument that has not.
LEMMA MakeAddsCounts ==
    ASSUME IInv, CountInv, TypeOK', NEW t \in Threads, NEW b \in Nat, NEW f \in FrameType, NEW q \in Bodies,
           NEW x \in Bodies, NEW v \in FrameType, MakeAdds(t, b, f, q, x, v),
           NEW new \in Seq(FrameType), Len(new) = 1, new[1] = v, Moves(t, b, new)
    PROVE  CountInv'
<1>0. MakeTurn(t, b, f, q, x, v)
  BY DEF MakeAdds
<1>1. /\ q \in Quorums /\ f.left[x] > 0 /\ v.left = Dec(f.left, x) /\ f.left \in [Bodies -> Nat]
      /\ v.left \in [Bodies -> Nat] /\ ToAdd(q, f.left) /\ (Publishing(q) => Publishing(q)')
  BY <1>0, MakeTurnAdds
<1>2. body \in [Bodies -> BodyType] /\ body[q].members \in [Bodies -> Nat] /\ body[q] \in BodyType
      /\ body[x] \in BodyType /\ body[q].count \in Nat /\ x # q /\ body[x].ref >= 1 /\ body[x].life = "live"
  BY <1>0 DEF IInv, TypeOK, BodyType, MakeTurn
<1>3. PICK r, c, d : /\ r = Refs(body[x], 1) /\ c = With(r, q)
                     /\ d = [body[q] EXCEPT !.members = Inc(body[q].members, x)]
                     /\ body' = [body EXCEPT ![x] = c, ![q] = d]
  BY DEF MakeAdds
<1>4. (c.triggered <=> body[x].triggered) /\ c.count = body[x].count /\ c.members = body[x].members
  <2>1. r \in BodyType /\ (r.triggered <=> body[x].triggered) /\ r.count = body[x].count /\ r.members = body[x].members
    <3>1. r = Refs(body[x], 1) /\ 1 \in Nat /\ body[x] \in BodyType
      BY <1>2, <1>3
    <3> QED
      BY ONLY <3>1, RefsFacts
  <2>2. (c.triggered <=> r.triggered) /\ c.count = r.count /\ c.members = r.members
    BY <1>3, <2>1, WithFacts
  <2> QED
    BY <2>1, <2>2
<1>5. /\ d.life = body[q].life /\ (d.triggered <=> body[q].triggered) /\ d.ref = body[q].ref
      /\ d.members = Inc(body[q].members, x) /\ d.count = body[q].count
  BY <1>2, <1>3 DEF BodyType
<1>6. body'[x] = c /\ body'[q] = d /\ \A y \in Bodies : y # q /\ y # x => body'[y] = body[y]
  BY <1>2, <1>3
<1>7. Fired' = Fired /\ TriggerStep(t, b)
  BY <1>4, <1>5, <1>6 DEF Fired, TriggerStep
<1>8. \A y \in Bodies : y # q => Quietly(body[y], body'[y])
  <2>1. Quietly(body[x], c)
    <3>1. body[x].ref \in Nat /\ body[x].ref > 0
      BY <1>2 DEF BodyType
    <3> QED
      BY <1>2, <1>4, <3>1 DEF Quietly
  <2>2. \A y \in Bodies : Quietly(body[y], body[y])
    BY DEF Quietly
  <2> QED
    BY <1>6, <2>1, <2>2
<1>9. PICK o \in BOOLEAN : o = Open(q)
  BY DEF Open, Live, Publishing
<1>10. PICK p \in BOOLEAN : p = Open(q)'
  BY DEF Open, Live, Publishing
<1>11. p => o
  BY <1>1, <1>5, <1>6, <1>9, <1>10 DEF Open, Live
<1>12. PICK m \in [Bodies -> Nat] : m = f.left
  BY <1>1
<1>13. PICK n : n = Dec(m, x) /\ n[x] = m[x] - 1 /\ \A y \in Bodies : y # x => n[y] = m[y]
  <2>1. m[x] > 0
    BY <1>1, <1>12
  <2> QED
    BY ONLY m \in [Bodies -> Nat], x \in Bodies, <2>1, DecOne
<1>14. n = v.left /\ n \in [Bodies -> Nat]
  BY <1>1, <1>12, <1>13
<1>15. PICK k \in [Bodies -> Nat] : k = body[q].members
  BY <1>2
<1>16. PICK l : l = Inc(k, x) /\ \A y \in Bodies : l[y] = IF y # x THEN k[y] ELSE k[x] + 1
  BY ONLY k \in [Bodies -> Nat], x \in Bodies, BagFacts
<1>17. Pending(q, n)' = Pending(q, m)
  <2>1. ASSUME NEW y \in Bodies PROVE body'[q].members[y] + n[y] = body[q].members[y] + m[y]
    <3>1. body'[q].members[y] = l[y] /\ body[q].members[y] = k[y] /\ k[y] \in Nat /\ m[y] \in Nat /\ m[x] # 0
      BY <1>1, <1>5, <1>6, <1>12, <1>15, <1>16, SMTT(60)
    <3> QED
      <4>1. CASE y = x
        <5>1. n[y] = m[y] - 1 /\ l[y] = k[y] + 1
          BY <1>13, <1>16, <4>1
        <5> QED
          BY ONLY <3>1, <5>1
      <4>2. CASE y # x
        BY ONLY <1>13, <1>16, <3>1, <4>2, y \in Bodies
      <4> QED
        BY <4>1, <4>2
  <2> QED
    BY <2>1 DEF Pending
<1>18. PICK e \in [Bodies -> Nat] : e = Pending(q, m)
  BY PendingType DEF IInv
<1>19. PICK T, i : T = Fired /\ i = body[q].count /\ i \in Nat
  BY <1>2
<1>20. Balanced(q, i, e, T, o)
  BY <1>1, <1>9, <1>12, <1>18, <1>19 DEF CountInv, CountOK
<1>21. Balanced(q, i, e, T, p)
  <2>1. T \subseteq T /\ q \in Quorums /\ i \in Nat
    BY <1>1, <1>19
  <2> QED
    BY ONLY <1>11, <1>20, <2>1, e \in [Bodies -> Nat], o \in BOOLEAN, p \in BOOLEAN, BalancedGrows
<1>22. Balanced(q, body'[q].count, Pending(q, n)', Fired', Open(q)')
  BY <1>5, <1>6, <1>7, <1>10, <1>17, <1>18, <1>19, <1>21
<1> QED
  BY <1>0, <1>7, <1>8, <1>14, <1>22, MakeTurnCounts

LEMMA MakeCounts ==
    ASSUME IInv, CountInv, TypeOK', NEW t \in Threads, Make(t)
    PROVE  CountInv'
<1>1. PICK b \in Nat, f \in FrameType :
         /\ Popped(t, b, f) /\ f = Top(t) /\ f.op = "make" /\ Runs(t)
         /\ \A new \in Seq(FrameType) : Replace(t, new) => Moves(t, b, new)
  BY InFacts DEF Make
<1>2. f.on \in Quorums
  BY <1>1 DEF Popped, FrameOK, ShapeOK, OnQuorum
<1>3. PICK q \in Quorums : q = f.on
  BY <1>2
<1>4. q \in Bodies /\ held' = held /\ queue' = queue /\ at' = at /\ coh' = coh
  BY DEF Make, Bodies
<1>5. \/ \E x \in Bodies :
            /\ f.left[x] > 0
            /\ \/ body[x].triggered /\ body' = [body EXCEPT ![q] = Counted(body[q])]
               \/ /\ ~body[x].triggered /\ ~body[x].lock
                  /\ body' = [body EXCEPT ![x] = With(Refs(body[x], 1), q),
                                          ![q] = [body[q] EXCEPT !.members = Inc(body[q].members, x)]]
            /\ Replace(t, <<Visited(f, x)>>)
      \/ /\ f.left = Nobody
         /\ \/ /\ body' = [body EXCEPT ![q] = Referenced(body[q], q)] /\ Reached(q)
               /\ Replace(t, TriggerUnlock(body[q], q, FALSE))
            \/ body' = [body EXCEPT ![q] = Unlocked(body[q])] /\ Replace(t, << >>) /\ ~Reached(q)
  BY <1>1, <1>3 DEF Make
<1>6. ASSUME NEW x \in Bodies, f.left[x] > 0, Replace(t, <<Visited(f, x)>>),
             \/ body[x].triggered /\ body' = [body EXCEPT ![q] = Counted(body[q])]
             \/ /\ ~body[x].triggered /\ ~body[x].lock
                /\ body' = [body EXCEPT ![x] = With(Refs(body[x], 1), q),
                                        ![q] = [body[q] EXCEPT !.members = Inc(body[q].members, x)]]
      PROVE  CountInv'
  <2>1. PICK p \in Bodies, v \in FrameType : MakeTurn(t, b, f, p, x, v)
    BY <1>1, <1>6, MakeTurnFacts
  <2>2. p = q /\ v = Visited(f, x)
    BY <1>3, <2>1 DEF MakeTurn
  <2>3. MakeTurn(t, b, f, q, x, v) /\ Replace(t, <<v>>)
    BY <1>6, <2>1, <2>2
  <2>4. PICK new \in Seq(FrameType) : new = <<v>> /\ Len(new) = 1 /\ new[1] = v
    <3>1. <<v>> \in Seq(FrameType) /\ Len(<<v>>) = 1 /\ <<v>>[1] = v
      BY ONLY v \in FrameType
    <3> QED
      BY <3>1
  <2>5. Moves(t, b, new)
    BY <1>1, <2>3, <2>4
  <2>6. CASE body[x].triggered
    BY <1>4, <1>6, <2>3, <2>4, <2>5, <2>6, MakeToldCounts
  <2>7. CASE ~body[x].triggered
    <3>1. MakeAdds(t, b, f, q, x, v)
      BY <1>1, <1>4, <1>6, <2>3, <2>7 DEF MakeAdds
    <3> QED
      BY <1>4, <2>4, <2>5, <3>1, MakeAddsCounts
  <2> QED
    BY <2>6, <2>7
<1>7. ASSUME f.left = Nobody,
             \/ /\ body' = [body EXCEPT ![q] = Referenced(body[q], q)] /\ Reached(q)
                /\ Replace(t, TriggerUnlock(body[q], q, FALSE))
             \/ body' = [body EXCEPT ![q] = Unlocked(body[q])] /\ Replace(t, << >>) /\ ~Reached(q)
      PROVE  CountInv'
  BY <1>1, <1>3, <1>7, DecisionCounts
<1> QED
  BY <1>5, <1>6, <1>7

\* A body that nobody has made has no calls.
LEMMA NobodyMakes ==
    ASSUME IInv, NEW q \in Bodies, body[q].life # "live", NEW u \in Threads, NEW k \in 1..Len(stack[u]),
           Is(u, k, "make", q)
    PROVE  FALSE
<1>1. stack[u][k].op \in Owners /\ stack[u][k].on = q
  BY DEF Is, Owners
<1>2. body[q].lock
  BY <1>1 DEF IInv, LockInv
<1> QED
  BY <1>2, LiveFacts

LEMMA CallMakeCounts ==
    ASSUME IInv, CountInv, TypeOK', NEW t \in Threads, NEW q \in Quorums, CallMake(t, q)
    PROVE  CountInv'
<1>1. Ready(t) /\ body[q].life = "new" /\ q \in Bodies /\ TypeOK
  BY DEF CallMake, Bodies, IInv
<1>2. body[q] \in BodyType /\ body[q].count = 0 /\ body[q].members = Nobody /\ ~body[q].triggered
  <2>1. body[q] \in BodyType /\ BodyOK(q, body[q])
    BY <1>1, LiveFacts
  <2> QED
    BY <1>1, <2>1 DEF BodyOK
<1>3. PICK c : /\ c = [body[q] EXCEPT !.life = "live", !.lock = TRUE, !.ref = 1]
               /\ body' = [body EXCEPT ![q] = c]
  BY DEF CallMake
<1>4. c.count = 0 /\ c.members = Nobody /\ ~c.triggered
  BY <1>2, <1>3 DEF BodyType
<1>5. body'[q] = c /\ \A y \in Bodies : y # q => body'[y] = body[y]
  BY <1>1, <1>3 DEF TypeOK
<1>6. PICK m \in [Bodies -> Nat] : m = Members[q]
  BY QuorumAssumption
<1>7. PICK g \in FrameType : /\ g = Frame("make", q, None, m, FALSE) /\ g.op = "make" /\ g.on = q
                             /\ g.left = m
  <2>1. PICK g : g = Frame("make", q, None, m, FALSE)
    OBVIOUS
  <2>2. g \in FrameType /\ g.op = "make" /\ g.on = q /\ g.left = m
    BY <1>1, <2>1 DEF Frame, FrameType, Ops
  <2> QED
    BY <2>1, <2>2
<1>8. PICK new : new = <<g>> /\ Len(new) = 1 /\ new[1] = g
  <2>1. Len(<<g>>) = 1 /\ <<g>>[1] = g
    BY ONLY g \in FrameType
  <2> QED
    BY <2>1
<1>9. Begin(t, g)
  BY <1>6, <1>7 DEF CallMake
<1>10. Idle(t) /\ Moves(t, 0, new) /\ Len(stack'[t]) = 1 /\ stack'[t][1] = g
  BY <1>1, <1>8, <1>9, IdleBegin
<1>11. \A op, y : ~Pops(t, 0, op, y)
  BY <1>10, IdleFacts
<1>12. TriggerStep(t, 0)
  BY <1>2, <1>4, <1>5 DEF TriggerStep
<1>13. \A j \in 1..Len(new) : new[j].op = "make" /\ new[j].on = q /\ new[j].left = m
  <2>1. 1..Len(new) = {1}
    BY <1>8
  <2> QED
    BY <1>7, <1>8, <2>1
<1>14. Tally(t, 0, new, q)
  <2>1. ASSUME NEW left \in [Bodies -> Nat], ToAdd(q, left)' PROVE left = m
    <3>1. ASSUME NEW u \in Threads, NEW k \in 1..Len(stack[u]), Is(u, k, "make", q) PROVE u = t /\ k = 0 + 1
      BY <1>1, <3>1, NobodyMakes
    <3>2. \/ \E j \in 1..Len(new) : new[j].op = "make" /\ new[j].on = q /\ left = new[j].left
          \/ left = Nobody /\ \A j \in 1..Len(new) : ~(new[j].op = "make" /\ new[j].on = q)
      BY ONLY <1>1, <1>10, <2>1, <3>1, t \in Threads, ToAddMade
    <3>3. 1 \in 1..Len(new)
      BY <1>8
    <3> QED
      BY <1>13, <3>2, <3>3
  <2>2. PICK p \in BOOLEAN : p = Open(q)'
    BY DEF Open, Live, Publishing
  <2>3. PICK T : T = Fired'
    OBVIOUS
  <2>4. Pending(q, m)' = m
    <3>1. \A y \in Bodies : body'[q].members[y] + m[y] = m[y]
      BY <1>4, <1>5, NobodyFacts
    <3> QED
      BY <3>1 DEF Pending
  <2>5. Balanced(q, 0, m, T, p)
    BY ONLY <1>6, q \in Quorums, m \in [Bodies -> Nat], p \in BOOLEAN, BalancedStart
  <2>6. CountOK(q)'
    BY <1>4, <1>5, <2>1, <2>2, <2>3, <2>4, <2>5 DEF CountOK
  <2>7. Looking(q)'
    <3>1. 1 \in 1..Len(stack'[t])
      BY <1>10
    <3>2. Is(t, 1, "make", q)'
      BY <1>7, <1>10 DEF Is
    <3> QED
      BY <3>1, <3>2 DEF Looking
  <2>8. \A j \in 1..Len(new) : new[j].op # "publish"
    BY <1>13
  <2> QED
    BY <2>6, <2>7, <2>8 DEF Tally
<1>15. ASSUME NEW p \in Quorums, p # q PROVE Tally(t, 0, new, p)
  <2>1. p \in Bodies /\ Quietly(body[p], body'[p])
    BY <1>5, <1>15 DEF Quietly, Bodies
  <2>2. NoMake(t, 0, new, p)
    BY <1>11, <1>13, <1>15 DEF NoMake
  <2>3. ~(\E j \in 1..Len(new) : new[j].op = "publish" /\ new[j].on = p)
    BY <1>13
  <2> QED
    BY ONLY IInv, CountInv, TypeOK', t \in Threads, p \in Quorums, <1>10, <1>11, <1>12, <2>1, <2>2, <2>3, OtherTally
<1>16. \A p \in Quorums : Tally(t, 0, new, p)
  BY <1>14, <1>15
<1> QED
  BY ONLY IInv, CountInv, TypeOK', t \in Threads, <1>10, <1>12, <1>16, CountStep

LEMMA InitCount ==
    ASSUME Init
    PROVE  CountInv
<1>1. IInv
  BY InitInv
<1>2. \A t \in Threads : 1..Len(stack[t]) = {}
  <2>1. stack = [t \in Threads |-> << >>]
    BY DEF Init
  <2> QED
    BY ONLY <2>1
<1>3. ASSUME NEW q \in Quorums
      PROVE  /\ CountOK(q)
             /\ Open(q) /\ Reached(q) => Looking(q)
             /\ body[q].triggered \/ Publishing(q) => Arrived(q) >= Needed[q]
  <2>1. q \in Bodies
    BY DEF Bodies
  <2>2. ~body[q].triggered /\ body[q].count = 0 /\ body[q].members = Nobody /\ body[q].life = "new"
    BY <2>1, InitBodies
  <2>3. ~Open(q) /\ ~Publishing(q)
    BY <1>2, <2>2 DEF Open, Live, Publishing
  <2>4. ASSUME NEW left \in [Bodies -> Nat], ToAdd(q, left)
        PROVE  Balanced(q, body[q].count, Pending(q, left), Fired, Open(q))
    <3>1. left = Nobody
      BY <1>2, <2>4 DEF ToAdd
    <3>2. PICK m \in [Bodies -> Nat] : m = Pending(q, left) /\ \A x \in Bodies : m[x] = 0
      <4>1. \A x \in Bodies : Pending(q, left)[x] = 0
        BY <2>2, <3>1, NobodyFacts DEF Pending
      <4> QED
        BY <1>1, <2>1, <4>1, PendingType DEF IInv
    <3>3. PICK T : T = Fired /\ Cardinality(Past(q, m, T)) \in Nat
      <4>1. (\A x \in Bodies : m[x] <= m[x]) /\ Fired \subseteq Fired
        BY <3>2
      <4> QED
        BY <4>1, PastGrows
    <3>4. \A x \in Bodies : Members[q][x] \in Nat
      BY QuorumAssumption
    <3> QED
      BY <2>2, <2>3, <3>2, <3>3, <3>4 DEF Balanced
  <2> QED
    BY <2>2, <2>3, <2>4 DEF CountOK
<1> QED
  BY <1>3 DEF CountInv

LEMMA StutterCount ==
    ASSUME CountInv, UNCHANGED vars
    PROVE  CountInv'
<1>1. body' = body /\ stack' = stack
  BY DEF vars
<1>2. Fired' = Fired
  BY <1>1 DEF Fired
<1>3. ASSUME NEW q \in Quorums
      PROVE  /\ CountOK(q)'
             /\ Open(q)' /\ Reached(q)' => Looking(q)'
             /\ body'[q].triggered \/ Publishing(q)' => Arrived(q)' >= Needed[q]
  <2>1. /\ Publishing(q)' <=> Publishing(q)
        /\ Looking(q)' <=> Looking(q)
        /\ \A left : (ToAdd(q, left)' <=> ToAdd(q, left)) /\ Pending(q, left)' = Pending(q, left)
    BY <1>1 DEF Publishing, Looking, ToAdd, Pending, Is
  <2>2. Open(q)' = Open(q) /\ (Reached(q)' <=> Reached(q)) /\ Arrived(q)' = Arrived(q)
    BY <1>1, <2>1 DEF Open, Live, Reached, Arrived, Publishing, Is
  <2>3. CountOK(q)'
    BY <1>1, <1>2, <2>1, <2>2 DEF CountInv, CountOK
  <2> QED
    BY <1>1, <2>1, <2>2, <2>3 DEF CountInv
<1> QED
  BY <1>3 DEF CountInv

LEMMA NextCount ==
    ASSUME Prompt, IInv, CountInv, [Next]_vars
    PROVE  CountInv'
<1>0. TypeOK'
  BY NextInv DEF IInv
<1>1. ASSUME NEW t \in Threads, Step(t) PROVE CountInv'
  BY <1>0, <1>1, DropCounts, DerefCounts, HardDerefCounts, UnlockCounts, HardEndCounts, CullCounts,
     TriggerCounts, PublishCounts, InformCounts, PostCounts, MemberCounts, MemberEndCounts, MakeCounts,
     DriveCounts, ResumeCounts DEF Step
<1>2. ASSUME NEW t \in Threads, NEW x \in Bodies, NEW u \in Threads, Copy(t, x, u) PROVE CountInv'
  BY <1>0, <1>2, CopyCounts DEF Copy
<1>3. ASSUME NEW t \in Threads, NEW e \in Events, Asap(t, e) PROVE CountInv'
  BY <1>0, <1>3, CopyCounts DEF Asap, Bodies
<1>4. ASSUME NEW t \in Threads, Use(t) PROVE CountInv'
  BY <1>0, <1>2, <1>3, <1>4, CallMakeCounts, CallTriggerCounts, CallDropCounts DEF Use
<1>5. ASSUME NEW t \in Threads, RunAsap(t) PROVE CountInv'
  BY <1>0, <1>5, RunAsapCounts
<1>6. ASSUME NEW c \in Coroutines, Destroy(c) \/ \E x \in Bodies : Await(c, x) PROVE CountInv'
  BY <1>0, <1>6, DestroyCounts, AwaitCounts
<1> QED
  BY <1>1, <1>4, <1>5, <1>6, StutterCount DEF Next

-----------------------------------------------------------------------------
(* What it says of quorums. *)

\* Once the calls have returned, nobody triggered is in a member list.
LEMMA QuietFacts ==
    ASSUME IInv, Quiet
    PROVE  /\ \A t \in Threads : 1..Len(stack[t]) = {}
           /\ \A x \in Bodies : ~body[x].lock
           /\ \A q, x \in Bodies : body[x].triggered => body[q].members[x] = 0
<1>1. \A t \in Threads : 1..Len(stack[t]) = {}
  <2>1. ASSUME NEW t \in Threads PROVE 1..Len(stack[t]) = {}
    <3>1. stack[t] = << >>
      BY DEF Quiet, Idle
    <3> QED
      BY ONLY <3>1
  <2> QED
    BY <2>1
<1>2. ASSUME NEW x \in Bodies PROVE ~body[x].lock
  BY <1>1 DEF IInv, LockInv
<1>3. ASSUME NEW q \in Bodies, NEW x \in Bodies, body[x].triggered PROVE body[q].members[x] = 0
  <2>1. body[x].quorums = Nobody
    BY <1>3, LiveFacts DEF BodyOK
  <2>2. ~Informs(x)
    BY <1>1 DEF Informs
  <2>3. body[q].members[x] = body[x].quorums[q]
    BY <2>2 DEF IInv, LinkInv
  <2> QED
    BY <2>1, <2>3, NobodyFacts
<1> QED
  BY <1>1, <1>2, <1>3

\* Then a quorum that nobody refers to is gone.
LEMMA QuietRefs ==
    ASSUME IInv, Quiet, NEW q \in Quorums, Live(q)
    PROVE  body[q].ref > 0
<1>1. q \in Bodies
  BY DEF Bodies
<1>2. /\ \A t \in Threads : 1..Len(stack[t]) = {}
      /\ \A x \in Bodies : ~body[x].lock
      /\ \A p, x \in Bodies : body[x].triggered => body[p].members[x] = 0
  BY QuietFacts
<1>3. body[q].ref \in Nat /\ body[q].members \in [Bodies -> Nat]
  BY <1>1, LiveFacts
<1>4. ASSUME body[q].ref = 0 PROVE FALSE
  <2>1. body[q].members # Nobody /\ Settling(q)
    BY <1>1, <1>2, <1>4 DEF IInv, ZeroInv
  <2>2. PICK x \in Bodies : body[q].members[x] # 0
    BY <1>3, <2>1, BagEmpty
  <2>3. body[q].members[x] > 0
    BY <1>3, <2>2
  <2>4. body[x].triggered
    BY <2>1, <2>3 DEF Settling
  <2> QED
    BY <1>1, <1>2, <2>2, <2>4
<1> QED
  BY <1>3, <1>4

LEMMA QuorumExactHolds ==
    ASSUME IInv, CountInv
    PROVE  QuorumExact
<1>1. ASSUME NEW q \in Quorums, body[q].triggered PROVE Arrived(q) >= Needed[q]
  BY <1>1 DEF CountInv
<1>2. ASSUME NEW q \in Quorums, Live(q), Quiet, Arrived(q) >= Needed[q], ~body[q].triggered PROVE FALSE
  <2>1. q \in Bodies
    BY DEF Bodies
  <2>2. /\ \A t \in Threads : 1..Len(stack[t]) = {}
        /\ \A p, x \in Bodies : body[x].triggered => body[p].members[x] = 0
    BY <1>2, QuietFacts
  <2>3. body[q].ref > 0
    BY <1>2, QuietRefs
  <2>4. Open(q) = TRUE
    BY <1>2, <2>2, <2>3 DEF Open, Publishing
  <2>5. ToAdd(q, Nobody)
    BY <2>2 DEF ToAdd
  <2>6. PICK m \in [Bodies -> Nat] : m = Pending(q, Nobody)
    BY <2>1, NobodyFacts, PendingType DEF IInv
  <2>7. PICK T : T = Fired
    OBVIOUS
  <2>8. Balanced(q, body[q].count, m, T, Open(q))
    BY <2>5, <2>6, <2>7, NobodyFacts DEF CountInv, CountOK
  <2>9. body[q].count = Cardinality(Past(q, m, T))
    BY <2>4, <2>8 DEF Balanced
  <2>10. ASSUME NEW x \in Bodies, x \in T PROVE m[x] = 0
    <3>1. body[q].members[x] = 0
      BY <2>1, <2>2, <2>7, <2>10 DEF Fired
    <3> QED
      BY <2>6, <3>1, NobodyFacts DEF Pending
  <2>11. Past(q, m, T) = Past(q, Nobody, T)
    <3>1. ASSUME NEW a \in Args(q), a[1] \in T PROVE m[a[1]] = Nobody[a[1]]
      <4>1. a[1] \in Bodies
        BY ArgsFacts
      <4> QED
        BY <2>10, <3>1, <4>1, NobodyFacts
    <3> QED
      BY <3>1 DEF Past
  <2>12. Arrived(q) = body[q].count
    BY <2>7, <2>9, <2>11, ArrivedFacts
  <2>13. Reached(q)
    BY <1>2, <2>12 DEF Reached
  <2>14. Looking(q)
    BY <2>4, <2>13 DEF CountInv
  <2> QED
    BY <2>2, <2>14 DEF Looking
<1> QED
  BY <1>1, <1>2 DEF QuorumExact

-----------------------------------------------------------------------------

\* A quorum never triggers before enough of its arguments have, and once the calls
\* have returned it is triggered if they have: no order of add_member in make(),
\* trigger_member and cull_members loses or repeats a count, for nested quorums and
\* for bodies that are passed more than once.
THEOREM QuorumCountsExactly ==
    ASSUME Prompt
    PROVE  Spec => []QuorumExact
<1>1. Init => IInv /\ CountInv
  BY InitInv, InitCount
<1>2. IInv /\ CountInv /\ [Next]_vars => IInv' /\ CountInv'
  BY NextInv, NextCount
<1>3. IInv /\ CountInv => QuorumExact
  BY QuorumExactHolds
<1> QED
  BY <1>1, <1>2, <1>3, PTL DEF Spec

=============================================================================
