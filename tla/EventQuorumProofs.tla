------------------------- MODULE EventQuorumProofs -------------------------
(***************************************************************************)
(* Proofs about EventQuorum: no body is used after it is deleted and none  *)
(* leaks, for any number of threads, coroutines, events and quorums        *)
(* however deep they are nested, provided that hard_deref's unlock()       *)
(* follows its decrement at once (Prompt).                                 *)
(*                                                                         *)
(* IInv describes the calls on the stacks (ShapeInv, HandleInv), one body  *)
(* and the count of its references (BodyInv, RefInv), the lock and the     *)
(* trigger (LockInv, OnceInv), the two lists that link members and         *)
(* quorums (LinkInv), and who still owes a deletion or a cull (CullInv,    *)
(* NomemInv, ZeroInv).  A call is a step Moves(t, b, new): it replaces the *)
(* innermost of t's calls by new, over the b calls that wait for it.  Each *)
(* part of IInv has a lemma on what such a step must keep, and each action *)
(* a lemma that it does.                                                   *)
(***************************************************************************)
EXTENDS EventQuorum, FiniteSetTheorems, FunctionTheorems, SequenceTheorems, TLAPS

-----------------------------------------------------------------------------
(* The inductive invariant: the calls of one thread. *)

\* Thread t is in call op on x, k calls deep.
Is(t, k, op, x) == stack[t][k].op = op /\ stack[t][k].on = x

\* The calls that only quorums have, and those no other call makes.
OnQuorum == {"make", "drop", "hard", "unlock", "hard_end", "member", "member_end", "cull"}
Outermost == {"make", "trigger", "drive", "claimed"}

\* Which call is made by which.
ShapeOK(t, k) ==
    LET f == stack[t][k]
    IN  /\ f.op \in OnQuorum => f.on \in Quorums
        /\ f.op = "trigger" => f.on \in Events
        /\ f.op \in Outermost => k = 1
        /\ f.op = "unlock" => k = Len(stack[t])
        /\ f.op = "member" => k > 1 /\ Is(t, k - 1, "inform", f.src)
        /\ f.op = "cull" => k > 1 /\ \/ Is(t, k - 1, "publish", f.on)
                                     \/ Is(t, k - 1, "hard_end", f.on)
        /\ f.op \notin {"make", "cull", "inform"} => f.left = Nobody
        /\ f.op = "inform" => \A x \in Bodies : f.left[x] > 0 => x \in Quorums
        /\ f.drv => stack[t][1].op = "claimed"

ShapeInv == \A t \in Threads : \A k \in 1..Len(stack[t]) : ShapeOK(t, k)

\* A thread that triggers an event has a handle of it, or its driver has.
Secured(t, x) == held[t][x] > 0 \/ Is(t, 1, "claimed", x)

HandleOK(t, k) ==
    LET f == stack[t][k]
    IN  /\ f.op \in {"trigger", "publish", "inform"} /\ f.on \in Events => Secured(t, f.on)
        /\ f.op = "make" => \A x \in Bodies : f.left[x] > 0 => held[t][x] > 0 /\ x # f.on

HandleInv == \A t \in Threads : \A k \in 1..Len(stack[t]) : HandleOK(t, k)

-----------------------------------------------------------------------------
(* One body, and who refers to it. *)

\* What is not alive is empty, and a quorum is no member of itself.
BodyOK(x, b) ==
    /\ b.life # "live" => b.ref = 0 /\ ~b.lock /\ b.members = Nobody /\ b.quorums = Nobody
                          /\ b.coroutines = {}
    /\ b.life = "new" => ~b.triggered /\ b.count = 0 /\ b.nomem
    /\ x \in Events => b.members = Nobody /\ b.life # "new" /\ (b.life = "live" => b.ref > 0)
    /\ b.triggered => b.quorums = Nobody
    /\ \A y \in Bodies : b.quorums[y] > 0 => y \in Quorums
    /\ \A y \in Bodies : b.members[y] > 0 => y # x

BodyInv == \A x \in Bodies : BodyOK(x, body[x])

\* The calls that have a reference of their own.
Counts(f) ==
    \/ f.op \in {"drop", "deref", "hard", "drive", "claimed"}
    \/ f.op \in {"publish", "inform"} /\ f.on \in Quorums

\* The references to x: handles of the program, of the queues, of the suspended
\* coroutines, of member lists and of calls.
HeldRefs(x) == {p \in Threads \X Nat : p[2] \in 1..held[p[1]][x]}
QueueRefs(x) == {p \in Threads \X Nat : p[2] \in 1..Len(queue[p[1]]) /\ queue[p[1]][p[2]] = x}
AtRefs(x) == {c \in Coroutines : at[c] = x}
MemRefs(x) == {p \in Bodies \X Nat : p[2] \in 1..body[p[1]].members[x]}
CallRefs(x) == {p \in Threads \X Nat : /\ p[2] \in 1..Len(stack[p[1]])
                                       /\ Counts(stack[p[1]][p[2]])
                                       /\ stack[p[1]][p[2]].on = x}

\* refcount_ is exact.
RefInv ==
    \A x \in Bodies :
        /\ IsFiniteSet(HeldRefs(x)) /\ IsFiniteSet(QueueRefs(x)) /\ IsFiniteSet(AtRefs(x))
        /\ IsFiniteSet(MemRefs(x)) /\ IsFiniteSet(CallRefs(x))
        /\ body[x].ref = Cardinality(HeldRefs(x)) + Cardinality(QueueRefs(x))
                         + Cardinality(AtRefs(x)) + Cardinality(MemRefs(x))
                         + Cardinality(CallRefs(x))

-----------------------------------------------------------------------------
(* The lock, triggering, and the two lists. *)

\* The calls that hold the lock of their body.
Owners == {"make", "publish", "hard_end", "unlock", "member_end"}

Owns(t, k, x) == stack[t][k].op \in Owners /\ stack[t][k].on = x

\* A lock is held by one call.
LockInv ==
    /\ \A t \in Threads : \A k \in 1..Len(stack[t]) :
          stack[t][k].op \in Owners => body[stack[t][k].on].lock
    /\ \A t, u \in Threads : \A k \in 1..Len(stack[t]) : \A j \in 1..Len(stack[u]) :
          \A x \in Bodies : Owns(t, k, x) /\ Owns(u, j, x) => t = u /\ k = j
    /\ \A x \in Bodies : body[x].lock =>
          \E t \in Threads : \E k \in 1..Len(stack[t]) : Owns(t, k, x)

\* A body is triggered once: publish comes before, inform after.
OnceOK(f) ==
    /\ f.op = "publish" => ~body[f.on].triggered
    /\ f.op = "inform" => body[f.on].triggered
    /\ f.op = "unlock" => body[f.on].ref > 0
    /\ f.op = "hard_end" => body[f.on].ref = 0
    /\ f.op \in {"drive", "claimed"} /\ f.on \in Quorums => body[f.on].triggered

OnceInv ==
    /\ \A t \in Threads : \A k \in 1..Len(stack[t]) : OnceOK(stack[t][k])
    /\ \A t, u \in Threads : \A k \in 1..Len(stack[t]) : \A j \in 1..Len(stack[u]) :
          \A x \in Bodies : Is(t, k, "inform", x) /\ Is(u, j, "inform", x) => t = u /\ k = j
    /\ \A t \in Threads : \A i \in 1..Len(queue[t]) :
          queue[t][i] \in Quorums => body[queue[t][i]].triggered

\* What the loop that informs, k calls deep in t, has still to tell q: the turn that
\* has begun included.
Telling(t, k, q) ==
    stack[t][k].left[q] + (IF k < Len(stack[t]) /\ Is(t, k + 1, "member", q) THEN 1 ELSE 0)

Informs(x) == \E t \in Threads : \E k \in 1..Len(stack[t]) : Is(t, k, "inform", x)

\* A quorum has x as a member as often as x has the quorum as a listener, or as
\* often as a trigger of x has still to tell it.
LinkInv ==
    /\ \A x \in Bodies : ~Informs(x) =>
          \A q \in Bodies : body[q].members[x] = body[x].quorums[q]
    /\ \A t \in Threads : \A k \in 1..Len(stack[t]) :
          stack[t][k].op = "inform" =>
             \A q \in Bodies : body[q].members[stack[t][k].on] = Telling(t, k, q)

-----------------------------------------------------------------------------
(* Culling, and who deletes a quorum. *)

\* Only triggered members stay.
Settling(q) == \A x \in Bodies : body[q].members[x] > 0 => body[x].triggered

\* cull_members has yet to visit every member that is not triggered.
CullOK(t, k) ==
    LET f == stack[t][k]
    IN  /\ f.op = "cull" => \A x \in Bodies :
              /\ f.left[x] <= body[f.on].members[x]
              /\ body[f.on].members[x] > f.left[x] => body[x].triggered
        /\ f.op \in {"publish", "hard_end"} /\ ~(k < Len(stack[t]) /\ Is(t, k + 1, "cull", f.on))
              => Settling(f.on)

CullInv ==
    /\ \A t \in Threads : \A k \in 1..Len(stack[t]) : CullOK(t, k)
    /\ \A q \in Quorums : body[q].triggered => Settling(q)

\* Nobody but its maker knows q.
Private(t, q) ==
    /\ stack[t] # << >> /\ held[t][q] > 0
    /\ \/ Is(t, 1, "make", q) /\ body[q].ref = 1
       \/ Is(t, 1, "publish", q) /\ body[q].ref = 2

\* ef_empty_members is stale only while nobody else can look at it.
NomemOK(t, k) ==
    LET f == stack[t][k]
    IN  /\ f.op = "deref" /\ f.on \in Quorums => body[f.on].nomem /\ body[f.on].members = Nobody
        /\ f.op = "member_end" => ~body[f.on].nomem
        /\ f.op = "make" => Private(t, f.on) /\ body[f.on].nomem /\ ~body[f.on].triggered

NomemInv ==
    /\ \A t \in Threads : \A k \in 1..Len(stack[t]) : NomemOK(t, k)
    /\ \A q \in Quorums : Live(q) /\ body[q].nomem /\ body[q].members # Nobody =>
          \E t \in Threads : Private(t, q)

\* A quorum without references waits for the triggers of its last members.
ZeroInv ==
    \A q \in Quorums : Live(q) /\ body[q].ref = 0 =>
        /\ ~body[q].lock => body[q].members # Nobody
        /\ \/ Settling(q)
           \/ \E t \in Threads : \E k \in 1..Len(stack[t]) : Is(t, k, "hard_end", q)

\* A coroutine suspended on x has a handle of x; a claimed one is about to go.
CoroutineInv ==
    /\ \A x \in Bodies : \A c \in body[x].coroutines : at[c] = x
    /\ \A t \in Threads : coh[t] # None =>
          /\ \A x \in Bodies : coh[t] \notin body[x].coroutines
          /\ at[coh[t]] # None /\ Home[coh[t]] = t /\ stack[t] # << >> /\ stack[t][1].op = "claimed"

IInv ==
    /\ TypeOK /\ ShapeInv /\ HandleInv /\ BodyInv /\ RefInv /\ LockInv /\ OnceInv /\ LinkInv
    /\ CullInv /\ NomemInv /\ ZeroInv /\ CoroutineInv

-----------------------------------------------------------------------------
(* Lemmas about the operators on bodies. *)

LEMMA NobodyFacts == Nobody \in [Bodies -> Nat] /\ \A x \in Bodies : Nobody[x] = 0
BY DEF Nobody

LEMMA BagEmpty ==
    ASSUME NEW bag \in [Bodies -> Nat]
    PROVE  bag = Nobody <=> \A x \in Bodies : bag[x] = 0
BY DEF Nobody

LEMMA BagFacts ==
    ASSUME NEW bag \in [Bodies -> Nat], NEW x \in Bodies
    PROVE  /\ Dec(bag, x) \in [Bodies -> Nat] /\ Inc(bag, x) \in [Bodies -> Nat]
           /\ \A y \in Bodies :
                 /\ Dec(bag, x)[y] = IF y # x THEN bag[y] ELSE IF bag[x] = 0 THEN 0 ELSE bag[x] - 1
                 /\ Inc(bag, x)[y] = IF y # x THEN bag[y] ELSE bag[x] + 1
BY DEF Dec, Inc

LEMMA FreshType == Fresh \in BodyType
BY NobodyFacts DEF Fresh, BodyType

LEMMA UnlockedFacts ==
    ASSUME NEW b \in BodyType
    PROVE  LET u == Unlocked(b)
           IN  /\ u \in BodyType
               /\ u.life = b.life /\ ~u.lock /\ (u.triggered <=> b.triggered) /\ u.ref = b.ref
               /\ u.nomem <=> b.members = Nobody
               /\ u.quorums = b.quorums /\ u.coroutines = b.coroutines
               /\ u.members = b.members /\ u.count = b.count
BY DEF Unlocked, BodyType

LEMMA LockedFacts ==
    ASSUME NEW b \in BodyType
    PROVE  LET u == Locked(b)
           IN  /\ u \in BodyType
               /\ u.life = b.life /\ u.lock /\ (u.triggered <=> b.triggered) /\ u.ref = b.ref
               /\ u.nomem <=> b.nomem
               /\ u.quorums = b.quorums /\ u.coroutines = b.coroutines
               /\ u.members = b.members /\ u.count = b.count
BY DEF Locked, BodyType

LEMMA DeletedFacts ==
    ASSUME NEW b \in BodyType
    PROVE  LET u == Deleted(b)
           IN  /\ u \in BodyType
               /\ u.life = "deleted" /\ ~u.lock /\ (u.triggered <=> b.triggered) /\ u.ref = 0
               /\ u.nomem
               /\ u.quorums = Nobody /\ u.coroutines = {} /\ u.members = Nobody /\ u.count = 0
BY NobodyFacts DEF Deleted, Fresh, BodyType

LEMMA RefsFacts ==
    ASSUME NEW b \in BodyType, NEW n \in Nat
    PROVE  LET u == Refs(b, n)
           IN  /\ u \in BodyType
               /\ u.life = b.life /\ (u.lock <=> b.lock) /\ (u.triggered <=> b.triggered)
               /\ u.ref = b.ref + n /\ (u.nomem <=> b.nomem)
               /\ u.quorums = b.quorums /\ u.coroutines = b.coroutines
               /\ u.members = b.members /\ u.count = b.count
BY DEF Refs, BodyType

LEMMA ReferencedFacts ==
    ASSUME NEW b \in BodyType, NEW x
    PROVE  LET u == Referenced(b, x)
           IN  /\ u \in BodyType
               /\ u.life = b.life /\ (u.lock <=> b.lock) /\ (u.triggered <=> b.triggered)
               /\ u.ref = b.ref + (IF x \in Quorums THEN 1 ELSE 0) /\ (u.nomem <=> b.nomem)
               /\ u.quorums = b.quorums /\ u.coroutines = b.coroutines
               /\ u.members = b.members /\ u.count = b.count
BY RefsFacts DEF Referenced

LEMMA CountedFacts ==
    ASSUME NEW b \in BodyType
    PROVE  LET u == Counted(b)
           IN  /\ u \in BodyType
               /\ u.life = b.life /\ (u.lock <=> b.lock) /\ (u.triggered <=> b.triggered)
               /\ u.ref = b.ref /\ (u.nomem <=> b.nomem)
               /\ u.quorums = b.quorums /\ u.coroutines = b.coroutines
               /\ u.members = b.members /\ u.count = b.count + 1
BY DEF Counted, BodyType

LEMMA LostFacts ==
    ASSUME NEW b \in BodyType, NEW x \in Bodies
    PROVE  LET u == Lost(b, x)
           IN  /\ u \in BodyType
               /\ u.life = b.life /\ (u.lock <=> b.lock) /\ (u.triggered <=> b.triggered)
               /\ u.ref = b.ref /\ (u.nomem <=> b.nomem)
               /\ u.quorums = b.quorums /\ u.coroutines = b.coroutines
               /\ u.members = Dec(b.members, x) /\ u.count = b.count
<1>1. b.members \in [Bodies -> Nat]
  BY DEF BodyType
<1>2. Dec(b.members, x) \in [Bodies -> Nat]
  BY <1>1, BagFacts
<1> QED
  BY <1>2 DEF Lost, BodyType

LEMMA WithoutFacts ==
    ASSUME NEW b \in BodyType, NEW q \in Bodies
    PROVE  LET u == Without(b, q)
           IN  /\ u \in BodyType
               /\ u.life = b.life /\ ~u.lock /\ (u.triggered <=> b.triggered) /\ u.ref = b.ref
               /\ u.nomem <=> b.members = Nobody
               /\ u.quorums = Dec(b.quorums, q) /\ u.coroutines = b.coroutines
               /\ u.members = b.members /\ u.count = b.count
<1> DEFINE d == [b EXCEPT !.quorums = Dec(b.quorums, q)]
<1>1. b.quorums \in [Bodies -> Nat]
  BY DEF BodyType
<1>2. Dec(b.quorums, q) \in [Bodies -> Nat]
  BY <1>1, BagFacts
<1>3. /\ d \in BodyType
      /\ d.life = b.life /\ (d.triggered <=> b.triggered) /\ d.ref = b.ref
      /\ d.quorums = Dec(b.quorums, q) /\ d.coroutines = b.coroutines
      /\ d.members = b.members /\ d.count = b.count
  BY <1>2 DEF BodyType
<1> HIDE DEF d
<1> QED
  BY <1>3, UnlockedFacts DEF Without, d

LEMMA WithFacts ==
    ASSUME NEW b \in BodyType, NEW q \in Bodies
    PROVE  LET u == With(b, q)
           IN  /\ u \in BodyType
               /\ u.life = b.life /\ ~u.lock /\ (u.triggered <=> b.triggered) /\ u.ref = b.ref
               /\ u.nomem <=> b.members = Nobody
               /\ u.quorums = Inc(b.quorums, q) /\ u.coroutines = b.coroutines
               /\ u.members = b.members /\ u.count = b.count
<1> DEFINE d == [b EXCEPT !.quorums = Inc(b.quorums, q)]
<1>1. b.quorums \in [Bodies -> Nat]
  BY DEF BodyType
<1>2. Inc(b.quorums, q) \in [Bodies -> Nat]
  BY <1>1, BagFacts
<1>3. /\ d \in BodyType
      /\ d.life = b.life /\ (d.triggered <=> b.triggered) /\ d.ref = b.ref
      /\ d.quorums = Inc(b.quorums, q) /\ d.coroutines = b.coroutines
      /\ d.members = b.members /\ d.count = b.count
  BY <1>2 DEF BodyType
<1> HIDE DEF d
<1> QED
  BY <1>3, UnlockedFacts DEF With, d

-----------------------------------------------------------------------------
(* Lemmas about the stacks. *)

LEMMA FrameFacts ==
    ASSUME NEW op \in Ops, NEW x \in Bodies, NEW src \in Bodies \union {None},
           NEW left \in [Bodies -> Nat], NEW drv \in BOOLEAN
    PROVE  LET f == Frame(op, x, src, left, drv)
           IN  /\ f \in FrameType /\ f.op = op /\ f.on = x /\ f.src = src /\ f.left = left
               /\ (f.drv <=> drv)
BY DEF Frame, FrameType

LEMMA CallFacts ==
    ASSUME NEW op \in Ops, NEW x \in Bodies
    PROVE  LET f == Call(op, x)
           IN  f \in FrameType /\ f.op = op /\ f.on = x /\ f.left = Nobody /\ ~f.drv
BY NobodyFacts DEF Call, Frame, FrameType

LEMMA ReleaseFacts ==
    ASSUME NEW x \in Bodies
    PROVE  LET f == Release(x)
           IN  /\ f \in FrameType /\ f.on = x /\ f.left = Nobody /\ ~f.drv
               /\ f.op = IF x \in Quorums THEN "drop" ELSE "deref"
               /\ Counts(f)
BY CallFacts DEF Release, Ops, Counts

LEMMA VisitedFacts ==
    ASSUME NEW f \in FrameType, NEW x \in Bodies
    PROVE  LET v == Visited(f, x)
           IN  /\ v \in FrameType /\ v.op = f.op /\ v.on = f.on /\ v.src = f.src
               /\ (v.drv <=> f.drv) /\ v.left = Dec(f.left, x)
<1>1. f.left \in [Bodies -> Nat]
  BY DEF FrameType
<1>2. Dec(f.left, x) \in [Bodies -> Nat]
  BY <1>1, BagFacts
<1> QED
  BY <1>2 DEF Visited, FrameType

\* Thread t keeps b calls and goes on with the calls of new.
Onto(t, b, new) ==
    /\ stack' \in [Threads -> Seq(FrameType)]
    /\ \A u \in Threads : u # t => stack'[u] = stack[u]
    /\ Len(stack'[t]) = b + Len(new)
    /\ \A k \in 1..b : stack'[t][k] = stack[t][k]
    /\ \A j \in 1..Len(new) : stack'[t][b + j] = new[j]

LEMMA FrontFacts ==
    ASSUME NEW S, NEW s \in Seq(S), s # << >>, NEW new \in Seq(S)
    PROVE  LET n == Len(s)
               r == Front(s) \o new
           IN  /\ n \in Nat \ {0} /\ r \in Seq(S) /\ Len(r) = n - 1 + Len(new)
               /\ \A k \in 1..n - 1 : r[k] = s[k]
               /\ \A j \in 1..Len(new) : r[n - 1 + j] = new[j]
<1>1. PICK n \in Nat \ {0} : n = Len(s)
  BY EmptySeq
<1>2. \A k \in 1..n - 1 : s[k] \in S
  BY <1>1
<1>3. /\ Front(s) \in Seq(S) /\ Len(Front(s)) = n - 1
      /\ \A k \in 1..n - 1 : Front(s)[k] = s[k]
  <2>1. Front(s) = SubSeq(s, 1, n - 1)
    BY <1>1 DEF Front
  <2>2. /\ SubSeq(s, 1, n - 1) \in Seq(S)
        /\ Len(SubSeq(s, 1, n - 1)) = IF 1 <= n - 1 THEN n - 1 - 1 + 1 ELSE 0
        /\ \A i \in 1..n - 1 - 1 + 1 : SubSeq(s, 1, n - 1)[i] = s[1 + i - 1]
    BY <1>2, SubSeqProperties
  <2> QED
    BY <2>1, <2>2
<1>4. PICK f \in Seq(S) : f = Front(s)
  BY <1>3
<1>5. /\ f \o new \in Seq(S) /\ Len(f \o new) = Len(f) + Len(new)
      /\ \A i \in 1..Len(f) + Len(new) : (f \o new)[i] = IF i <= Len(f) THEN f[i] ELSE new[i - Len(f)]
  BY ConcatProperties
<1> QED
  BY <1>1, <1>3, <1>4, <1>5

LEMMA ReplaceFacts ==
    ASSUME TypeOK, NEW t \in Threads, ~Idle(t), NEW new \in Seq(FrameType), Replace(t, new)
    PROVE  Len(stack[t]) \in Nat \ {0} /\ Onto(t, Len(stack[t]) - 1, new)
<1>1. /\ stack[t] \in Seq(FrameType) /\ stack[t] # << >>
      /\ stack \in [Threads -> Seq(FrameType)]
  BY DEF TypeOK, Idle
<1>2. stack' = [stack EXCEPT ![t] = Front(stack[t]) \o new]
  BY DEF Replace
<1> QED
  BY <1>1, <1>2, FrontFacts, SMTT(60) DEF Onto

LEMMA BeginFacts ==
    ASSUME TypeOK, NEW t \in Threads, Idle(t), NEW f \in FrameType, Begin(t, f)
    PROVE  Len(stack[t]) = 0 /\ Onto(t, 0, <<f>>)
<1>1. stack \in [Threads -> Seq(FrameType)] /\ stack' = [stack EXCEPT ![t] = <<f>>]
  BY DEF TypeOK, Begin
<1> QED
  BY <1>1 DEF Onto, Idle

LEMMA LoopFacts ==
    ASSUME NEW f \in FrameType
    PROVE  Loop(f) \in Seq(FrameType)
           /\ (f.left = Nobody => Loop(f) = << >>) /\ (f.left # Nobody => Loop(f) = <<f>>)
BY DEF Loop

-----------------------------------------------------------------------------
(* Lemmas about the reference counts: what a step does to each kind. *)

HeldCount(x) == Cardinality(HeldRefs(x))
QueueCount(x) == Cardinality(QueueRefs(x))
AtCount(x) == Cardinality(AtRefs(x))
MemCount(x) == Cardinality(MemRefs(x))
CallCount(x) == Cardinality(CallRefs(x))

Finite(x) == /\ IsFiniteSet(HeldRefs(x)) /\ IsFiniteSet(QueueRefs(x)) /\ IsFiniteSet(AtRefs(x))
             /\ IsFiniteSet(MemRefs(x)) /\ IsFiniteSet(CallRefs(x))

LEMMA CountsNat ==
    ASSUME NEW x \in Bodies, Finite(x)
    PROVE  /\ HeldCount(x) \in Nat /\ QueueCount(x) \in Nat /\ AtCount(x) \in Nat
           /\ MemCount(x) \in Nat /\ CallCount(x) \in Nat
BY FS_CardinalityType DEF Finite, HeldCount, QueueCount, AtCount, MemCount, CallCount

LEMMA NonEmpty ==
    ASSUME NEW S, IsFiniteSet(S), NEW p \in S
    PROVE  Cardinality(S) \in Nat \ {0}
BY FS_CardinalityType, FS_EmptySet

LEMMA TwoElements ==
    ASSUME NEW S, IsFiniteSet(S), NEW p \in S, NEW q \in S, p # q
    PROVE  Cardinality(S) \in Nat /\ Cardinality(S) >= 2
<1>1. IsFiniteSet(S \ {p}) /\ Cardinality(S \ {p}) = Cardinality(S) - 1
  BY FS_RemoveElement
<1>2. Cardinality(S \ {p}) \in Nat \ {0} /\ Cardinality(S) \in Nat
  BY <1>1, NonEmpty, FS_CardinalityType
<1> QED
  BY <1>1, <1>2

LEMMA HeldInc ==
    ASSUME TypeOK, NEW t \in Threads, NEW x \in Bodies, held' = [held EXCEPT ![t] = Inc(held[t], x)],
           NEW y \in Bodies, IsFiniteSet(HeldRefs(y))
    PROVE  /\ IsFiniteSet(HeldRefs(y)')
           /\ HeldCount(y)' = HeldCount(y) + (IF x = y THEN 1 ELSE 0)
<1>1. held[t] \in [Bodies -> Nat] /\ held \in [Threads -> [Bodies -> Nat]]
  BY DEF TypeOK
<1>2. \A u \in Threads : held'[u][y] = IF u = t /\ x = y THEN held[u][y] + 1 ELSE held[u][y]
  BY <1>1, BagFacts
<1>3. CASE x = y
  <2> DEFINE p == <<t, held[t][y] + 1>>
  <2>1. p \notin HeldRefs(y)
    BY <1>1 DEF HeldRefs
  <2>2. HeldRefs(y)' = HeldRefs(y) \union {p}
    <3>1. ASSUME NEW u \in Threads, NEW i \in Nat
          PROVE  i \in 1..held'[u][y] <=> i \in 1..held[u][y] \/ (u = t /\ i = held[t][y] + 1)
      <4>1. held[u][y] \in Nat /\ held[t][y] \in Nat
        BY <1>1
      <4> QED
        BY <1>2, <1>3, <4>1
    <3>2. p \in Threads \X Nat
      BY <1>1
    <3> QED
      BY <3>1, <3>2 DEF HeldRefs
  <2> QED
    BY <2>1, <2>2, <1>3, FS_AddElement DEF HeldCount
<1>4. CASE x # y
  <2>1. HeldRefs(y)' = HeldRefs(y)
    BY <1>2, <1>4 DEF HeldRefs
  <2> QED
    BY <2>1, <1>4, FS_CardinalityType DEF HeldCount
<1> QED
  BY <1>3, <1>4

LEMMA HeldDec ==
    ASSUME TypeOK, NEW t \in Threads, NEW x \in Bodies, held[t][x] > 0,
           held' = [held EXCEPT ![t] = Dec(held[t], x)],
           NEW y \in Bodies, IsFiniteSet(HeldRefs(y))
    PROVE  /\ IsFiniteSet(HeldRefs(y)')
           /\ HeldCount(y)' = HeldCount(y) - (IF x = y THEN 1 ELSE 0)
<1>1. held[t] \in [Bodies -> Nat] /\ held \in [Threads -> [Bodies -> Nat]]
  BY DEF TypeOK
<1>2. \A u \in Threads : held'[u][y] = IF u = t /\ x = y THEN held[u][y] - 1 ELSE held[u][y]
  BY <1>1, BagFacts
<1>3. CASE x = y
  <2> DEFINE p == <<t, held[t][y]>>
  <2>1. p \in HeldRefs(y)
    BY <1>1, <1>3 DEF HeldRefs
  <2>2. HeldRefs(y)' = HeldRefs(y) \ {p}
    <3>1. ASSUME NEW u \in Threads, NEW i \in Nat
          PROVE  i \in 1..held'[u][y] <=> i \in 1..held[u][y] /\ (u # t \/ i # held[t][y])
      <4>1. held[u][y] \in Nat /\ held[t][y] \in Nat
        BY <1>1
      <4> QED
        BY <1>2, <1>3, <4>1
    <3> QED
      BY <3>1, <1>3 DEF HeldRefs
  <2> QED
    BY <2>1, <2>2, <1>3, FS_RemoveElement, ZenonT(60) DEF HeldCount
<1>4. CASE x # y
  <2>1. HeldRefs(y)' = HeldRefs(y)
    BY <1>2, <1>4 DEF HeldRefs
  <2> QED
    BY <2>1, <1>4, FS_CardinalityType DEF HeldCount
<1> QED
  BY <1>3, <1>4

\* The members of q become m, which has one x more.
LEMMA MemInc ==
    ASSUME TypeOK, NEW q \in Bodies, NEW x \in Bodies,
           \A z \in Bodies : body'[z].members = IF z = q THEN Inc(body[z].members, x) ELSE body[z].members,
           NEW y \in Bodies, IsFiniteSet(MemRefs(y))
    PROVE  /\ IsFiniteSet(MemRefs(y)')
           /\ MemCount(y)' = MemCount(y) + (IF x = y THEN 1 ELSE 0)
<1>1. \A z \in Bodies : body[z].members \in [Bodies -> Nat]
  BY DEF TypeOK, BodyType
<1>2. \A z \in Bodies : body'[z].members[y] = IF z = q /\ x = y THEN body[z].members[y] + 1 ELSE body[z].members[y]
  BY <1>1, BagFacts
<1>3. CASE x = y
  <2> DEFINE p == <<q, body[q].members[y] + 1>>
  <2>1. p \notin MemRefs(y)
    BY <1>1 DEF MemRefs
  <2>2. MemRefs(y)' = MemRefs(y) \union {p}
    <3>1. ASSUME NEW u \in Bodies, NEW i \in Nat
          PROVE  i \in 1..body'[u].members[y] <=> i \in 1..body[u].members[y] \/ (u = q /\ i = body[q].members[y] + 1)
      <4>1. body[u].members[y] \in Nat /\ body[q].members[y] \in Nat
        BY <1>1
      <4> QED
        BY <1>2, <1>3, <4>1
    <3>2. p \in Bodies \X Nat
      BY <1>1
    <3> QED
      BY <3>1, <3>2 DEF MemRefs
  <2> QED
    BY <2>1, <2>2, <1>3, FS_AddElement DEF MemCount
<1>4. CASE x # y
  <2>1. MemRefs(y)' = MemRefs(y)
    BY <1>2, <1>4 DEF MemRefs
  <2> QED
    BY <2>1, <1>4, FS_CardinalityType DEF MemCount
<1> QED
  BY <1>3, <1>4

LEMMA MemDec ==
    ASSUME TypeOK, NEW q \in Bodies, NEW x \in Bodies, body[q].members[x] > 0,
           \A z \in Bodies : body'[z].members = IF z = q THEN Dec(body[z].members, x) ELSE body[z].members,
           NEW y \in Bodies, IsFiniteSet(MemRefs(y))
    PROVE  /\ IsFiniteSet(MemRefs(y)')
           /\ MemCount(y)' = MemCount(y) - (IF x = y THEN 1 ELSE 0)
<1>1. \A z \in Bodies : body[z].members \in [Bodies -> Nat]
  BY DEF TypeOK, BodyType
<1>2. \A z \in Bodies : body'[z].members[y] = IF z = q /\ x = y THEN body[z].members[y] - 1 ELSE body[z].members[y]
  BY <1>1, BagFacts
<1>3. CASE x = y
  <2> DEFINE p == <<q, body[q].members[y]>>
  <2>1. p \in MemRefs(y)
    BY <1>1, <1>3 DEF MemRefs
  <2>2. MemRefs(y)' = MemRefs(y) \ {p}
    <3>1. ASSUME NEW u \in Bodies, NEW i \in Nat
          PROVE  i \in 1..body'[u].members[y] <=> i \in 1..body[u].members[y] /\ (u # q \/ i # body[q].members[y])
      <4>1. body[u].members[y] \in Nat /\ body[q].members[y] \in Nat
        BY <1>1
      <4> QED
        BY <1>2, <1>3, <4>1
    <3> QED
      BY <3>1 DEF MemRefs
  <2>3. /\ IsFiniteSet(MemRefs(y) \ {p})
        /\ Cardinality(MemRefs(y) \ {p}) = Cardinality(MemRefs(y)) - 1
    <3> HIDE DEF p
    <3> QED
      BY <2>1, FS_RemoveElement
  <2> QED
    BY <2>2, <2>3, <1>3 DEF MemCount
<1>4. CASE x # y
  <2>1. MemRefs(y)' = MemRefs(y)
    BY <1>2, <1>4 DEF MemRefs
  <2> QED
    BY <2>1, <1>4, FS_CardinalityType DEF MemCount
<1> QED
  BY <1>3, <1>4

LEMMA MemSame ==
    ASSUME \A z \in Bodies : body'[z].members = body[z].members, NEW y \in Bodies
    PROVE  MemRefs(y)' = MemRefs(y) /\ MemCount(y)' = MemCount(y)
BY DEF MemRefs, MemCount

\* S, with p if w is 1.
Added(S, p, w) == S \union {q \in {p} : w = 1}

LEMMA AddedFacts ==
    ASSUME NEW S, IsFiniteSet(S), NEW p, p \notin S, NEW w \in {0, 1}
    PROVE  /\ IsFiniteSet(Added(S, p, w)) /\ Cardinality(S) \in Nat
           /\ Cardinality(Added(S, p, w)) = Cardinality(S) + w
<1>1. Cardinality(S) \in Nat
  BY FS_CardinalityType
<1>2. CASE w = 1
  <2>1. Added(S, p, w) = S \union {p}
    BY <1>2 DEF Added
  <2> QED
    BY <1>1, <1>2, <2>1, FS_AddElement
<1>3. CASE w = 0
  <2>1. Added(S, p, w) = S
    BY <1>3 DEF Added
  <2> QED
    BY <1>1, <1>3, <2>1
<1> QED
  BY <1>2, <1>3

\* What the i-th of some calls adds to the references to x.
Weight(calls, i, x) ==
    IF i \in 1..Len(calls) /\ Counts(calls[i]) /\ calls[i].on = x THEN 1 ELSE 0

LEMMA CallStep ==
    ASSUME TypeOK, NEW t \in Threads, NEW b \in Nat, NEW new \in Seq(FrameType), Onto(t, b, new),
           Len(stack[t]) \in {b, b + 1}, Len(new) <= 3,
           NEW x \in Bodies, IsFiniteSet(CallRefs(x))
    PROVE  /\ IsFiniteSet(CallRefs(x)')
           /\ CallCount(x)' = CallCount(x) - Weight(stack[t], b + 1, x)
                              + Weight(new, 1, x) + Weight(new, 2, x) + Weight(new, 3, x)
<1> DEFINE Kept == CallRefs(x) \ {<<t, b + 1>>}
<1>1. stack[t] \in Seq(FrameType) /\ Len(stack[t]) \in Nat /\ Len(new) \in Nat
  BY DEF TypeOK
<1>2. /\ IsFiniteSet(Kept)
      /\ Cardinality(Kept) = CallCount(x) - Weight(stack[t], b + 1, x)
  <2>1. <<t, b + 1>> \in CallRefs(x) <=> Weight(stack[t], b + 1, x) = 1
    BY <1>1 DEF CallRefs, Weight
  <2>2. Weight(stack[t], b + 1, x) \in {0, 1} /\ CallCount(x) \in Nat
    BY FS_CardinalityType DEF Weight, CallCount
  <2>3. /\ IsFiniteSet(Kept)
        /\ Cardinality(Kept) = IF <<t, b + 1>> \in CallRefs(x) THEN CallCount(x) - 1 ELSE CallCount(x)
    BY FS_RemoveElement DEF CallCount
  <2> QED
    BY <2>1, <2>2, <2>3
<1>3. \A j \in 1..3 : Weight(new, j, x) \in {0, 1}
  BY DEF Weight
<1>4. \A j \in 1..3 : <<t, b + j>> \notin Kept
  BY <1>1 DEF CallRefs
<1>5. PICK K0 : K0 = Kept /\ IsFiniteSet(K0) /\ Cardinality(K0) = CallCount(x) - Weight(stack[t], b + 1, x)
  BY <1>2
<1>6. PICK K1 : /\ K1 = Added(K0, <<t, b + 1>>, Weight(new, 1, x))
                /\ IsFiniteSet(K1) /\ Cardinality(K0) \in Nat
                /\ Cardinality(K1) = Cardinality(K0) + Weight(new, 1, x)
  <2>1. <<t, b + 1>> \notin K0
    BY <1>4, <1>5 DEF Added
  <2> QED
    BY <2>1, <1>3, <1>5, AddedFacts
<1>7. PICK K2 : /\ K2 = Added(K1, <<t, b + 2>>, Weight(new, 2, x))
                /\ IsFiniteSet(K2) /\ Cardinality(K1) \in Nat
                /\ Cardinality(K2) = Cardinality(K1) + Weight(new, 2, x)
  <2>1. <<t, b + 2>> \notin K1
    BY <1>4, <1>5, <1>6 DEF Added
  <2> QED
    BY <2>1, <1>3, <1>6, AddedFacts
<1>8. PICK K3 : /\ K3 = Added(K2, <<t, b + 3>>, Weight(new, 3, x))
                /\ IsFiniteSet(K3) /\ Cardinality(K2) \in Nat
                /\ Cardinality(K3) = Cardinality(K2) + Weight(new, 3, x)
  <2>1. <<t, b + 3>> \notin K2
    BY <1>4, <1>5, <1>6, <1>7 DEF Added
  <2> QED
    BY <2>1, <1>3, <1>7, AddedFacts
<1>9. \A u, k : <<u, k>> \in K3 <=>
         <<u, k>> \in Kept \/ \E j \in 1..3 : Weight(new, j, x) = 1 /\ u = t /\ k = b + j
  BY <1>5, <1>6, <1>7, <1>8 DEF Added
<1>11. CallRefs(x)' = K3
  <2>1. ASSUME NEW u \in Threads, NEW k \in Nat
        PROVE  <<u, k>> \in CallRefs(x)' <=> <<u, k>> \in K3
    <3>1. CASE u # t
      BY <3>1, <1>9 DEF CallRefs, Onto
    <3>2. CASE u = t /\ k <= b
      <4>1. b <= Len(stack[t]) /\ b <= Len(stack'[t]) /\ k # b + 1
        BY <3>2, <1>1 DEF Onto
      <4>2. <<u, k>> \in K3 <=> <<u, k>> \in CallRefs(x)
        BY <3>2, <4>1, <1>1, <1>9
      <4> QED
        BY <3>2, <4>1, <4>2, <1>1, SMTT(60) DEF CallRefs, Onto
    <3>3. CASE u = t /\ k > b /\ k - b \in 1..Len(new)
      <4>1. PICK j \in 1..3 : k = b + j /\ j \in 1..Len(new)
        BY <3>3, <1>1
      <4>2. stack'[t][k] = new[j] /\ k \in 1..Len(stack'[t])
        BY <4>1, <1>1 DEF Onto
      <4>3. <<u, k>> \in CallRefs(x)' <=> Weight(new, j, x) = 1
        BY <4>1, <4>2, <3>3 DEF CallRefs, Weight
      <4>4. <<u, k>> \in K3 <=> Weight(new, j, x) = 1
        BY <4>1, <3>3, <1>4, <1>9
      <4> QED
        BY <4>3, <4>4
    <3>4. CASE u = t /\ k > b + Len(new)
      <4>1. <<u, k>> \notin CallRefs(x)'
        BY <3>4, <1>1 DEF CallRefs, Onto
      <4>2. \A j \in 1..3 : Weight(new, j, x) = 1 => b + j # k
        BY <3>4, <1>1 DEF Weight
      <4>3. <<u, k>> \notin Kept
        BY <3>4, <1>1 DEF CallRefs
      <4> QED
        BY <4>1, <4>2, <4>3, <1>9
    <3> QED
      BY <3>1, <3>2, <3>3, <3>4, <1>1
  <2>2. CallRefs(x)' \subseteq Threads \X Nat /\ K3 \subseteq Threads \X Nat
    <3>1. K0 \subseteq Threads \X Nat
      BY <1>5 DEF CallRefs
    <3>2. \A j \in 1..3 : <<t, b + j>> \in Threads \X Nat
      OBVIOUS
    <3> QED
      BY <3>1, <3>2, <1>6, <1>7, <1>8, SMTT(60) DEF CallRefs, Added
  <2> QED
    BY <2>1, <2>2
<1> HIDE DEF Kept
<1> QED
  BY <1>3, <1>5, <1>6, <1>7, <1>8, <1>11 DEF CallCount

LEMMA SamePairs ==
    ASSUME NEW S, NEW T, NEW A \in SUBSET (S \X T), NEW B \in SUBSET (S \X T),
           \A u \in S, i \in T : <<u, i>> \in A <=> <<u, i>> \in B
    PROVE  A = B
<1>1. ASSUME NEW p \in S \X T
      PROVE  p \in A <=> p \in B
  <2>1. PICK u \in S, i \in T : p = <<u, i>>
    OBVIOUS
  <2> QED
    BY <2>1
<1> QED
  BY <1>1

LEMMA QueueAppend ==
    ASSUME TypeOK, NEW t \in Threads, NEW x \in Bodies,
           queue' = [queue EXCEPT ![t] = Append(queue[t], x)],
           NEW y \in Bodies, IsFiniteSet(QueueRefs(y))
    PROVE  /\ IsFiniteSet(QueueRefs(y)')
           /\ QueueCount(y)' = QueueCount(y) + (IF x = y THEN 1 ELSE 0)
<1> DEFINE p == <<t, Len(queue[t]) + 1>>
<1>1. queue \in [Threads -> Seq(Bodies)] /\ queue[t] \in Seq(Bodies) /\ Len(queue[t]) \in Nat
  BY DEF TypeOK
<1>2. /\ \A u \in Threads : u # t => queue'[u] = queue[u]
      /\ Len(queue'[t]) = Len(queue[t]) + 1 /\ queue'[t][Len(queue[t]) + 1] = x
      /\ \A i \in 1..Len(queue[t]) : queue'[t][i] = queue[t][i]
  <2>1. queue'[t] = Append(queue[t], x) /\ \A u \in Threads : u # t => queue'[u] = queue[u]
    BY <1>1
  <2> QED
    BY <1>1, <2>1, AppendProperties
<1>3. p \notin QueueRefs(y) /\ p \in Threads \X Nat
  BY <1>1 DEF QueueRefs
<1>4. \A u \in Threads, i \in Nat :
         <<u, i>> \in QueueRefs(y)' <=> <<u, i>> \in QueueRefs(y) \/ (x = y /\ u = t /\ i = Len(queue[t]) + 1)
  BY <1>1, <1>2 DEF QueueRefs
<1>5. QueueRefs(y) \subseteq Threads \X Nat /\ QueueRefs(y)' \subseteq Threads \X Nat
  BY DEF QueueRefs
<1>6. CASE x = y
  <2>1. QueueRefs(y)' = QueueRefs(y) \union {p}
    BY <1>3, <1>4, <1>5, <1>6
  <2> HIDE DEF p
  <2> QED
    BY <1>3, <1>6, <2>1, FS_AddElement DEF QueueCount
<1>7. CASE x # y
  <2>1. QueueRefs(y)' = QueueRefs(y)
    BY <1>4, <1>5, <1>7
  <2> QED
    BY <1>7, <2>1, FS_CardinalityType DEF QueueCount
<1> QED
  BY <1>6, <1>7

LEMMA QueuePost ==
    ASSUME TypeOK, NEW D \in SUBSET Threads, IsFiniteSet(D), NEW x \in Bodies,
           queue' = [d \in Threads |-> IF d \in D THEN Append(queue[d], x) ELSE queue[d]],
           NEW y \in Bodies, IsFiniteSet(QueueRefs(y))
    PROVE  /\ IsFiniteSet(QueueRefs(y)')
           /\ QueueCount(y)' = QueueCount(y) + (IF x = y THEN Cardinality(D) ELSE 0)
<1> DEFINE f == [d \in D |-> <<d, Len(queue[d]) + 1>>]
           N == {<<d, Len(queue[d]) + 1>> : d \in D}
<1>1. /\ queue \in [Threads -> Seq(Bodies)]
      /\ \A d \in Threads : queue[d] \in Seq(Bodies) /\ Len(queue[d]) \in Nat
  BY DEF TypeOK
<1>2. /\ \A d \in Threads : d \notin D => queue'[d] = queue[d]
      /\ \A d \in D : /\ Len(queue'[d]) = Len(queue[d]) + 1 /\ queue'[d][Len(queue[d]) + 1] = x
                      /\ \A i \in 1..Len(queue[d]) : queue'[d][i] = queue[d][i]
  <2>1. /\ \A d \in Threads : d \notin D => queue'[d] = queue[d]
        /\ \A d \in D : queue'[d] = Append(queue[d], x)
    OBVIOUS
  <2> QED
    BY <1>1, <2>1, AppendProperties
<1>3. \A u \in Threads, i \in Nat :
         <<u, i>> \in QueueRefs(y)' <=> <<u, i>> \in QueueRefs(y) \/ (x = y /\ u \in D /\ i = Len(queue[u]) + 1)
  BY <1>1, <1>2 DEF QueueRefs
<1>4. QueueRefs(y) \subseteq Threads \X Nat /\ QueueRefs(y)' \subseteq Threads \X Nat
  BY DEF QueueRefs
<1>5. CASE x = y
  <2>1. f \in Bijection(D, N)
    <3>1. f \in [D -> N] /\ \A a, b \in D : f[a] = f[b] => a = b
      OBVIOUS
    <3>2. \A r \in N : \E d \in D : f[d] = r
      OBVIOUS
    <3> QED
      BY <3>1, <3>2 DEF Bijection, Injection, Surjection, IsInjective
  <2>2. IsFiniteSet(N) /\ Cardinality(N) = Cardinality(D)
    BY <2>1, FS_Bijection DEF ExistsBijection
  <2>3. N \intersect QueueRefs(y) = {} /\ N \subseteq Threads \X Nat
    BY <1>1 DEF QueueRefs
  <2>4. QueueRefs(y)' = QueueRefs(y) \union N
    <3>1. \A u \in Threads, i \in Nat : <<u, i>> \in N <=> u \in D /\ i = Len(queue[u]) + 1
      OBVIOUS
    <3> HIDE DEF N
    <3> QED
      BY <1>3, <1>4, <1>5, <2>3, <3>1
  <2>5. /\ IsFiniteSet(QueueRefs(y) \union N)
        /\ Cardinality(QueueRefs(y) \union N) = Cardinality(QueueRefs(y)) + Cardinality(N) - Cardinality({})
    <3>1. PICK M : M = N
      OBVIOUS
    <3>2. IsFiniteSet(M) /\ M \intersect QueueRefs(y) = {}
      BY <2>2, <2>3, <3>1
    <3>3. QueueRefs(y) \intersect M = {}
      BY <3>2
    <3>4. /\ IsFiniteSet(QueueRefs(y) \union M)
          /\ Cardinality(QueueRefs(y) \union M)
                = Cardinality(QueueRefs(y)) + Cardinality(M) - Cardinality(QueueRefs(y) \intersect M)
      BY <3>2, FS_Union
    <3> QED
      BY <3>1, <3>3, <3>4
  <2> HIDE DEF N
  <2>6. Cardinality(QueueRefs(y)) \in Nat /\ Cardinality(D) \in Nat
    BY FS_CardinalityType
  <2> QED
    BY <1>5, <2>2, <2>4, <2>5, <2>6, FS_EmptySet DEF QueueCount
<1>6. CASE x # y
  <2>1. PICK A \in SUBSET (Threads \X Nat) : A = QueueRefs(y)
    BY <1>4
  <2>2. PICK B \in SUBSET (Threads \X Nat) : B = QueueRefs(y)'
    BY <1>4
  <2>3. \A u \in Threads, i \in Nat : <<u, i>> \in A <=> <<u, i>> \in B
    BY <1>3, <1>6, <2>1, <2>2
  <2>4. A = B
    BY <2>3, SamePairs
  <2> QED
    BY <1>6, <2>1, <2>2, <2>4, FS_CardinalityType DEF QueueCount
<1> QED
  BY <1>5, <1>6

LEMMA QueueTail ==
    ASSUME TypeOK, NEW t \in Threads, queue[t] # << >>, queue' = [queue EXCEPT ![t] = Tail(queue[t])],
           NEW y \in Bodies, IsFiniteSet(QueueRefs(y))
    PROVE  /\ IsFiniteSet(QueueRefs(y)')
           /\ QueueCount(y)' = QueueCount(y) - (IF Head(queue[t]) = y THEN 1 ELSE 0)
<1>0a. PICK A : A = QueueRefs(y)
  OBVIOUS
<1>0b. PICK B : B = QueueRefs(y)'
  OBVIOUS
<1> DEFINE S == A \ {<<t, 1>>}
           f == [p \in B |-> IF p[1] = t THEN <<t, p[2] + 1>> ELSE p]
<1>1. /\ queue \in [Threads -> Seq(Bodies)] /\ queue[t] \in Seq(Bodies)
      /\ Len(queue[t]) \in Nat \ {0} /\ Head(queue[t]) = queue[t][1]
  BY DEF TypeOK
<1>2. /\ \A u \in Threads : u # t => queue'[u] = queue[u]
      /\ Len(queue'[t]) = Len(queue[t]) - 1
      /\ \A i \in 1..Len(queue[t]) - 1 : queue'[t][i] = queue[t][i + 1]
  <2>1. queue'[t] = Tail(queue[t]) /\ \A u \in Threads : u # t => queue'[u] = queue[u]
    BY <1>1
  <2> QED
    BY <1>1, <2>1, HeadTailProperties
<1>3. A \subseteq Threads \X Nat /\ B \subseteq Threads \X Nat
  BY <1>0a, <1>0b DEF QueueRefs
<1>4. \A u \in Threads, i \in Nat :
         /\ u = t => (<<u, i>> \in B <=> <<u, i + 1>> \in A /\ i > 0)
         /\ u # t => (<<u, i>> \in B <=> <<u, i>> \in A)
  BY <1>0a, <1>0b, <1>1, <1>2 DEF QueueRefs
<1>5. <<t, 0>> \notin A
  BY <1>0a, <1>0b DEF QueueRefs
<1>6. f \in Bijection(B, S)
  <2>1. \A u \in Threads, i \in Nat :
           <<u, i>> \in B => f[<<u, i>>] = IF u = t THEN <<t, i + 1>> ELSE <<u, i>>
    OBVIOUS
  <2>2. ASSUME NEW p \in B PROVE f[p] \in S
    <3>1. PICK u \in Threads : \E i \in Nat : p = <<u, i>>
      BY <1>3
    <3>2. PICK i \in Nat : p = <<u, i>>
      BY <3>1
    <3>3. f[p] = IF u = t THEN <<t, i + 1>> ELSE <<u, i>>
      BY <2>1, <3>2
    <3>4. u = t => i # 0
      BY <1>0b, <3>2 DEF QueueRefs
    <3>5. f[p] \in A /\ f[p] # <<t, 1>>
      <4> HIDE DEF f
      <4>1. CASE u = t
        BY <1>4, <3>2, <3>3, <3>4, <4>1
      <4>2. CASE u # t
        <5>1. f[p] = <<u, i>> /\ <<u, i>> # <<t, 1>>
          BY <2>1, <3>2, <4>2
        <5>2. <<u, i>> \in A
          BY <1>4, <3>2, <4>2
        <5> QED
          BY <5>1, <5>2
      <4> QED
        BY <4>1, <4>2
    <3> QED
      BY <3>5
  <2>3. \A p, q \in B : f[p] = f[q] => p = q
    BY <1>3, <2>1
  <2>4. ASSUME NEW r \in S PROVE \E p \in B : f[p] = r
    <3>1. PICK u \in Threads : \E i \in Nat : r = <<u, i>>
      BY <1>3
    <3>2. PICK i \in Nat : r = <<u, i>>
      BY <3>1
    <3>3. CASE u = t
      <4>1. i - 1 \in Nat /\ i - 1 + 1 = i /\ i - 1 > 0
        BY <1>5, <3>2, <3>3
      <4>2. <<t, i - 1>> \in B
        BY <1>4, <3>2, <3>3, <4>1
      <4> QED
        BY <2>1, <3>2, <3>3, <4>1, <4>2
    <3>4. CASE u # t
      BY <1>4, <2>1, <3>2, <3>4
    <3> QED
      BY <3>3, <3>4
  <2>5. f \in [B -> S]
    BY <2>2
  <2> QED
    BY <2>3, <2>4, <2>5 DEF Bijection, Injection, Surjection, IsInjective
<1>7. /\ IsFiniteSet(S)
      /\ Cardinality(S) = IF <<t, 1>> \in A THEN QueueCount(y) - 1 ELSE QueueCount(y)
  BY <1>0a, FS_RemoveElement DEF QueueCount
<1>8. IsFiniteSet(B) /\ QueueCount(y)' = Cardinality(S)
  <2>1. ExistsBijection(S, B)
    BY <1>6, Fun_ExistsBijSymmetric DEF ExistsBijection
  <2> QED
    BY <1>0b, <1>7, <2>1, FS_Bijection DEF QueueCount
<1>9. <<t, 1>> \in A <=> Head(queue[t]) = y
  BY <1>0a, <1>1 DEF QueueRefs
<1>10. QueueCount(y) \in Nat
  BY <1>0a, FS_CardinalityType DEF QueueCount
<1> QED
  BY <1>0b, <1>7, <1>8, <1>9, <1>10

LEMMA AtAdd ==
    ASSUME TypeOK, NEW c \in Coroutines, at[c] = None, NEW x \in Bodies, at' = [at EXCEPT ![c] = x],
           NEW y \in Bodies, IsFiniteSet(AtRefs(y))
    PROVE  /\ IsFiniteSet(AtRefs(y)')
           /\ AtCount(y)' = AtCount(y) + (IF x = y THEN 1 ELSE 0)
<1>1. y # None /\ \A d \in Coroutines : at'[d] = IF d = c THEN x ELSE at[d]
  BY QuorumAssumption DEF TypeOK
<1>2. c \notin AtRefs(y)
  BY <1>1 DEF AtRefs
<1>3. AtCount(y) \in Nat
  BY FS_CardinalityType DEF AtCount
<1>4. CASE x = y
  <2>1. AtRefs(y)' = AtRefs(y) \union {c}
    BY <1>1, <1>4 DEF AtRefs
  <2> QED
    BY <1>2, <1>4, <2>1, FS_AddElement DEF AtCount
<1>5. CASE x # y
  <2>1. AtRefs(y)' = AtRefs(y)
    BY <1>1, <1>5 DEF AtRefs
  <2> QED
    BY <1>3, <1>5, <2>1 DEF AtCount
<1> QED
  BY <1>4, <1>5

LEMMA AtRemove ==
    ASSUME TypeOK, NEW c \in Coroutines, at[c] # None, at' = [at EXCEPT ![c] = None],
           NEW y \in Bodies, IsFiniteSet(AtRefs(y))
    PROVE  /\ IsFiniteSet(AtRefs(y)')
           /\ AtCount(y)' = AtCount(y) - (IF at[c] = y THEN 1 ELSE 0)
<1>1. y # None /\ \A d \in Coroutines : at'[d] = IF d = c THEN None ELSE at[d]
  BY QuorumAssumption DEF TypeOK
<1>2. AtRefs(y)' = AtRefs(y) \ {c}
  BY <1>1 DEF AtRefs
<1>3. AtCount(y) \in Nat /\ (c \in AtRefs(y) <=> at[c] = y)
  BY FS_CardinalityType DEF AtCount, AtRefs
<1> QED
  BY <1>2, <1>3, FS_RemoveElement DEF AtCount

LEMMA SameRefs ==
    ASSUME NEW y
    PROVE  /\ held' = held => HeldRefs(y)' = HeldRefs(y) /\ HeldCount(y)' = HeldCount(y)
           /\ queue' = queue => QueueRefs(y)' = QueueRefs(y) /\ QueueCount(y)' = QueueCount(y)
           /\ at' = at => AtRefs(y)' = AtRefs(y) /\ AtCount(y)' = AtCount(y)
BY DEF HeldRefs, QueueRefs, AtRefs, HeldCount, QueueCount, AtCount

\* Who refers to x is counted in refcount_.
LEMMA Referrers ==
    ASSUME TypeOK, RefInv, NEW x \in Bodies
    PROVE  /\ HeldCount(x) \in Nat /\ QueueCount(x) \in Nat /\ AtCount(x) \in Nat
           /\ MemCount(x) \in Nat /\ CallCount(x) \in Nat
           /\ body[x].ref = HeldCount(x) + QueueCount(x) + AtCount(x) + MemCount(x) + CallCount(x)
           /\ \A t \in Threads : held[t][x] > 0 => HeldCount(x) >= 1
           /\ \A t, u \in Threads : held[t][x] > 0 /\ held[u][x] > 0 /\ t # u => HeldCount(x) >= 2
           /\ \A t \in Threads : \A i \in 1..Len(queue[t]) : queue[t][i] = x => QueueCount(x) >= 1
           /\ \A c \in Coroutines : at[c] = x => AtCount(x) >= 1
           /\ \A q \in Bodies : body[q].members[x] > 0 => MemCount(x) >= 1
           /\ \A t \in Threads : \A k \in 1..Len(stack[t]) :
                 Counts(stack[t][k]) /\ stack[t][k].on = x => CallCount(x) >= 1
           /\ \A t, u \in Threads : \A k \in 1..Len(stack[t]) : \A j \in 1..Len(stack[u]) :
                 Counts(stack[t][k]) /\ stack[t][k].on = x /\ Counts(stack[u][j]) /\ stack[u][j].on = x
                    /\ (t # u \/ k # j) => CallCount(x) >= 2
<1>1. Finite(x) /\ body[x].ref = HeldCount(x) + QueueCount(x) + AtCount(x) + MemCount(x) + CallCount(x)
  BY DEF RefInv, Finite, HeldCount, QueueCount, AtCount, MemCount, CallCount
<1>2. /\ HeldCount(x) \in Nat /\ QueueCount(x) \in Nat /\ AtCount(x) \in Nat
      /\ MemCount(x) \in Nat /\ CallCount(x) \in Nat
  BY <1>1, CountsNat
<1>3. ASSUME NEW t \in Threads, held[t][x] > 0
      PROVE  <<t, 1>> \in HeldRefs(x) /\ HeldCount(x) >= 1
  <2>1. held[t][x] \in Nat
    BY DEF TypeOK
  <2>2. <<t, 1>> \in HeldRefs(x)
    BY <1>3, <2>1 DEF HeldRefs
  <2> QED
    BY <1>1, <2>2, NonEmpty DEF Finite, HeldCount
<1>4. ASSUME NEW t \in Threads, NEW u \in Threads, held[t][x] > 0, held[u][x] > 0, t # u
      PROVE  HeldCount(x) >= 2
  <2>1. <<t, 1>> \in HeldRefs(x) /\ <<u, 1>> \in HeldRefs(x) /\ <<t, 1>> # <<u, 1>>
    BY <1>3, <1>4
  <2> QED
    BY <1>1, <2>1, TwoElements DEF Finite, HeldCount
<1>5. ASSUME NEW t \in Threads, NEW i \in 1..Len(queue[t]), queue[t][i] = x
      PROVE  QueueCount(x) >= 1
  <2>1. Len(queue[t]) \in Nat
    BY DEF TypeOK
  <2>2. <<t, i>> \in QueueRefs(x)
    BY <1>5, <2>1 DEF QueueRefs
  <2> QED
    BY <1>1, <2>2, NonEmpty DEF Finite, QueueCount
<1>6. ASSUME NEW c \in Coroutines, at[c] = x
      PROVE  AtCount(x) >= 1
  <2>1. c \in AtRefs(x)
    BY <1>6 DEF AtRefs
  <2> QED
    BY <1>1, <2>1, NonEmpty DEF Finite, AtCount
<1>7. ASSUME NEW q \in Bodies, body[q].members[x] > 0
      PROVE  MemCount(x) >= 1
  <2>1. body[q].members[x] \in Nat
    BY DEF TypeOK, BodyType
  <2>2. <<q, 1>> \in MemRefs(x)
    BY <1>7, <2>1 DEF MemRefs
  <2> QED
    BY <1>1, <2>2, NonEmpty DEF Finite, MemCount
<1>8. ASSUME NEW t \in Threads, NEW k \in 1..Len(stack[t]), Counts(stack[t][k]), stack[t][k].on = x
      PROVE  <<t, k>> \in CallRefs(x) /\ CallCount(x) >= 1
  <2>1. Len(stack[t]) \in Nat
    BY DEF TypeOK
  <2>2. <<t, k>> \in CallRefs(x)
    BY <1>8, <2>1 DEF CallRefs
  <2> QED
    BY <1>1, <2>2, NonEmpty DEF Finite, CallCount
<1>9. ASSUME NEW t \in Threads, NEW u \in Threads,
             NEW k \in 1..Len(stack[t]), NEW j \in 1..Len(stack[u]),
             Counts(stack[t][k]), stack[t][k].on = x,
             Counts(stack[u][j]), stack[u][j].on = x, t # u \/ k # j
      PROVE  CallCount(x) >= 2
  <2>1. <<t, k>> \in CallRefs(x) /\ <<u, j>> \in CallRefs(x) /\ <<t, k>> # <<u, j>>
    BY <1>8, <1>9
  <2> QED
    BY <1>1, <2>1, TwoElements DEF Finite, CallCount
<1>10. /\ \A t \in Threads : held[t][x] > 0 => HeldCount(x) >= 1
       /\ \A t, u \in Threads : held[t][x] > 0 /\ held[u][x] > 0 /\ t # u => HeldCount(x) >= 2
  BY <1>3, <1>4
<1>11. \A t \in Threads : \A i \in 1..Len(queue[t]) : queue[t][i] = x => QueueCount(x) >= 1
  BY <1>5
<1>12. /\ \A c \in Coroutines : at[c] = x => AtCount(x) >= 1
       /\ \A q \in Bodies : body[q].members[x] > 0 => MemCount(x) >= 1
  BY <1>6, <1>7
<1>13. \A t \in Threads : \A k \in 1..Len(stack[t]) :
          Counts(stack[t][k]) /\ stack[t][k].on = x => CallCount(x) >= 1
  BY <1>8
<1>14. \A t, u \in Threads : \A k \in 1..Len(stack[t]) : \A j \in 1..Len(stack[u]) :
          Counts(stack[t][k]) /\ stack[t][k].on = x /\ Counts(stack[u][j]) /\ stack[u][j].on = x
             /\ (t # u \/ k # j) => CallCount(x) >= 2
  BY <1>9
<1> QED
  BY <1>1, <1>2, <1>10, <1>11, <1>12, <1>13, <1>14

-----------------------------------------------------------------------------
(* What every step does, and which part of the invariant follows from what.  A step *)
(* of t keeps b of its calls and goes on with the calls of new; what it did instead  *)
(* of is the call b + 1, if there is one.                                            *)

Moves(t, b, new) ==
    /\ b \in Nat /\ new \in Seq(FrameType) /\ Onto(t, b, new)
    /\ Len(stack[t]) = b + 1 \/ (b = 0 /\ Len(stack[t]) = 0)

Pops(t, b, op, x) == Len(stack[t]) = b + 1 /\ Is(t, b + 1, op, x)
PopsOwner(t, b, x) == Len(stack[t]) = b + 1 /\ Owns(t, b + 1, x)

LEMMA MovesFacts ==
    ASSUME TypeOK, NEW t \in Threads, NEW b, NEW new, Moves(t, b, new)
    PROVE  /\ \A u \in Threads : Len(stack[u]) \in Nat /\ Len(stack'[u]) \in Nat
           /\ Len(new) \in Nat /\ Len(stack'[t]) = b + Len(new)
           /\ \A u \in Threads : \A k \in 1..Len(stack[u]) : stack[u][k] \in FrameType
           /\ \A u \in Threads : \A k \in 1..Len(stack'[u]) :
                 stack'[u][k] \in FrameType /\ stack'[u][k].on \in Bodies
           /\ \A u \in Threads : \A k \in 1..Len(stack'[u]) :
                 \/ /\ k \in 1..Len(stack[u]) /\ stack'[u][k] = stack[u][k]
                    /\ u = t => k <= b
                 \/ /\ u = t /\ k - b \in 1..Len(new) /\ stack'[u][k] = new[k - b] /\ k = b + (k - b)
           /\ \A u \in Threads : \A k \in 1..Len(stack[u]) :
                 \/ k \in 1..Len(stack'[u]) /\ stack'[u][k] = stack[u][k] /\ (u = t => k <= b)
                 \/ u = t /\ k = b + 1 /\ Len(stack[t]) = b + 1
           /\ \A j \in 1..Len(new) : b + j \in 1..Len(stack'[t]) /\ stack'[t][b + j] = new[j]
<1>1. /\ b \in Nat /\ new \in Seq(FrameType) /\ Len(stack[t]) \in {b, b + 1}
      /\ stack' \in [Threads -> Seq(FrameType)]
      /\ \A u \in Threads : u # t => stack'[u] = stack[u]
      /\ Len(stack'[t]) = b + Len(new)
      /\ \A k \in 1..b : stack'[t][k] = stack[t][k]
      /\ \A j \in 1..Len(new) : stack'[t][b + j] = new[j]
  BY DEF Moves, Onto
<1>2. stack \in [Threads -> Seq(FrameType)]
  BY DEF TypeOK
<1>3. \A u \in Threads : Len(stack[u]) \in Nat /\ Len(stack'[u]) \in Nat /\ Len(new) \in Nat
  BY <1>1, <1>2
<1>4. /\ \A u \in Threads : \A k \in 1..Len(stack[u]) : stack[u][k] \in FrameType
      /\ \A u \in Threads : \A k \in 1..Len(stack'[u]) :
            stack'[u][k] \in FrameType /\ stack'[u][k].on \in Bodies
  <2>1. \A f \in FrameType : f.on \in Bodies
    BY DEF FrameType
  <2>2. \A u \in Threads : stack[u] \in Seq(FrameType) /\ stack'[u] \in Seq(FrameType)
    BY <1>1, <1>2
  <2> QED
    BY <2>1, <2>2, ElementOfSeq
<1>5. ASSUME NEW u \in Threads, NEW k \in 1..Len(stack'[u])
      PROVE  \/ /\ k \in 1..Len(stack[u]) /\ stack'[u][k] = stack[u][k]
                /\ u = t => k <= b
             \/ /\ u = t /\ k - b \in 1..Len(new) /\ stack'[u][k] = new[k - b] /\ k = b + (k - b)
  <2>1. CASE u # t
    BY <1>1, <2>1
  <2>2. CASE u = t /\ k <= b
    BY <1>1, <1>3, <2>2
  <2>3. CASE u = t /\ k > b
    <3>1. k - b \in 1..Len(new) /\ k = b + (k - b)
      BY <1>1, <1>3, <2>3
    <3> QED
      BY <1>1, <2>3, <3>1
  <2> QED
    BY <1>1, <1>3, <2>1, <2>2, <2>3
<1>6. ASSUME NEW u \in Threads, NEW k \in 1..Len(stack[u])
      PROVE  \/ k \in 1..Len(stack'[u]) /\ stack'[u][k] = stack[u][k] /\ (u = t => k <= b)
             \/ u = t /\ k = b + 1 /\ Len(stack[t]) = b + 1
  BY <1>1, <1>3
<1>7. \A j \in 1..Len(new) : b + j \in 1..Len(stack'[t]) /\ stack'[t][b + j] = new[j]
  BY <1>1, <1>3
<1> QED
  BY <1>1, <1>3, <1>4, <1>5, <1>6, <1>7

\* Where a call comes from.
LEMMA MovesOrigin ==
    ASSUME TypeOK, NEW t \in Threads, NEW b, NEW new, Moves(t, b, new)
    PROVE  \A u1 \in Threads : \A i \in 1..Len(stack'[u1]) :
             \/ /\ i \in 1..Len(stack[u1]) /\ stack'[u1][i] = stack[u1][i]
                /\ u1 = t => i <= b
             \/ /\ u1 = t /\ i - b \in 1..Len(new) /\ stack'[u1][i] = new[i - b] /\ i = b + (i - b)
BY MovesFacts

\* Nobody else is between hard_deref's decrement and its unlock().
LEMMA NoUnlock ==
    ASSUME TypeOK, ShapeInv, Prompt, NEW t \in Threads, Runs(t), NEW b, NEW new, Moves(t, b, new),
           Len(stack[t]) = b + 1 => stack[t][b + 1].op # "unlock"
    PROVE  \A u \in Threads : \A k \in 1..Len(stack[u]) : stack[u][k].op # "unlock"
<1>1. ASSUME NEW u \in Threads, NEW k \in 1..Len(stack[u]), stack[u][k].op = "unlock"
      PROVE  FALSE
  <2>1. CASE u # t
    BY <1>1, <2>1 DEF Runs, Frames
  <2>2. CASE u = t
    BY <1>1, <2>2 DEF ShapeInv, ShapeOK, Moves
  <2> QED
    BY <2>1, <2>2
<1> QED
  BY <1>1

LEMMA ShapeStep ==
    ASSUME TypeOK, ShapeInv, NEW t \in Threads, NEW b, NEW new, Moves(t, b, new),
           \A k \in 1..b : stack[t][k].op # "unlock",
           \A j \in 1..Len(new) : ShapeOK(t, b + j)'
    PROVE  ShapeInv'
<1>1. ASSUME NEW u \in Threads, NEW k \in 1..Len(stack'[u])
      PROVE  ShapeOK(u, k)'
  <2>1. CASE u # t
    <3>1. stack'[u] = stack[u]
      BY <2>1 DEF Moves, Onto
    <3>2. ShapeOK(u, k)
      BY <3>1 DEF ShapeInv
    <3> QED
      BY <3>1, <3>2 DEF ShapeOK, Is
  <2>2. CASE u = t /\ k <= b
    <3>1. k \in 1..Len(stack[t]) /\ Len(stack[t]) \in Nat
      BY <2>2, MovesFacts DEF Moves
    <3>2. ShapeOK(t, k) /\ stack[t][k].op # "unlock"
      BY <3>1, <2>2 DEF ShapeInv, Moves
    <3>3. /\ stack'[t][k] = stack[t][k] /\ stack'[t][1] = stack[t][1]
          /\ k > 1 => stack'[t][k - 1] = stack[t][k - 1]
      <4>1. b \in Nat /\ \A j \in 1..b : stack'[t][j] = stack[t][j]
        BY DEF Moves, Onto
      <4>2. 1 \in 1..b /\ k \in 1..b /\ (k > 1 => k - 1 \in 1..b)
        BY <2>2, <3>1, <4>1
      <4> QED
        BY <4>1, <4>2
    <3> QED
      BY <2>2, <3>2, <3>3 DEF ShapeOK, Is
  <2>3. CASE u = t /\ k > b
    <3>1. k - b \in 1..Len(new) /\ b + (k - b) = k
      <4>1. b \in Nat /\ Len(new) \in Nat /\ Len(stack'[t]) = b + Len(new)
        BY MovesFacts DEF Moves
      <4> QED
        BY <2>3, <4>1
    <3> QED
      BY <2>3, <3>1
  <2>4. k \in Nat /\ b \in Nat
    BY MovesFacts DEF Moves
  <2> QED
    BY <2>1, <2>2, <2>3, <2>4
<1> QED
  BY <1>1 DEF ShapeInv

\* Only an idle thread gives up handles.
HeldStep(t, b) ==
    \A u \in Threads : \A x \in Bodies : u # t \/ b >= 1 => held'[u][x] >= held[u][x]

LEMMA HandleStep ==
    ASSUME TypeOK, HandleInv, NEW t \in Threads, NEW b, NEW new, Moves(t, b, new), TypeOK',
           HeldStep(t, b), \A j \in 1..Len(new) : HandleOK(t, b + j)'
    PROVE  HandleInv'
<1>1. ASSUME NEW u \in Threads, NEW k \in 1..Len(stack'[u])
      PROVE  HandleOK(u, k)'
  <2>1. \A x \in Bodies : held[u][x] \in Nat /\ held'[u][x] \in Nat
    BY DEF TypeOK
  <2>2. CASE k \in 1..Len(stack[u]) /\ stack'[u][k] = stack[u][k] /\ (u = t => k <= b)
    <3>1. HandleOK(u, k)
      BY <2>2 DEF HandleInv
    <3>2. stack'[u][1] = stack[u][1]
      BY <2>2 DEF Moves, Onto
    <3>3. \A x \in Bodies : held'[u][x] >= held[u][x]
      BY <2>2 DEF HeldStep, Moves
    <3>4. stack[u][k].on \in Bodies
      BY <2>2, MovesFacts
    <3> QED
      BY <2>1, <2>2, <3>1, <3>2, <3>3, <3>4 DEF HandleOK, Secured, Is
  <2>3. CASE u = t /\ k - b \in 1..Len(new) /\ k = b + (k - b)
    BY <2>3
  <2> QED
    BY <2>2, <2>3, MovesFacts
<1> QED
  BY <1>1 DEF HandleInv

\* A lock is taken when nobody has it, and given up by whoever has it.
LockStep(t, b, new) ==
    /\ \A x \in Bodies :
          body'[x].lock <=> \/ \E j \in 1..Len(new) : new[j].op \in Owners /\ new[j].on = x
                            \/ body[x].lock /\ ~PopsOwner(t, b, x)
    /\ \A j \in 1..Len(new) : new[j].op \in Owners =>
          ~body[new[j].on].lock \/ PopsOwner(t, b, new[j].on)
    /\ \A i, j \in 1..Len(new) : new[i].op \in Owners /\ new[j].op \in Owners => i = j

LEMMA LockInvStep ==
    ASSUME TypeOK, LockInv, NEW t \in Threads, NEW b, NEW new, Moves(t, b, new), LockStep(t, b, new)
    PROVE  LockInv'
<1>1. \A u \in Threads : \A k \in 1..Len(stack[u]) :
         stack[u][k].op \in Owners => body[stack[u][k].on].lock
  BY DEF LockInv
<1>2. \A u, v \in Threads : \A k \in 1..Len(stack[u]) : \A j \in 1..Len(stack[v]) :
         \A x \in Bodies : Owns(u, k, x) /\ Owns(v, j, x) => u = v /\ k = j
  BY DEF LockInv
<1>3. \A x \in Bodies : body[x].lock => \E u \in Threads : \E k \in 1..Len(stack[u]) : Owns(u, k, x)
  BY DEF LockInv
<1>4. \A u \in Threads : \A k \in 1..Len(stack'[u]) : stack'[u][k].on \in Bodies
  BY MovesFacts
<1>5. b \in Nat
  BY DEF Moves
\* An old call that stays owns nothing that the popped one owns.
<1>6. ASSUME NEW u \in Threads, NEW k \in 1..Len(stack[u]), u = t => k <= b,
             NEW x \in Bodies, Owns(u, k, x)
      PROVE  body[x].lock /\ ~PopsOwner(t, b, x)
  <2>1. body[x].lock
    BY <1>1, <1>6 DEF Owns
  <2>2. ASSUME PopsOwner(t, b, x) PROVE FALSE
    <3>1. b + 1 \in 1..Len(stack[t]) /\ Owns(t, b + 1, x)
      BY <1>5, <2>2 DEF PopsOwner
    <3>2. u = t /\ k = b + 1
      BY <1>2, <1>6, <3>1
    <3> QED
      BY <1>5, <1>6, <3>2
  <2> QED
    BY <2>1, <2>2
<1>7. ASSUME NEW u \in Threads, NEW k \in 1..Len(stack'[u]), NEW x \in Bodies, Owns(u, k, x)'
      PROVE  \/ k \in 1..Len(stack[u]) /\ Owns(u, k, x) /\ (u = t => k <= b)
                /\ body[x].lock /\ ~PopsOwner(t, b, x)
             \/ /\ u = t /\ k - b \in 1..Len(new) /\ new[k - b].op \in Owners /\ new[k - b].on = x
                /\ ~body[x].lock \/ PopsOwner(t, b, x)
  <2>1. CASE k \in 1..Len(stack[u]) /\ stack'[u][k] = stack[u][k] /\ (u = t => k <= b)
    <3>1. Owns(u, k, x)
      BY <1>7, <2>1 DEF Owns
    <3> QED
      BY <1>6, <2>1, <3>1
  <2>2. CASE u = t /\ k - b \in 1..Len(new) /\ stack'[u][k] = new[k - b]
    BY <1>7, <2>2 DEF Owns, LockStep
  <2> QED
    BY <2>1, <2>2, MovesFacts
<1>8. \A u \in Threads : \A k \in 1..Len(stack'[u]) :
         stack'[u][k].op \in Owners => body'[stack'[u][k].on].lock
  <2>1. ASSUME NEW u \in Threads, NEW k \in 1..Len(stack'[u]), stack'[u][k].op \in Owners
        PROVE  body'[stack'[u][k].on].lock
    <3>1. PICK x \in Bodies : x = stack'[u][k].on
      BY <1>4
    <3>2. Owns(u, k, x)'
      BY <2>1, <3>1 DEF Owns
    <3> QED
      BY <1>7, <3>1, <3>2 DEF LockStep
  <2> QED
    BY <2>1
<1>9. ASSUME NEW u \in Threads, NEW v \in Threads, NEW k \in 1..Len(stack'[u]), NEW j \in 1..Len(stack'[v]),
             NEW x \in Bodies, Owns(u, k, x)', Owns(v, j, x)'
      PROVE  u = v /\ k = j
  <2>1. CASE body[x].lock /\ ~PopsOwner(t, b, x)
    <3>1. k \in 1..Len(stack[u]) /\ Owns(u, k, x) /\ j \in 1..Len(stack[v]) /\ Owns(v, j, x)
      BY <1>7, <1>9, <2>1
    <3> QED
      BY <1>2, <3>1
  <2>2. CASE ~body[x].lock \/ PopsOwner(t, b, x)
    <3>1. /\ u = t /\ k - b \in 1..Len(new) /\ new[k - b].op \in Owners
          /\ v = t /\ j - b \in 1..Len(new) /\ new[j - b].op \in Owners
      BY <1>7, <1>9, <2>2
    <3>2. k - b = j - b
      BY <3>1 DEF LockStep
    <3> QED
      BY <1>5, <3>1, <3>2
  <2> QED
    BY <2>1, <2>2
<1>10. ASSUME NEW x \in Bodies, body'[x].lock
       PROVE  \E u \in Threads : \E k \in 1..Len(stack'[u]) : Owns(u, k, x)'
  <2>1. CASE \E j \in 1..Len(new) : new[j].op \in Owners /\ new[j].on = x
    <3>1. PICK j \in 1..Len(new) : new[j].op \in Owners /\ new[j].on = x
      BY <2>1
    <3>2. b + j \in 1..Len(stack'[t]) /\ stack'[t][b + j] = new[j]
      BY MovesFacts
    <3>3. Owns(t, b + j, x)'
      BY <3>1, <3>2 DEF Owns
    <3> QED
      BY <3>2, <3>3
  <2>2. CASE body[x].lock /\ ~PopsOwner(t, b, x)
    <3>1. PICK u \in Threads : \E k \in 1..Len(stack[u]) : Owns(u, k, x)
      BY <1>3, <2>2
    <3>2. PICK k \in 1..Len(stack[u]) : Owns(u, k, x)
      BY <3>1
    <3>3. ~(u = t /\ k = b + 1 /\ Len(stack[t]) = b + 1)
      BY <2>2, <3>2 DEF PopsOwner
    <3>4. k \in 1..Len(stack'[u]) /\ stack'[u][k] = stack[u][k]
      BY <3>3, MovesFacts
    <3>5. Owns(u, k, x)'
      BY <3>2, <3>4 DEF Owns
    <3> QED
      BY <3>4, <3>5
  <2> QED
    BY <1>10, <2>1, <2>2 DEF LockStep
<1>11. \A u, v \in Threads : \A k \in 1..Len(stack'[u]) : \A j \in 1..Len(stack'[v]) :
          \A x \in Bodies : Owns(u, k, x)' /\ Owns(v, j, x)' => u = v /\ k = j
  BY <1>9
<1>12. \A x \in Bodies : body'[x].lock => \E u \in Threads : \E k \in 1..Len(stack'[u]) : Owns(u, k, x)'
  BY <1>10
<1> QED
  BY <1>8, <1>11, <1>12 DEF LockInv

\* A body is triggered by the call that publishes it, once.
TriggerStep(t, b) ==
    \A x \in Bodies : /\ body[x].triggered => body'[x].triggered
                      /\ body'[x].triggered /\ ~body[x].triggered => Pops(t, b, "publish", x)

\* A reference count that was zero rises only while the body is not being deleted.
ZeroStep(t, b) ==
    \A x \in Bodies : body[x].ref = 0 /\ body'[x].ref # 0 => ~body[x].lock \/ PopsOwner(t, b, x)

LEMMA OnceStep ==
    ASSUME TypeOK, LockInv, OnceInv, NEW t \in Threads, NEW b, NEW new, Moves(t, b, new),
           \A u \in Threads : \A k \in 1..Len(stack[u]) : u = t => (k <= b => stack[u][k].op # "unlock"),
           \A u \in Threads : \A k \in 1..Len(stack[u]) : u # t => stack[u][k].op # "unlock",
           TriggerStep(t, b), ZeroStep(t, b),
           \A j \in 1..Len(new) : OnceOK(new[j])',
           \A i, j \in 1..Len(new) : new[i].op = "inform" /\ new[j].op = "inform" => i = j,
           \A j \in 1..Len(new) : new[j].op = "inform" =>
              ~body[new[j].on].triggered \/ Pops(t, b, "inform", new[j].on),
           \A u \in Threads : \A i \in 1..Len(queue'[u]) :
              \/ \E j \in 1..Len(queue[u]) : queue'[u][i] = queue[u][j] /\ queue'[u][i] \in Bodies
              \/ queue'[u][i] \in Quorums => body'[queue'[u][i]].triggered
    PROVE  OnceInv'
<1>1. \A u \in Threads : \A k \in 1..Len(stack[u]) : OnceOK(stack[u][k])
  BY DEF OnceInv
<1>2. \A u, v \in Threads : \A k \in 1..Len(stack[u]) : \A j \in 1..Len(stack[v]) :
         \A x \in Bodies : Is(u, k, "inform", x) /\ Is(v, j, "inform", x) => u = v /\ k = j
  BY DEF OnceInv
<1>3. \A u \in Threads : \A i \in 1..Len(queue[u]) :
          queue[u][i] \in Quorums => body[queue[u][i]].triggered
  BY DEF OnceInv
<1>4. b \in Nat
  BY DEF Moves
<1>5. ASSUME NEW u \in Threads, NEW k \in 1..Len(stack[u]), u = t => k <= b, stack[u][k].op \in Owners
      PROVE  body[stack[u][k].on].lock /\ ~PopsOwner(t, b, stack[u][k].on)
  <2>1. PICK x \in Bodies : x = stack[u][k].on
    BY MovesFacts DEF FrameType
  <2>2. body[x].lock /\ Owns(u, k, x)
    BY <1>5, <2>1 DEF LockInv, Owns
  <2>3. ASSUME PopsOwner(t, b, x) PROVE FALSE
    <3>1. b + 1 \in 1..Len(stack[t]) /\ Owns(t, b + 1, x)
      BY <1>4, <2>3 DEF PopsOwner
    <3>2. u = t /\ k = b + 1
      BY <2>2, <3>1 DEF LockInv
    <3> QED
      BY <1>4, <1>5, <3>2
  <2> QED
    BY <2>1, <2>2, <2>3
<1>6. ASSUME NEW u \in Threads, NEW k \in 1..Len(stack'[u])
      PROVE  OnceOK(stack[u][k])'
  <2>1. CASE k \in 1..Len(stack[u]) /\ stack'[u][k] = stack[u][k] /\ (u = t => k <= b)
    <3>1. PICK f : f = stack[u][k]
      OBVIOUS
    <3>2. OnceOK(f) /\ f.on \in Bodies /\ f.op # "unlock"
      BY <1>1, <2>1, <3>1, MovesFacts DEF FrameType
    <3>3. f.op = "publish" => ~body'[f.on].triggered
      <4>1. ASSUME f.op = "publish", body'[f.on].triggered PROVE FALSE
        <5>1. ~PopsOwner(t, b, f.on)
          BY <1>5, <2>1, <3>1, <4>1 DEF Owners
        <5>2. Pops(t, b, "publish", f.on)
          BY <3>2, <4>1 DEF TriggerStep, OnceOK
        <5> QED
          BY <5>1, <5>2 DEF Pops, PopsOwner, Is, Owns, Owners
      <4> QED
        BY <4>1
    <3>4. f.op = "hard_end" => body'[f.on].ref = 0
      <4>1. ASSUME f.op = "hard_end", body'[f.on].ref # 0 PROVE FALSE
        <5>1. body[f.on].lock /\ ~PopsOwner(t, b, f.on)
          BY <1>5, <2>1, <3>1, <4>1 DEF Owners
        <5> QED
          BY <3>2, <4>1, <5>1 DEF ZeroStep, OnceOK
      <4> QED
        BY <4>1
    <3>5. body[f.on].triggered => body'[f.on].triggered
      BY <3>2 DEF TriggerStep
    <3>6. stack'[u][k] = f
      BY <2>1, <3>1
    <3> QED
      BY <3>2, <3>3, <3>4, <3>5, <3>6 DEF OnceOK
  <2>2. CASE u = t /\ k - b \in 1..Len(new) /\ stack'[u][k] = new[k - b]
    BY <2>2 DEF OnceOK
  <2> QED
    BY <2>1, <2>2, MovesFacts
<1>7. ASSUME NEW u \in Threads, NEW k \in 1..Len(stack'[u]), NEW x \in Bodies, Is(u, k, "inform", x)'
      PROVE  \/ /\ k \in 1..Len(stack[u]) /\ Is(u, k, "inform", x) /\ body[x].triggered
                /\ ~Pops(t, b, "inform", x)
             \/ /\ u = t /\ k - b \in 1..Len(new) /\ new[k - b].op = "inform" /\ new[k - b].on = x
                /\ ~body[x].triggered \/ Pops(t, b, "inform", x)
  <2>1. CASE k \in 1..Len(stack[u]) /\ stack'[u][k] = stack[u][k] /\ (u = t => k <= b)
    <3>1. Is(u, k, "inform", x)
      BY <1>7, <2>1 DEF Is
    <3>2. body[x].triggered
      BY <1>1, <2>1, <3>1 DEF OnceOK, Is
    <3>3. ASSUME Pops(t, b, "inform", x) PROVE FALSE
      <4>1. b + 1 \in 1..Len(stack[t]) /\ Is(t, b + 1, "inform", x)
        BY <1>4, <3>3 DEF Pops
      <4>2. u = t /\ k = b + 1
        BY <1>2, <2>1, <3>1, <4>1
      <4> QED
        BY <1>4, <2>1, <4>2
    <3> QED
      BY <2>1, <3>1, <3>2, <3>3
  <2>2. CASE u = t /\ k - b \in 1..Len(new) /\ stack'[u][k] = new[k - b]
    BY <1>7, <2>2 DEF Is
  <2> QED
    BY <2>1, <2>2, MovesFacts
<1>8. ASSUME NEW u \in Threads, NEW v \in Threads, NEW k \in 1..Len(stack'[u]), NEW j \in 1..Len(stack'[v]),
             NEW x \in Bodies, Is(u, k, "inform", x)', Is(v, j, "inform", x)'
      PROVE  u = v /\ k = j
  <2>1. CASE body[x].triggered /\ ~Pops(t, b, "inform", x)
    BY <1>2, <1>7, <1>8, <2>1
  <2>2. CASE ~body[x].triggered \/ Pops(t, b, "inform", x)
    <3>1. /\ u = t /\ k - b \in 1..Len(new) /\ new[k - b].op = "inform"
          /\ v = t /\ j - b \in 1..Len(new) /\ new[j - b].op = "inform"
      BY <1>7, <1>8, <2>2
    <3>2. k - b = j - b
      BY <3>1
    <3> QED
      BY <1>4, <3>1, <3>2
  <2> QED
    BY <2>1, <2>2
<1>9. \A u \in Threads : \A i \in 1..Len(queue'[u]) :
          queue'[u][i] \in Quorums => body'[queue'[u][i]].triggered
  BY <1>3 DEF TriggerStep
<1>10. \A u, v \in Threads : \A k \in 1..Len(stack'[u]) : \A j \in 1..Len(stack'[v]) :
          \A x \in Bodies : Is(u, k, "inform", x)' /\ Is(v, j, "inform", x)' => u = v /\ k = j
  BY <1>8
<1>11. \A u \in Threads : \A k \in 1..Len(stack'[u]) : OnceOK(stack[u][k])'
  BY <1>6
<1> QED
  BY <1>9, <1>10, <1>11 DEF OnceInv

-----------------------------------------------------------------------------
(* The operators on bodies keep what BodyInv says of one. *)

LEMMA DecEmpty ==
    ASSUME NEW bag \in [Bodies -> Nat], NEW x \in Bodies
    PROVE  /\ bag = Nobody => Dec(bag, x) = Nobody
           /\ \A y \in Bodies : Dec(bag, x)[y] > 0 => bag[y] > 0
           /\ \A y \in Bodies : Dec(bag, x)[y] <= bag[y]
<1>1. /\ Dec(bag, x) \in [Bodies -> Nat]
      /\ \A y \in Bodies : Dec(bag, x)[y] = IF y # x THEN bag[y] ELSE IF bag[x] = 0 THEN 0 ELSE bag[x] - 1
  BY BagFacts
<1>2. bag = Nobody => \A y \in Bodies : bag[y] = 0
  BY BagEmpty
<1>3. bag = Nobody => \A y \in Bodies : Dec(bag, x)[y] = 0
  BY <1>1, <1>2
<1>4. (\A y \in Bodies : Dec(bag, x)[y] = 0) => Dec(bag, x) = Nobody
  BY <1>1, BagEmpty
<1> QED
  BY <1>1, <1>3, <1>4

LEMMA BodyOKFacts ==
    ASSUME NEW x \in Bodies, NEW b \in BodyType, BodyOK(x, b)
    PROVE  /\ BodyOK(x, Unlocked(b))
           /\ BodyOK(x, Deleted(b))
           /\ b.life = "live" => /\ BodyOK(x, Locked(b)) /\ BodyOK(x, Counted(b))
                                 /\ \A n \in Nat : BodyOK(x, Refs(b, n))
                                 /\ BodyOK(x, Referenced(b, x))
           /\ \A y \in Bodies : BodyOK(x, Lost(b, y)) /\ BodyOK(x, Without(b, y))
           /\ \A q \in Quorums : b.life = "live" /\ ~b.triggered => BodyOK(x, With(b, q))
<1>0. /\ b.ref \in Nat /\ b.members \in [Bodies -> Nat] /\ b.quorums \in [Bodies -> Nat]
      /\ x \in Events => x \notin Quorums
  BY QuorumAssumption DEF BodyType
<1>1. BodyOK(x, Unlocked(b))
  BY UnlockedFacts DEF BodyOK
<1>2. BodyOK(x, Deleted(b))
  <2>1. \A y \in Bodies : ~(Nobody[y] > 0)
    BY NobodyFacts
  <2> QED
    BY <2>1, DeletedFacts DEF BodyOK
<1>3. b.life = "live" => /\ BodyOK(x, Locked(b)) /\ BodyOK(x, Counted(b))
                         /\ \A n \in Nat : BodyOK(x, Refs(b, n))
                         /\ BodyOK(x, Referenced(b, x))
  <2>1. b.life = "live" => BodyOK(x, Locked(b)) /\ BodyOK(x, Counted(b))
    BY LockedFacts, CountedFacts DEF BodyOK
  <2>2. ASSUME NEW n \in Nat, b.life = "live" PROVE BodyOK(x, Refs(b, n))
    <3>1. PICK u : u = Refs(b, n)
      OBVIOUS
    <3>2. /\ u.life = "live" /\ (u.triggered <=> b.triggered) /\ u.ref = b.ref + n
          /\ u.quorums = b.quorums /\ u.members = b.members
      BY <2>2, <3>1, RefsFacts
    <3>3. b.ref > 0 => b.ref + n > 0
      BY <1>0, <2>2
    <3>4. BodyOK(x, u)
      BY <2>2, <3>2, <3>3 DEF BodyOK
    <3> QED
      BY <3>1, <3>4
  <2>3. b.life = "live" => BodyOK(x, Referenced(b, x))
    BY <2>2 DEF Referenced
  <2> QED
    BY <2>1, <2>2, <2>3
<1>4. ASSUME NEW y \in Bodies PROVE BodyOK(x, Lost(b, y))
  <2>1. /\ b.members = Nobody => Dec(b.members, y) = Nobody
        /\ \A z \in Bodies : Dec(b.members, y)[z] > 0 => b.members[z] > 0
    BY <1>0, DecEmpty
  <2> QED
    BY <2>1, LostFacts DEF BodyOK
<1>5. ASSUME NEW y \in Bodies PROVE BodyOK(x, Without(b, y))
  <2>1. /\ b.quorums = Nobody => Dec(b.quorums, y) = Nobody
        /\ \A z \in Bodies : Dec(b.quorums, y)[z] > 0 => b.quorums[z] > 0
    BY <1>0, DecEmpty
  <2> QED
    BY <2>1, WithoutFacts DEF BodyOK
<1>6. ASSUME NEW q \in Quorums, b.life = "live", ~b.triggered PROVE BodyOK(x, With(b, q))
  <2>1. q \in Bodies
    BY DEF Bodies
  <2>2. \A z \in Bodies : Inc(b.quorums, q)[z] > 0 => z \in Quorums
    <3>1. \A z \in Bodies : b.quorums[z] > 0 => z \in Quorums
      BY DEF BodyOK
    <3>2. \A z \in Bodies : z # q => Inc(b.quorums, q)[z] = b.quorums[z]
      BY <1>0, <2>1, BagFacts
    <3> QED
      BY <3>1, <3>2
  <2> QED
    BY <1>6, <2>1, <2>2, WithFacts DEF BodyOK
<1> QED
  BY <1>1, <1>2, <1>3, <1>4, <1>5, <1>6

-----------------------------------------------------------------------------
(* What a step does to one body. *)

NewOwner(new, y) == \E j \in 1..Len(new) : new[j].op \in Owners /\ new[j].on = y

PopsCounted(t, b, y) ==
    Len(stack[t]) = b + 1 /\ Counts(stack[t][b + 1]) /\ stack[t][b + 1].on = y

\* Who changes a reference count has a reference, or is about to trigger the body.
RefStep(t, b, y) ==
    body'[y].ref # body[y].ref =>
        PopsCounted(t, b, y) \/ PopsOwner(t, b, y) \/ (b = 0 /\ held[t][y] > 0) \/ body[y].ref = 0

\* A quorum that its maker stops making has the flag right.
PrivateStep(t, b, y) ==
    b = 0 /\ Private(t, y) => Private(t, y)' \/ (body'[y].nomem <=> body'[y].members = Nobody)

\* Who takes the last reference keeps the lock until the members are culled.
DeleteStep(new, y) ==
    Live(y)' /\ body'[y].ref = 0 =>
        \/ /\ Live(y) /\ body[y].ref = 0
           /\ \/ (body'[y].lock <=> body[y].lock) /\ body'[y].members = body[y].members
              \/ body'[y].lock
              \/ body'[y].members # Nobody
        \/ body'[y].lock /\ \E j \in 1..Len(new) : new[j].op = "hard_end" /\ new[j].on = y

BodyStep(t, b, new, y) ==
    /\ body'[y].lock <=> NewOwner(new, y) \/ (body[y].lock /\ ~PopsOwner(t, b, y))
    /\ NewOwner(new, y) => ~body[y].lock \/ PopsOwner(t, b, y)
    /\ body[y].triggered => body'[y].triggered
    /\ body'[y].triggered /\ ~body[y].triggered => Pops(t, b, "publish", y)
    /\ body[y].ref = 0 /\ body'[y].ref # 0 => ~body[y].lock \/ PopsOwner(t, b, y)
    /\ (\A x \in Bodies : body'[y].members[x] <= body[y].members[x]) \/ Pops(t, b, "make", y)
    /\ body'[y].members # body[y].members =>
          ~body[y].lock \/ Pops(t, b, "make", y) \/ Pops(t, b, "cull", y)
    /\ \/ body'[y].nomem <=> body[y].nomem
       \/ /\ body'[y].nomem <=> body'[y].members = Nobody
          /\ ~body[y].lock \/ PopsOwner(t, b, y)
    /\ y \in Quorums => RefStep(t, b, y) /\ PrivateStep(t, b, y) /\ DeleteStep(new, y)

\* A body that the step leaves alone.
LEMMA SameBody ==
    ASSUME TypeOK, NEW t \in Threads, NEW b, NEW new, Moves(t, b, new), NEW y \in Bodies,
           body'[y] = body[y], ~PopsOwner(t, b, y), ~NewOwner(new, y)
    PROVE  BodyStep(t, b, new, y)
<1>1. body[y].ref \in Nat /\ body[y].members \in [Bodies -> Nat]
  BY DEF TypeOK, BodyType
<1>2. ~(b = 0 /\ Private(t, y))
  <2>1. ASSUME b = 0, Private(t, y) PROVE FALSE
    <3>1. Len(stack[t]) = 1 /\ stack[t][1].op \in {"make", "publish"} /\ stack[t][1].on = y
      <4>1. stack[t] \in Seq(FrameType) /\ stack[t] # << >>
        BY <2>1 DEF TypeOK, Private
      <4>2. Len(stack[t]) # 0
        BY <4>1
      <4>3. Len(stack[t]) = 1
        BY <2>1, <4>2 DEF Moves
      <4> QED
        BY <2>1, <4>3 DEF Private, Is
    <3>2. b + 1 = 1
      BY <2>1
    <3> QED
      BY <3>1, <3>2 DEF PopsOwner, Owns, Owners
  <2> QED
    BY <2>1
<1>3. \A x \in Bodies : body'[y].members[x] <= body[y].members[x]
  BY <1>1
<1> QED
  BY <1>2, <1>3 DEF BodyStep, RefStep, PrivateStep, DeleteStep, Live

\* Two calls that own the lock of a body are one.
LEMMA OwnersDiffer ==
    ASSUME TypeOK, LockInv, NEW t \in Threads, NEW b \in Nat, NEW y \in Bodies,
           NEW u \in Threads, NEW k \in 1..Len(stack[u]), u = t => k <= b, Owns(u, k, y)
    PROVE  body[y].lock /\ ~PopsOwner(t, b, y)
<1>1. body[y].lock
  BY DEF LockInv, Owns
<1>2. ASSUME PopsOwner(t, b, y) PROVE FALSE
  <2>1. b + 1 \in 1..Len(stack[t]) /\ Owns(t, b + 1, y)
    BY <1>2 DEF PopsOwner
  <2>2. u = t /\ k = b + 1
    BY <2>1 DEF LockInv
  <2> QED
    BY <2>2
<1> QED
  BY <1>1, <1>2

\* The body of a cull is owned by the call around it.
LEMMA CullOwner ==
    ASSUME TypeOK, ShapeInv, NEW u \in Threads, NEW k \in 1..Len(stack[u]), NEW y \in Bodies,
           Is(u, k, "cull", y)
    PROVE  k - 1 \in 1..Len(stack[u]) /\ Owns(u, k - 1, y)
           /\ (Is(u, k - 1, "publish", y) \/ Is(u, k - 1, "hard_end", y))
<1>1. Len(stack[u]) \in Nat
  BY DEF TypeOK
<1>2. ShapeOK(u, k)
  BY DEF ShapeInv
<1>3. k > 1 /\ (Is(u, k - 1, "publish", y) \/ Is(u, k - 1, "hard_end", y))
  BY <1>2 DEF ShapeOK, Is
<1> QED
  BY <1>1, <1>3 DEF Owns, Owners, Is

LEMMA SettlingStep ==
    ASSUME TypeOK, TypeOK', NEW q \in Bodies, Settling(q),
           \A x \in Bodies : body'[q].members[x] <= body[q].members[x],
           \A x \in Bodies : body[x].triggered => body'[x].triggered
    PROVE  Settling(q)'
<1>1. \A x \in Bodies : body'[q].members[x] \in Nat /\ body[q].members[x] \in Nat
  BY DEF TypeOK, BodyType
<1> QED
  BY <1>1 DEF Settling

\* A call of cull_members ends when it has visited everybody.
CullEnds(t, b, new) ==
    \A y \in Bodies : Pops(t, b, "cull", y) =>
        (new # << >> /\ new[1].op = "cull" /\ new[1].on = y) \/ Settling(y)'

LEMMA CullStep ==
    ASSUME IInv, TypeOK', NEW t \in Threads, NEW b, NEW new, Moves(t, b, new),
           \A y \in Bodies : BodyStep(t, b, new, y), CullEnds(t, b, new),
           \A j \in 1..Len(new) : CullOK(t, b + j)'
    PROVE  CullInv'
<1>0. TypeOK /\ ShapeInv /\ LockInv /\ CullInv /\ NomemInv
  BY DEF IInv
<1>1. b \in Nat /\ new \in Seq(FrameType)
  BY DEF Moves
<1>2. \A x \in Bodies : body[x].triggered => body'[x].triggered
  BY DEF BodyStep
\* The members of a body that a call keeps locked stay, but for those that have triggered.
<1>3. ASSUME NEW u \in Threads, NEW k \in 1..Len(stack[u]), u = t => k <= b, NEW y \in Bodies,
             Is(u, k, "publish", y) \/ Is(u, k, "hard_end", y)
      PROVE  /\ \A x \in Bodies : body'[y].members[x] <= body[y].members[x]
             /\ body'[y].members # body[y].members => Pops(t, b, "cull", y)
  <2>1. Owns(u, k, y)
    BY <1>3 DEF Is, Owns, Owners
  <2>2. body[y].lock /\ ~PopsOwner(t, b, y)
    BY <1>0, <1>1, <1>3, <2>1, OwnersDiffer
  <2>3. ~Pops(t, b, "make", y)
    BY <2>2 DEF Pops, PopsOwner, Is, Owns, Owners
  <2> QED
    BY <2>2, <2>3 DEF BodyStep
<1>4. ASSUME NEW u \in Threads, NEW k \in 1..Len(stack'[u]) PROVE CullOK(u, k)'
  <2>1. CASE u = t /\ k - b \in 1..Len(new) /\ k = b + (k - b)
    BY <2>1
  <2>2. CASE k \in 1..Len(stack[u]) /\ stack'[u][k] = stack[u][k] /\ (u = t => k <= b)
    <3>1. PICK y \in Bodies : y = stack[u][k].on
      BY <1>0, <2>2, MovesFacts
    <3>2. CullOK(u, k)
      BY <1>0, <2>2, SMTT(60) DEF CullInv
    <3>3. CASE stack[u][k].op = "cull"
      <4>1. Is(u, k, "cull", y)
        BY <3>1, <3>3 DEF Is
      <4>2. k - 1 \in 1..Len(stack[u]) /\ (Is(u, k - 1, "publish", y) \/ Is(u, k - 1, "hard_end", y))
        BY <1>0, <2>2, <4>1, CullOwner
      <4>3. u = t => k - 1 <= b
        BY <1>1, <2>2
      <4>4. ~Pops(t, b, "cull", y)
        <5>1. ASSUME Pops(t, b, "cull", y) PROVE FALSE
          <6>1. b + 1 \in 1..Len(stack[t]) /\ Is(t, b + 1, "cull", y)
            BY <1>1, <5>1 DEF Pops
          <6>2. b \in 1..Len(stack[t]) /\ Owns(t, b, y)
            <7>1. PICK j \in 1..Len(stack[t]) : j = b + 1 /\ Is(t, j, "cull", y)
              BY <6>1
            <7>2. j - 1 \in 1..Len(stack[t]) /\ Owns(t, j - 1, y)
              BY <1>0, <7>1, CullOwner
            <7>3. j - 1 = b
              BY <1>1, <7>1
            <7> QED
              BY <7>2, <7>3
          <6>3. Owns(u, k - 1, y)
            BY <4>2 DEF Is, Owns, Owners
          <6>4. u = t /\ k - 1 = b
            BY <1>0, <4>2, <6>2, <6>3 DEF LockInv
          <6> QED
            BY <1>1, <2>2, <6>4
        <5> QED
          BY <5>1
      <4>5. body'[y].members = body[y].members
        BY <1>3, <4>2, <4>3, <4>4
      <4>6. \A x \in Bodies : /\ stack[u][k].left[x] <= body[y].members[x]
                              /\ body[y].members[x] > stack[u][k].left[x] => body[x].triggered
        BY <3>1, <3>2, <3>3 DEF CullOK
      <4> QED
        BY <1>2, <2>2, <3>1, <3>3, <4>5, <4>6 DEF CullOK
    <3>4. CASE stack[u][k].op \in {"publish", "hard_end"}
      <4>1. Is(u, k, "publish", y) \/ Is(u, k, "hard_end", y)
        BY <3>1, <3>4 DEF Is
      <4>2. \A x \in Bodies : body'[y].members[x] <= body[y].members[x]
        BY <1>3, <2>2, <4>1
      <4>3. CASE ~(k < Len(stack[u]) /\ Is(u, k + 1, "cull", y))
        <5>1. Settling(y)
          BY <3>1, <3>2, <3>4, <4>3 DEF CullOK
        <5>2. Settling(y)'
          BY <1>0, <1>2, <4>2, <5>1, SettlingStep
        <5> QED
          BY <2>2, <3>1, <3>4, <5>2 DEF CullOK
      <4>4. CASE k < Len(stack[u]) /\ Is(u, k + 1, "cull", y)
        <5>1. Len(stack[u]) \in Nat /\ k + 1 \in 1..Len(stack[u]) /\ Len(stack'[u]) \in Nat
          BY <1>0, <2>2, <4>4, MovesFacts
        <5>2. CASE k + 1 \in 1..Len(stack'[u]) /\ stack'[u][k + 1] = stack[u][k + 1]
          <6>1. k < Len(stack'[u]) /\ Is(u, k + 1, "cull", y)'
            BY <2>2, <4>4, <5>1, <5>2 DEF Is
          <6>2. k < Len(stack'[u]) /\ Is(u, k + 1, "cull", stack[u][k].on)'
            BY <2>2, <3>1, <6>1 DEF Is
          <6> QED
            BY <2>2, <3>4, <6>2 DEF CullOK
        <5>3. CASE u = t /\ k + 1 = b + 1 /\ Len(stack[t]) = b + 1
          <6>1. Pops(t, b, "cull", y)
            BY <4>4, <5>3 DEF Pops
          <6>2. CASE Settling(y)'
            BY <2>2, <3>1, <3>4, <6>2 DEF CullOK
          <6>3. CASE new # << >> /\ new[1].op = "cull" /\ new[1].on = y
            <7>1. Len(new) \in Nat /\ 1 \in 1..Len(new)
              BY <1>1, <6>3
            <7>2. b + 1 \in 1..Len(stack'[t]) /\ stack'[t][b + 1] = new[1]
              BY <1>0, <7>1, MovesFacts
            <7>3. k < Len(stack'[u]) /\ Is(u, k + 1, "cull", stack[u][k].on)'
              BY <2>2, <3>1, <5>1, <5>3, <6>3, <7>2 DEF Is
            <7> QED
              BY <2>2, <3>4, <7>3 DEF CullOK
          <6> QED
            BY <6>1, <6>2, <6>3 DEF CullEnds
        <5> QED
          BY <1>0, <5>1, <5>2, <5>3, MovesFacts
      <4> QED
        BY <4>3, <4>4
    <3>5. CASE stack[u][k].op \notin {"cull", "publish", "hard_end"}
      BY <2>2, <3>5 DEF CullOK
    <3> QED
      BY <3>3, <3>4, <3>5
  <2> QED
    BY <1>0, <2>1, <2>2, MovesFacts
<1>5. ASSUME NEW q \in Quorums, body'[q].triggered PROVE Settling(q)'
  <2>0. q \in Bodies
    BY DEF Bodies
  <2>1. Settling(q)
    <3>1. CASE body[q].triggered
      BY <1>0, <3>1 DEF CullInv
    <3>2. CASE ~body[q].triggered
      <4>1. Pops(t, b, "publish", q)
        BY <1>5, <2>0, <3>2 DEF BodyStep
      <4>2. b + 1 \in 1..Len(stack[t]) /\ ~(b + 1 < Len(stack[t])) /\ Is(t, b + 1, "publish", q)
        BY <1>1, <4>1 DEF Pops
      <4>3. CullOK(t, b + 1)
        BY <1>0, <4>2 DEF CullInv
      <4> QED
        BY <4>2, <4>3 DEF CullOK, Is
    <3> QED
      BY <3>1, <3>2
  <2>2. ~Pops(t, b, "make", q)
    <3>1. ASSUME Pops(t, b, "make", q) PROVE FALSE
      <4>1. b + 1 \in 1..Len(stack[t]) /\ Is(t, b + 1, "make", q)
        BY <1>1, <3>1 DEF Pops
      <4>2. ~body[q].triggered
        BY <1>0, <4>1 DEF NomemInv, NomemOK, Is
      <4>3. Pops(t, b, "publish", q)
        BY <1>5, <2>0, <4>2 DEF BodyStep
      <4> QED
        BY <4>1, <4>3 DEF Pops, Is
    <3> QED
      BY <3>1
  <2>3. \A x \in Bodies : body'[q].members[x] <= body[q].members[x]
    BY <2>0, <2>2 DEF BodyStep
  <2> QED
    BY <1>0, <1>2, <2>0, <2>1, <2>3, SettlingStep
<1> QED
  BY <1>4, <1>5 DEF CullInv

\* A quorum that its maker keeps to itself has no other reference.
LEMMA PrivateFacts ==
    ASSUME IInv, NEW t \in Threads, NEW b, NEW new, Moves(t, b, new), NEW u \in Threads,
           NEW q \in Quorums, Private(u, q), u # t \/ b >= 1, BodyStep(t, b, new, q)
    PROVE  body'[q].ref = body[q].ref
<1>0. /\ TypeOK /\ RefInv /\ LockInv /\ q \in Bodies /\ b \in Nat
  BY DEF IInv, Bodies, Moves
<1>1. /\ 1 \in 1..Len(stack[u]) /\ held[u][q] > 0 /\ Len(stack[u]) \in Nat
      /\ \/ Is(u, 1, "make", q) /\ body[q].ref = 1
         \/ Is(u, 1, "publish", q) /\ body[q].ref = 2
  <2>1. stack[u] \in Seq(FrameType) /\ stack[u] # << >>
    BY <1>0 DEF TypeOK, Private
  <2> QED
    BY <2>1 DEF Private
<1>2. Owns(u, 1, q)
  BY <1>1 DEF Owns, Owners, Is
<1>3. ~PopsOwner(t, b, q)
  BY <1>0, <1>1, <1>2, OwnersDiffer
<1>4. HeldCount(q) >= 1 /\ (held[t][q] > 0 /\ u # t => HeldCount(q) >= 2)
  BY <1>0, <1>1, Referrers
<1>5. Is(u, 1, "publish", q) => CallCount(q) >= 1
  BY <1>0, <1>1, Referrers DEF Counts, Is
<1>6. PopsCounted(t, b, q) => CallCount(q) >= 1 /\ (Is(u, 1, "publish", q) => CallCount(q) >= 2)
  <2>1. ASSUME PopsCounted(t, b, q) 
        PROVE  CallCount(q) >= 1 /\ (Is(u, 1, "publish", q) => CallCount(q) >= 2)
    <3>1. b + 1 \in 1..Len(stack[t]) /\ Counts(stack[t][b + 1]) /\ stack[t][b + 1].on = q
      BY <1>0, <2>1 DEF PopsCounted
    <3>2. t # u \/ b + 1 # 1
      BY <1>0
    <3>3. Is(u, 1, "publish", q) => Counts(stack[u][1]) /\ stack[u][1].on = q
      BY DEF Is, Counts
    <3>4. CallCount(q) >= 1
      BY <1>0, <3>1, Referrers
    <3>5. ASSUME Is(u, 1, "publish", q) PROVE CallCount(q) >= 2
      BY <1>0, <1>1, <3>1, <3>2, <3>3, <3>5, Referrers
    <3> QED
      BY <3>4, <3>5
  <2> QED
    BY <2>1
<1>7. /\ HeldCount(q) \in Nat /\ QueueCount(q) \in Nat /\ AtCount(q) \in Nat
      /\ MemCount(q) \in Nat /\ CallCount(q) \in Nat
      /\ body[q].ref = HeldCount(q) + QueueCount(q) + AtCount(q) + MemCount(q) + CallCount(q)
  BY <1>0, Referrers
<1>8. /\ ~PopsCounted(t, b, q)
      /\ ~(held[t][q] > 0 /\ u # t)
      /\ body[q].ref # 0
  BY <1>1, <1>4, <1>5, <1>6, <1>7 DEF Is
<1>9. ~(b = 0 /\ held[t][q] > 0)
  BY <1>0, <1>8
<1> QED
  BY <1>3, <1>8, <1>9 DEF BodyStep, RefStep

LEMMA PrivateStays ==
    ASSUME IInv, TypeOK', NEW t \in Threads, NEW b, NEW new, Moves(t, b, new), NEW u \in Threads,
           NEW q \in Quorums, Private(u, q), u # t \/ b >= 1, BodyStep(t, b, new, q), HeldStep(t, b)
    PROVE  Private(u, q)'
<1>1. body'[q].ref = body[q].ref
  BY PrivateFacts
<1>2. held'[u][q] > 0
  <2>1. held[u][q] \in Nat /\ held'[u][q] \in Nat /\ q \in Bodies
    BY DEF IInv, TypeOK, Bodies
  <2> QED
    BY <2>1 DEF HeldStep, Private
<1>3. stack'[u][1] = stack[u][1] /\ stack'[u] # << >>
  <2>1. stack[u] \in Seq(FrameType) /\ stack[u] # << >> /\ stack'[u] \in Seq(FrameType) /\ b \in Nat
    BY DEF IInv, TypeOK, Private, Moves
  <2>2. CASE u # t
    BY <2>1, <2>2 DEF Moves, Onto
  <2>3. CASE u = t /\ b >= 1
    <3>1. stack'[t][1] = stack[t][1] /\ Len(stack'[t]) = b + Len(new) /\ Len(new) \in Nat
      BY <2>1, <2>3 DEF Moves, Onto
    <3> QED
      BY <2>1, <2>3, <3>1
  <2> QED
    BY <2>2, <2>3
<1> QED
  BY <1>1, <1>2, <1>3 DEF Private, Is

LEMMA NomemStep ==
    ASSUME IInv, TypeOK', NEW t \in Threads, NEW b, NEW new, Moves(t, b, new), HeldStep(t, b),
           \A y \in Bodies : BodyStep(t, b, new, y),
           \A j \in 1..Len(new) : NomemOK(t, b + j)'
    PROVE  NomemInv'
<1>0. /\ TypeOK /\ ShapeInv /\ RefInv /\ LockInv /\ NomemInv /\ b \in Nat
      /\ \A q \in Quorums : q \in Bodies
  BY DEF IInv, Moves, Bodies
<1>1. ASSUME NEW q \in Quorums, Pops(t, b, "make", q)
      PROVE  b = 0 /\ Private(t, q) /\ body[q].ref = 1
  <2>1. b + 1 \in 1..Len(stack[t]) /\ Is(t, b + 1, "make", q)
    BY <1>0, <1>1 DEF Pops
  <2>2. b + 1 = 1 /\ Private(t, q)
    BY <1>0, <2>1 DEF ShapeInv, ShapeOK, NomemInv, NomemOK, Is, Outermost
  <2>3. body[q].ref = 1
    BY <2>1, <2>2 DEF Private, Is
  <2> QED
    BY <1>0, <2>2, <2>3
<1>2. ASSUME NEW u \in Threads, NEW k \in 1..Len(stack'[u]) PROVE NomemOK(u, k)'
  <2>1. CASE u = t /\ k - b \in 1..Len(new) /\ k = b + (k - b)
    BY <2>1
  <2>2. CASE k \in 1..Len(stack[u]) /\ stack'[u][k] = stack[u][k] /\ (u = t => k <= b)
    <3>1. PICK y \in Bodies : y = stack[u][k].on
      BY <1>0, <2>2, MovesFacts
    <3>2. NomemOK(u, k) /\ ShapeOK(u, k)
      BY <1>0, <2>2 DEF NomemInv, ShapeInv
    <3>3. BodyStep(t, b, new, y)
      OBVIOUS
    <3>4. CASE stack[u][k].op = "deref" /\ y \in Quorums
      <4>1. body[y].nomem /\ body[y].members = Nobody
        BY <3>1, <3>2, <3>4 DEF NomemOK
      <4>2. ~Pops(t, b, "make", y)
        <5>1. ASSUME Pops(t, b, "make", y) PROVE FALSE
          <6>1. Private(t, y) /\ body[y].ref = 1
            BY <1>1, <3>4, <5>1
          <6>2. CallCount(y) >= 1
            BY <1>0, <2>2, <3>1, <3>4, Referrers DEF Counts
          <6>3. HeldCount(y) >= 1
            BY <1>0, <6>1, Referrers DEF Private
          <6> QED
            BY <1>0, <6>1, <6>2, <6>3, Referrers
        <5> QED
          BY <5>1
      <4>3. body'[y].members = Nobody
        <5>1. \A x \in Bodies : body'[y].members[x] <= body[y].members[x]
          BY <3>3, <4>2 DEF BodyStep
        <5>2. body'[y].members \in [Bodies -> Nat] /\ \A x \in Bodies : body'[y].members[x] \in Nat
          BY DEF TypeOK, BodyType
        <5>3. \A x \in Bodies : body'[y].members[x] = 0
          BY <4>1, <5>1, <5>2, NobodyFacts
        <5> QED
          BY <5>2, <5>3, BagEmpty
      <4>4. body'[y].nomem
        BY <3>3, <4>1, <4>3, SMTT(60) DEF BodyStep
      <4> QED
        BY <2>2, <3>1, <3>4, <4>3, <4>4 DEF NomemOK
    <3>5. CASE stack[u][k].op \in {"member_end", "make"}
      <4>1. Owns(u, k, y)
        BY <3>1, <3>5 DEF Owns, Owners
      <4>2. body[y].lock /\ ~PopsOwner(t, b, y)
        BY <1>0, <2>2, <4>1, OwnersDiffer
      <4>3. body'[y].nomem <=> body[y].nomem
        BY <3>3, <4>2 DEF BodyStep
      <4>4. body'[y].triggered => body[y].triggered
        BY <3>3, <4>2 DEF BodyStep, Pops, PopsOwner, Is, Owns, Owners
      <4>5. stack[u][k].op = "make" => Private(u, y)'
        <5>1. ASSUME stack[u][k].op = "make" PROVE Private(u, y)'
          <6>1. Private(u, y) /\ k = 1 /\ y \in Quorums
            BY <3>1, <3>2, <5>1 DEF NomemOK, ShapeOK, Outermost, OnQuorum
          <6>2. u # t \/ b >= 1
            BY <1>0, <2>2, <6>1
          <6> QED
            BY <3>3, <6>1, <6>2, PrivateStays
        <5> QED
          BY <5>1
      <4> QED
        BY <2>2, <3>1, <3>2, <3>5, <4>3, <4>4, <4>5 DEF NomemOK, Private
    <3>6. CASE stack[u][k].op \notin {"member_end", "make"} /\ ~(stack[u][k].op = "deref" /\ y \in Quorums)
      BY <2>2, <3>1, <3>6 DEF NomemOK
    <3> QED
      BY <3>4, <3>5, <3>6
  <2> QED
    BY <1>0, <2>1, <2>2, MovesFacts
<1>3. ASSUME NEW q \in Quorums, body'[q].nomem, body'[q].members # Nobody
      PROVE  \E u \in Threads : Private(u, q)'
  <2>1. BodyStep(t, b, new, q)
    BY <1>0
  <2>2. body[q].nomem
    BY <1>3, <2>1 DEF BodyStep
  <2>3. PICK u \in Threads : Private(u, q)
    <3>1. CASE body[q].members # Nobody /\ Live(q)
      BY <1>0, <2>2, <3>1 DEF NomemInv
    <3>2. CASE body[q].members = Nobody
      <4>1. ASSUME ~Pops(t, b, "make", q) PROVE FALSE
        <5>1. \A x \in Bodies : body'[q].members[x] <= body[q].members[x]
          BY <2>1, <4>1 DEF BodyStep
        <5>2. body'[q].members \in [Bodies -> Nat] /\ \A x \in Bodies : body'[q].members[x] \in Nat
          BY <1>0 DEF TypeOK, BodyType
        <5>3. \A x \in Bodies : body'[q].members[x] = 0
          BY <3>2, <5>1, <5>2, NobodyFacts
        <5> QED
          BY <1>3, <5>2, <5>3, BagEmpty
      <4> QED
        BY <1>1, <4>1
    <3>3. ~Live(q) => body[q].members = Nobody
      BY <1>0 DEF IInv, BodyInv, BodyOK, Live
    <3> QED
      BY <3>1, <3>2, <3>3
  <2>4. CASE u # t \/ b >= 1
    BY <2>1, <2>3, <2>4, PrivateStays
  <2>5. CASE u = t /\ b = 0
    BY <1>3, <2>1, <2>3, <2>5 DEF BodyStep, PrivateStep
  <2> QED
    BY <1>0, <2>4, <2>5
<1> QED
  BY <1>2, <1>3 DEF NomemInv

LEMMA ZeroInvStep ==
    ASSUME IInv, TypeOK', NEW t \in Threads, NEW b, NEW new, Moves(t, b, new),
           \A y \in Bodies : BodyStep(t, b, new, y)
    PROVE  ZeroInv'
<1>0. /\ TypeOK /\ ShapeInv /\ CullInv /\ NomemInv /\ ZeroInv /\ b \in Nat
      /\ \A q \in Quorums : q \in Bodies
  BY DEF IInv, Moves, Bodies
<1>1. \A x \in Bodies : body[x].triggered => body'[x].triggered
  BY DEF BodyStep
<1>2. ASSUME NEW q \in Quorums, Live(q)', body'[q].ref = 0
      PROVE  /\ ~body'[q].lock => body'[q].members # Nobody
             /\ \/ Settling(q)'
                \/ \E u \in Threads : \E k \in 1..Len(stack'[u]) : Is(u, k, "hard_end", q)'
  <2>0. BodyStep(t, b, new, q) /\ DeleteStep(new, q)
    BY <1>0 DEF BodyStep
  <2>1. CASE body'[q].lock /\ \E j \in 1..Len(new) : new[j].op = "hard_end" /\ new[j].on = q
    <3>1. PICK j \in 1..Len(new) : new[j].op = "hard_end" /\ new[j].on = q
      BY <2>1
    <3>2. b + j \in 1..Len(stack'[t]) /\ stack'[t][b + j] = new[j]
      BY <1>0, MovesFacts
    <3>3. Is(t, b + j, "hard_end", q)'
      BY <3>1, <3>2 DEF Is
    <3> QED
      BY <2>1, <3>2, <3>3
  <2>2. CASE /\ Live(q) /\ body[q].ref = 0
             /\ \/ (body'[q].lock <=> body[q].lock) /\ body'[q].members = body[q].members
                \/ body'[q].lock
                \/ body'[q].members # Nobody
    <3>1. /\ ~body[q].lock => body[q].members # Nobody
          /\ \/ Settling(q)
             \/ \E u \in Threads : \E k \in 1..Len(stack[u]) : Is(u, k, "hard_end", q)
      BY <1>0, <2>2 DEF ZeroInv
    <3>2. ~Pops(t, b, "make", q)
      <4>1. ASSUME Pops(t, b, "make", q) PROVE FALSE
        <5>1. b + 1 \in 1..Len(stack[t]) /\ Is(t, b + 1, "make", q)
          BY <1>0, <4>1 DEF Pops
        <5>2. b + 1 = 1 /\ Private(t, q)
          BY <1>0, <5>1 DEF ShapeInv, ShapeOK, NomemInv, NomemOK, Is, Outermost
        <5> QED
          BY <2>2, <5>2 DEF Private
      <4> QED
        BY <4>1
    <3>3. Settling(q) => Settling(q)'
      <4>1. \A x \in Bodies : body'[q].members[x] <= body[q].members[x]
        BY <2>0, <3>2 DEF BodyStep
      <4> QED
        BY <1>0, <1>1, <4>1, SettlingStep
    <3>4. ASSUME NEW u \in Threads, NEW k \in 1..Len(stack[u]), Is(u, k, "hard_end", q)
          PROVE  \/ Settling(q)
                 \/ \E v \in Threads : \E i \in 1..Len(stack'[v]) : Is(v, i, "hard_end", q)'
      <4>1. CASE k \in 1..Len(stack'[u]) /\ stack'[u][k] = stack[u][k]
        BY <3>4, <4>1 DEF Is
      <4>2. CASE u = t /\ k = b + 1 /\ Len(stack[t]) = b + 1
        <5>1. CullOK(u, k)
          BY <1>0 DEF CullInv
        <5>2. ~(k < Len(stack[u]))
          BY <1>0, <4>2
        <5> QED
          BY <3>4, <5>1, <5>2 DEF CullOK, Is
      <4> QED
        BY <1>0, <4>1, <4>2, MovesFacts
    <3> QED
      BY <2>2, <3>1, <3>3, <3>4
  <2> QED
    BY <1>2, <2>0, <2>1, <2>2 DEF DeleteStep
<1> QED
  BY <1>2 DEF ZeroInv

-----------------------------------------------------------------------------
(* Members and listeners. *)

LinkOK(x) ==
    /\ ~Informs(x) => \A q \in Bodies : body[q].members[x] = body[x].quorums[q]
    /\ \A t \in Threads : \A k \in 1..Len(stack[t]) : Is(t, k, "inform", x) =>
          \A q \in Bodies : body[q].members[x] = Telling(t, k, q)

LEMMA LinkParts ==
    ASSUME TypeOK
    PROVE  LinkInv <=> \A x \in Bodies : LinkOK(x)
<1>1. \A t \in Threads : \A k \in 1..Len(stack[t]) : stack[t][k].on \in Bodies
  <2>1. \A f \in FrameType : f.on \in Bodies
    BY DEF FrameType
  <2>2. \A t \in Threads : \A k \in 1..Len(stack[t]) : stack[t][k] \in FrameType
    BY ElementOfSeq DEF TypeOK
  <2> QED
    BY <2>1, <2>2
<1>2. ASSUME LinkInv, NEW x \in Bodies PROVE LinkOK(x)
  BY <1>2 DEF LinkInv, LinkOK, Is
<1>3. ASSUME \A x \in Bodies : LinkOK(x) PROVE LinkInv
  <2>1. ASSUME NEW t \in Threads, NEW k \in 1..Len(stack[t]), stack[t][k].op = "inform",
               NEW q \in Bodies
        PROVE  body[q].members[stack[t][k].on] = Telling(t, k, q)
    <3>1. PICK x \in Bodies : x = stack[t][k].on
      BY <1>1
    <3>2. LinkOK(x) /\ Is(t, k, "inform", x)
      BY <1>3, <2>1, <3>1 DEF Is
    <3> QED
      BY <3>1, <3>2 DEF LinkOK
  <2>2. ASSUME NEW x \in Bodies, ~Informs(x), NEW q \in Bodies
        PROVE  body[q].members[x] = body[x].quorums[q]
    BY <1>3, <2>2 DEF LinkOK
  <2> QED
    BY <2>1, <2>2 DEF LinkInv
<1> QED
  BY <1>2, <1>3

\* The step is not about the members and listeners of x.
LinkSame(t, b, new, x) ==
    /\ \A q \in Bodies : body'[q].members[x] = body[q].members[x] /\ body'[x].quorums[q] = body[x].quorums[q]
    /\ ~Pops(t, b, "inform", x)
    /\ ~(Len(stack[t]) = b + 1 /\ stack[t][b + 1].op = "member" /\ stack[t][b + 1].src = x)
    /\ \A j \in 1..Len(new) : /\ ~(new[j].op = "inform" /\ new[j].on = x)
                              /\ ~(new[j].op = "member" /\ new[j].src = x)

LEMMA MemberBelow ==
    ASSUME ShapeInv, NEW u \in Threads, NEW k \in 1..Len(stack[u]), k + 1 \in 1..Len(stack[u]),
           NEW q, NEW x, Is(u, k + 1, "member", q), Is(u, k, "inform", x)
    PROVE  stack[u][k + 1].src = x
<1>1. ShapeOK(u, k + 1)
  BY DEF ShapeInv
<1>2. Is(u, k + 1 - 1, "inform", stack[u][k + 1].src)
  BY <1>1 DEF ShapeOK, Is
<1>3. k + 1 - 1 = k
  OBVIOUS
<1> QED
  BY <1>2, <1>3 DEF Is

LEMMA LinkStep ==
    ASSUME IInv, ShapeInv', TypeOK', NEW t \in Threads, NEW b, NEW new, Moves(t, b, new),
           \A x \in Bodies : LinkSame(t, b, new, x) \/ LinkOK(x)'
    PROVE  LinkInv'
<1>0. TypeOK /\ ShapeInv /\ LinkInv /\ b \in Nat /\ new \in Seq(FrameType)
  BY DEF IInv, Moves
<1>1. ASSUME NEW x \in Bodies, LinkSame(t, b, new, x) PROVE LinkOK(x)'
  <2>1. LinkOK(x)
    BY <1>0, LinkParts
  <2>2. ASSUME NEW u \in Threads, NEW k \in 1..Len(stack[u]), Is(u, k, "inform", x)
        PROVE  k \in 1..Len(stack'[u]) /\ stack'[u][k] = stack[u][k] /\ Is(u, k, "inform", x)'
    <3>1. ~(u = t /\ k = b + 1 /\ Len(stack[t]) = b + 1)
      BY <1>1, <2>2 DEF LinkSame, Pops
    <3> QED
      BY <1>0, <2>2, <3>1, MovesFacts DEF Is
  <2>3. ASSUME NEW u \in Threads, NEW k \in 1..Len(stack'[u]), Is(u, k, "inform", x)'
        PROVE  k \in 1..Len(stack[u]) /\ stack'[u][k] = stack[u][k] /\ Is(u, k, "inform", x)
    <3>1. CASE k \in 1..Len(stack[u]) /\ stack'[u][k] = stack[u][k]
      BY <2>3, <3>1 DEF Is
    <3>2. CASE u = t /\ k - b \in 1..Len(new) /\ stack'[u][k] = new[k - b]
      BY <1>1, <2>3, <3>2 DEF LinkSame, Is
    <3> QED
      BY <1>0, <3>1, <3>2, MovesFacts
  <2>4. Informs(x)' <=> Informs(x)
    BY <2>2, <2>3 DEF Informs
  <2>5. ASSUME NEW u \in Threads, NEW k \in 1..Len(stack'[u]), Is(u, k, "inform", x)', NEW q \in Bodies
        PROVE  body'[q].members[x] = Telling(u, k, q)'
    <3>1. k \in 1..Len(stack[u]) /\ stack'[u][k] = stack[u][k] /\ Is(u, k, "inform", x)
      BY <2>3, <2>5
    <3>2. body[q].members[x] = Telling(u, k, q)
      BY <2>1, <3>1 DEF LinkOK
    <3>3. Len(stack[u]) \in Nat /\ Len(stack'[u]) \in Nat
      BY <1>0, MovesFacts
    <3>4. ASSUME k < Len(stack[u]), Is(u, k + 1, "member", q)
          PROVE  k < Len(stack'[u]) /\ Is(u, k + 1, "member", q)'
      <4>1. k + 1 \in 1..Len(stack[u])
        BY <3>1, <3>3, <3>4
      <4>2. stack[u][k + 1].src = x /\ stack[u][k + 1].op = "member"
        BY <1>0, <3>1, <3>4, <4>1, MemberBelow DEF Is
      <4>3. ~(u = t /\ k + 1 = b + 1 /\ Len(stack[t]) = b + 1)
        BY <1>1, <4>2 DEF LinkSame
      <4>4. k + 1 \in 1..Len(stack'[u]) /\ stack'[u][k + 1] = stack[u][k + 1]
        BY <1>0, <4>1, <4>3, MovesFacts, SMTT(60)
      <4> QED
        BY <3>3, <3>4, <4>4 DEF Is
    <3>5. ASSUME k < Len(stack'[u]), Is(u, k + 1, "member", q)'
          PROVE  k < Len(stack[u]) /\ Is(u, k + 1, "member", q)
      <4>1. k + 1 \in 1..Len(stack'[u])
        BY <3>1, <3>3, <3>5
      <4>2. stack'[u][k + 1].src = x /\ stack'[u][k + 1].op = "member"
        <5>1. ShapeOK(u, k + 1)'
          BY <4>1 DEF ShapeInv
        <5>2. Is(u, k + 1 - 1, "inform", stack[u][k + 1].src)'
          BY <3>5, <5>1 DEF ShapeOK, Is
        <5>3. k + 1 - 1 = k
          OBVIOUS
        <5> QED
          BY <2>5, <3>5, <5>2, <5>3 DEF Is
      <4>3. CASE k + 1 \in 1..Len(stack[u]) /\ stack'[u][k + 1] = stack[u][k + 1]
        BY <3>3, <3>5, <4>3 DEF Is
      <4>4. CASE u = t /\ k + 1 - b \in 1..Len(new) /\ stack'[u][k + 1] = new[k + 1 - b]
        BY <1>1, <4>2, <4>4 DEF LinkSame
      <4>5. PICK i \in 1..Len(stack'[u]) : i = k + 1
        BY <4>1
      <4>6. \/ i \in 1..Len(stack[u]) /\ stack'[u][i] = stack[u][i]
            \/ u = t /\ i - b \in 1..Len(new) /\ stack'[u][i] = new[i - b]
        BY <1>0, MovesFacts
      <4>7. i - b = k + 1 - b
        <5>1. k \in Nat /\ i \in Nat /\ b \in Nat
          BY <1>0, <3>1, <3>3
        <5> QED
          BY <4>5, <5>1
      <4> QED
        BY <4>3, <4>4, <4>5, <4>6, <4>7
    <3>6. (k < Len(stack'[u]) /\ Is(u, k + 1, "member", q)') <=> (k < Len(stack[u]) /\ Is(u, k + 1, "member", q))
      BY <3>4, <3>5
    <3>7. Telling(u, k, q)' = Telling(u, k, q)
      BY <3>1, <3>6 DEF Telling
    <3> QED
      BY <1>1, <3>2, <3>7 DEF LinkSame
  <2>6. ASSUME ~Informs(x)', NEW q \in Bodies PROVE body'[q].members[x] = body'[x].quorums[q]
    <3>1. body[q].members[x] = body[x].quorums[q]
      BY <2>1, <2>4, <2>6 DEF LinkOK
    <3> QED
      BY <1>1, <3>1 DEF LinkSame
  <2> QED
    BY <2>5, <2>6 DEF LinkOK
<1>2. \A x \in Bodies : LinkOK(x)'
  BY <1>1
<1>3. LinkInv' <=> \A x \in Bodies : LinkOK(x)'
  <2>1. \A u \in Threads : \A k \in 1..Len(stack'[u]) : stack'[u][k].on \in Bodies
    BY <1>0, MovesFacts
  <2>2. ASSUME NEW u \in Threads, NEW k \in 1..Len(stack'[u]), stack'[u][k].op = "inform",
               NEW q \in Bodies
        PROVE  body'[q].members[stack'[u][k].on] = Telling(u, k, q)'
    <3>1. PICK x \in Bodies : x = stack'[u][k].on
      BY <2>1
    <3>2. LinkOK(x)' /\ Is(u, k, "inform", x)'
      BY <1>2, <2>2, <3>1 DEF Is
    <3> QED
      BY <3>1, <3>2 DEF LinkOK
  <2>3. ASSUME NEW x \in Bodies, ~Informs(x)', NEW q \in Bodies
        PROVE  body'[q].members[x] = body'[x].quorums[q]
    BY <1>2, <2>3 DEF LinkOK
  <2>4. LinkInv'
    BY <2>2, <2>3 DEF LinkInv
  <2> QED
    BY <1>2, <2>4
<1> QED
  BY <1>2, <1>3

-----------------------------------------------------------------------------
(* Coroutines. *)

LEMMA CoroutineStep ==
    ASSUME IInv, NEW t \in Threads, NEW b, NEW new, Moves(t, b, new), at' = at, coh' = coh,
           \A x \in Bodies : body'[x].coroutines \subseteq body[x].coroutines,
           ~(Len(stack[t]) = 1 /\ b = 0 /\ stack[t][1].op = "claimed")
    PROVE  CoroutineInv'
<1>0. TypeOK /\ CoroutineInv /\ b \in Nat
  BY DEF IInv, Moves
<1>1. ASSUME NEW u \in Threads, coh[u] # None
      PROVE  stack'[u] # << >> /\ stack'[u][1].op = "claimed"
  <2>1. stack[u] # << >> /\ stack[u][1].op = "claimed"
    BY <1>0, <1>1 DEF CoroutineInv
  <2>2. CASE u # t
    BY <2>1, <2>2 DEF Moves, Onto
  <2>3. CASE u = t
    <3>1. stack[t] \in Seq(FrameType) /\ stack'[t] \in Seq(FrameType) /\ Len(new) \in Nat
      BY <1>0 DEF TypeOK, Moves, Onto
    <3>2. b >= 1
      <4>1. Len(stack[t]) # 0 /\ stack[t][1].op = "claimed"
        BY <2>1, <2>3, <3>1
      <4>2. Len(stack[t]) = b + 1
        BY <4>1 DEF Moves
      <4> QED
        BY <1>0, <4>1, <4>2
    <3>3. stack'[t][1] = stack[t][1] /\ Len(stack'[t]) = b + Len(new)
      BY <1>0, <3>2 DEF Moves, Onto
    <3> QED
      BY <1>0, <2>1, <2>3, <3>1, <3>2, <3>3
  <2> QED
    BY <2>2, <2>3
<1> QED
  BY <1>0, <1>1 DEF CoroutineInv

-----------------------------------------------------------------------------
(* The invariant after a step. *)

FrameOK(t, k) ==
    ShapeOK(t, k) /\ HandleOK(t, k) /\ OnceOK(stack[t][k]) /\ CullOK(t, k) /\ NomemOK(t, k)

\* At most one of the new calls owns a lock, and at most one informs.
NewFrames(t, b, new) ==
    /\ \A i, j \in 1..Len(new) : new[i].op \in Owners /\ new[j].op \in Owners => i = j
    /\ \A i, j \in 1..Len(new) : new[i].op = "inform" /\ new[j].op = "inform" => i = j
    /\ \A j \in 1..Len(new) : new[j].op = "inform" =>
          ~body[new[j].on].triggered \/ Pops(t, b, "inform", new[j].on)

\* A driver's queue gets only triggered quorums.
QueueStep ==
    \A u \in Threads : \A i \in 1..Len(queue'[u]) :
        \/ \E j \in 1..Len(queue[u]) : queue'[u][i] = queue[u][j] /\ queue'[u][i] \in Bodies
        \/ queue'[u][i] \in Quorums => body'[queue'[u][i]].triggered

LEMMA ShapeAfter ==
    ASSUME Prompt, IInv, NEW t \in Threads, NEW b, NEW new, Moves(t, b, new),
           \A j \in 1..Len(new) : ShapeOK(t, b + j)'
    PROVE  ShapeInv'
<1>0. TypeOK /\ ShapeInv /\ b \in Nat
  BY DEF IInv, Moves
<1>1. ASSUME NEW k \in 1..b PROVE stack[t][k].op # "unlock"
  <2>1. k \in 1..Len(stack[t]) /\ k # Len(stack[t])
    BY <1>0 DEF Moves
  <2> QED
    BY <1>0, <2>1 DEF ShapeInv, ShapeOK
<1> QED
  BY <1>0, <1>1, ShapeStep

LEMMA StepInv ==
    ASSUME Prompt, IInv, NEW t \in Threads, Runs(t), NEW b, NEW new, Moves(t, b, new),
           TypeOK', \A y \in Bodies : BodyOK(y, body'[y]), RefInv',
           \A y \in Bodies : BodyStep(t, b, new, y), CullEnds(t, b, new),
           HeldStep(t, b), QueueStep, NewFrames(t, b, new),
           \A j \in 1..Len(new) : FrameOK(t, b + j)',
           \A x \in Bodies : LinkSame(t, b, new, x) \/ LinkOK(x)',
           CoroutineInv'
    PROVE  IInv'
<1>0. TypeOK /\ ShapeInv /\ HandleInv /\ LockInv /\ OnceInv /\ b \in Nat
  BY DEF IInv, Moves
<1>1. ShapeInv'
  BY ShapeAfter DEF FrameOK
<1>2. HandleInv'
  BY <1>0, HandleStep DEF FrameOK
<1>3. LockInv'
  <2>1. LockStep(t, b, new)
    <3>1. \A j \in 1..Len(new) : new[j] \in FrameType /\ new[j].on \in Bodies
      <4>1. \A f \in FrameType : f.on \in Bodies
        BY DEF FrameType
      <4>2. \A j \in 1..Len(new) : new[j] \in FrameType
        BY ElementOfSeq DEF Moves
      <4> QED
        BY <4>1, <4>2
    <3>2. ASSUME NEW j \in 1..Len(new), new[j].op \in Owners
          PROVE  ~body[new[j].on].lock \/ PopsOwner(t, b, new[j].on)
      <4>1. BodyStep(t, b, new, new[j].on) /\ NewOwner(new, new[j].on)
        BY <3>1, <3>2 DEF NewOwner
      <4> QED
        BY <4>1 DEF BodyStep
    <3>3. \A x \in Bodies : body'[x].lock <=> NewOwner(new, x) \/ (body[x].lock /\ ~PopsOwner(t, b, x))
      BY DEF BodyStep
    <3> QED
      BY <3>2, <3>3 DEF LockStep, NewOwner, NewFrames
  <2> QED
    BY <1>0, <2>1, LockInvStep
<1>4. OnceInv'
  <2>1. ASSUME NEW u \in Threads, NEW k \in 1..Len(stack[u]), u # t
        PROVE  stack[u][k].op # "unlock"
    <3>1. stack[u][k] \in Frames(u)
      <4>1. stack[u] \in Seq(FrameType)
        BY <1>0 DEF TypeOK
      <4> QED
        BY <4>1 DEF Frames
    <3> QED
      BY <2>1, <3>1 DEF Runs
  <2>2. ASSUME NEW k \in 1..Len(stack[t]), k <= b PROVE stack[t][k].op # "unlock"
    <3>1. k # Len(stack[t])
      BY <1>0, <2>2 DEF Moves
    <3> QED
      BY <1>0, <3>1 DEF ShapeInv, ShapeOK
  <2>3. TriggerStep(t, b) /\ ZeroStep(t, b)
    BY DEF TriggerStep, ZeroStep, BodyStep
  <2>4. \A j \in 1..Len(new) : OnceOK(new[j])'
    <3>1. ASSUME NEW j \in 1..Len(new) PROVE OnceOK(new[j])'
      <4>1. stack'[t][b + j] = new[j] /\ OnceOK(stack[t][b + j])'
        <5>1. stack'[t][b + j] = new[j]
          BY <1>0, MovesFacts
        <5>2. FrameOK(t, b + j)'
          BY <1>0
        <5> QED
          BY <5>1, <5>2 DEF FrameOK
      <4> QED
        BY <4>1 DEF OnceOK
    <3> QED
      BY <3>1
  <2> QED
    BY <1>0, <2>1, <2>2, <2>3, <2>4, OnceStep DEF NewFrames, QueueStep
<1>5. CullInv'
  BY CullStep DEF FrameOK
<1>6. NomemInv'
  BY NomemStep DEF FrameOK
<1>7. ZeroInv'
  BY ZeroInvStep
<1>8. LinkInv'
  BY <1>1, LinkStep
<1>9. BodyInv'
  BY DEF BodyInv
<1> QED
  BY <1>1, <1>2, <1>3, <1>4, <1>5, <1>6, <1>7, <1>8, <1>9 DEF IInv

-----------------------------------------------------------------------------
(* What the invariant says where a step begins. *)

\* The call that thread t is in, with b calls around it.
Popped(t, b, f) ==
    /\ b \in Nat /\ Len(stack[t]) = b + 1 /\ stack[t][b + 1] = f
    /\ f \in FrameType /\ f.on \in Bodies /\ f.left \in [Bodies -> Nat] /\ FrameOK(t, b + 1)

LEMMA InFacts ==
    ASSUME IInv, NEW t \in Threads, NEW op, In(t, op)
    PROVE  \E b \in Nat, f \in FrameType :
              /\ Popped(t, b, f) /\ f = Top(t) /\ f.op = op /\ Runs(t)
              /\ \A new \in Seq(FrameType) : Replace(t, new) => Moves(t, b, new)
<1>0. TypeOK /\ ShapeInv /\ HandleInv /\ OnceInv /\ CullInv /\ NomemInv
  BY DEF IInv
<1>1. stack[t] \in Seq(FrameType) /\ stack[t] # << >> /\ Len(stack[t]) \in Nat \ {0}
  <2>1. stack[t] \in Seq(FrameType) /\ stack[t] # << >>
    BY <1>0 DEF TypeOK, In, Idle
  <2> QED
    BY <2>1
<1>2. PICK b \in Nat : Len(stack[t]) = b + 1
  <2>1. Len(stack[t]) - 1 \in Nat /\ Len(stack[t]) = Len(stack[t]) - 1 + 1
    BY <1>1
  <2> QED
    BY <2>1
<1>3. b + 1 \in 1..Len(stack[t])
  BY <1>2
<1>4. PICK f \in FrameType : f = stack[t][b + 1]
  BY <1>1, <1>3, ElementOfSeq
<1>5. f.on \in Bodies /\ f.left \in [Bodies -> Nat]
  BY DEF FrameType
<1>6. f = Top(t)
  BY <1>1, <1>2, <1>4 DEF Top, Last
<1>7. FrameOK(t, b + 1)
  BY <1>0, <1>3 DEF FrameOK, ShapeInv, HandleInv, OnceInv, CullInv, NomemInv
<1>8. Popped(t, b, f)
  BY <1>2, <1>4, <1>5, <1>7 DEF Popped
<1>9. ASSUME NEW new \in Seq(FrameType), Replace(t, new) PROVE Moves(t, b, new)
  <2>1. Onto(t, Len(stack[t]) - 1, new)
    BY <1>0, <1>9, ReplaceFacts DEF In
  <2>2. Len(stack[t]) - 1 = b
    BY <1>2
  <2> QED
    BY <1>2, <2>1, <2>2 DEF Moves
<1> QED
  BY <1>6, <1>8, <1>9 DEF In

\* What the call adds to the references to y.
PopWeight(t, b, y) == IF PopsCounted(t, b, y) THEN 1 ELSE 0

LEMMA PoppedFacts ==
    ASSUME NEW t \in Threads, NEW b, NEW f, Popped(t, b, f)
    PROVE  /\ \A op, y : Pops(t, b, op, y) <=> f.op = op /\ f.on = y
           /\ \A y : PopsOwner(t, b, y) <=> f.op \in Owners /\ f.on = y
           /\ \A y : PopsCounted(t, b, y) <=> Counts(f) /\ f.on = y
           /\ b + 1 \in 1..Len(stack[t])
           /\ b = 0 => \A y : Private(t, y) => f.op \in {"make", "publish"} /\ f.on = y
<1>1. b \in Nat /\ Len(stack[t]) = b + 1 /\ stack[t][b + 1] = f /\ b + 1 \in 1..Len(stack[t])
  BY DEF Popped
<1>2. ASSUME b = 0, NEW y, Private(t, y) PROVE f.op \in {"make", "publish"} /\ f.on = y
  <2>1. stack[t][1] = f
    BY <1>1, <1>2
  <2> QED
    BY <1>2, <2>1 DEF Private, Is
<1> QED
  BY <1>1, <1>2 DEF Pops, PopsOwner, PopsCounted, Is, Owns, Weight

LEMMA IdleFacts ==
    ASSUME IInv, NEW t \in Threads, Idle(t)
    PROVE  /\ Len(stack[t]) = 0
           /\ \A b, op, y : b = 0 => ~Pops(t, b, op, y) /\ ~PopsOwner(t, b, y) /\ ~PopsCounted(t, b, y)
           /\ \A b, y : b = 0 => PopWeight(t, b, y) = 0 /\ ~Private(t, y)
           /\ coh[t] = None
<1>1. Len(stack[t]) = 0
  BY DEF Idle
<1>2. coh[t] = None
  BY DEF IInv, CoroutineInv, Idle
<1>3. \A b, op, y : b = 0 => ~Pops(t, b, op, y) /\ ~PopsOwner(t, b, y) /\ ~PopsCounted(t, b, y)
  BY <1>1 DEF Pops, PopsOwner, PopsCounted
<1>4. \A b, y : b = 0 => PopWeight(t, b, y) = 0
  BY <1>3 DEF PopWeight
<1>5. \A y : ~Private(t, y)
  BY DEF Private, Idle
<1> QED
  BY <1>1, <1>2, <1>3, <1>4, <1>5

\* Whatever is in use is alive.
LEMMA LiveFacts ==
    ASSUME IInv, NEW x \in Bodies
    PROVE  /\ body[x] \in BodyType /\ BodyOK(x, body[x]) /\ body[x].ref \in Nat
           /\ body[x].members \in [Bodies -> Nat] /\ body[x].quorums \in [Bodies -> Nat]
           /\ x \in Quorums <=> x \notin Events
           /\ body[x].ref > 0 => body[x].life = "live"
           /\ body[x].lock => body[x].life = "live"
           /\ \A y \in Bodies : body[x].members[y] > 0 \/ body[x].quorums[y] > 0 => body[x].life = "live"
<1>1. body[x] \in BodyType /\ BodyOK(x, body[x])
  BY DEF IInv, TypeOK, BodyInv
<1>2. /\ body[x].ref \in Nat /\ body[x].members \in [Bodies -> Nat]
      /\ body[x].quorums \in [Bodies -> Nat]
  BY <1>1 DEF BodyType
<1>3. x \in Quorums <=> x \notin Events
  BY QuorumAssumption DEF Bodies
<1>4. /\ body[x].ref > 0 => body[x].life = "live"
      /\ body[x].lock => body[x].life = "live"
  BY <1>1, <1>2 DEF BodyOK
<1>5. \A y \in Bodies : body[x].members[y] > 0 \/ body[x].quorums[y] > 0 => body[x].life = "live"
  <2>1. \A y \in Bodies : ~(Nobody[y] > 0)
    BY NobodyFacts
  <2> QED
    BY <1>1, <2>1 DEF BodyOK
<1> QED
  BY <1>1, <1>2, <1>3, <1>4, <1>5

\* A quorum that its maker keeps to itself has no other reference.
LEMMA PrivateAlone ==
    ASSUME IInv, NEW u \in Threads, NEW q \in Quorums, Private(u, q)
    PROVE  /\ HeldCount(q) = 1 /\ QueueCount(q) = 0 /\ AtCount(q) = 0 /\ MemCount(q) = 0
           /\ \A v \in Threads : held[v][q] > 0 => v = u
           /\ \A v \in Threads : \A k \in 1..Len(stack[v]) :
                 Counts(stack[v][k]) /\ stack[v][k].on = q => v = u /\ k = 1
<1>0. /\ TypeOK /\ RefInv /\ q \in Bodies
  BY DEF IInv, Bodies
<1>1. /\ 1 \in 1..Len(stack[u]) /\ held[u][q] > 0
      /\ \/ Is(u, 1, "make", q) /\ body[q].ref = 1
         \/ Is(u, 1, "publish", q) /\ body[q].ref = 2
  <2>1. stack[u] \in Seq(FrameType) /\ stack[u] # << >>
    BY <1>0 DEF TypeOK, Private
  <2> QED
    BY <2>1 DEF Private
<1>2. Is(u, 1, "publish", q) => Counts(stack[u][1]) /\ stack[u][1].on = q
  BY DEF Is, Counts
<1>3. HeldCount(q) >= 1 /\ (Is(u, 1, "publish", q) => CallCount(q) >= 1)
  BY <1>0, <1>1, <1>2, Referrers
<1>4. /\ HeldCount(q) \in Nat /\ QueueCount(q) \in Nat /\ AtCount(q) \in Nat
      /\ MemCount(q) \in Nat /\ CallCount(q) \in Nat
      /\ body[q].ref = HeldCount(q) + QueueCount(q) + AtCount(q) + MemCount(q) + CallCount(q)
  BY <1>0, Referrers
<1>5. /\ HeldCount(q) = 1 /\ QueueCount(q) = 0 /\ AtCount(q) = 0 /\ MemCount(q) = 0
      /\ Is(u, 1, "make", q) => CallCount(q) = 0
      /\ Is(u, 1, "publish", q) => CallCount(q) = 1
  <2>1. ~(Is(u, 1, "make", q) /\ Is(u, 1, "publish", q))
    BY DEF Is
  <2>2. CASE Is(u, 1, "make", q) /\ body[q].ref = 1
    BY <1>3, <1>4, <2>1, <2>2
  <2>3. CASE Is(u, 1, "publish", q) /\ body[q].ref = 2
    BY <1>3, <1>4, <2>1, <2>3
  <2> QED
    BY <1>1, <2>2, <2>3
<1>6. ASSUME NEW v \in Threads, held[v][q] > 0 PROVE v = u
  <2>1. v # u => HeldCount(q) >= 2
    BY <1>0, <1>1, <1>6, Referrers
  <2> QED
    BY <1>5, <2>1
<1>7. ASSUME NEW v \in Threads, NEW k \in 1..Len(stack[v]), Counts(stack[v][k]), stack[v][k].on = q
      PROVE  v = u /\ k = 1
  <2>1. CallCount(q) >= 1
    BY <1>0, <1>7, Referrers
  <2>2. Is(u, 1, "publish", q)
    BY <1>1, <1>5, <2>1
  <2>3. v # u \/ k # 1 => CallCount(q) >= 2
    BY <1>0, <1>1, <1>2, <1>7, <2>2, Referrers
  <2> QED
    BY <1>5, <2>2, <2>3
<1> QED
  BY <1>5, <1>6, <1>7

\* A body that nobody is a member of and no coroutine is suspended on has no listeners.
LEMMA NoListeners ==
    ASSUME IInv, NEW x \in Bodies, MemCount(x) = 0, AtCount(x) = 0
    PROVE  body[x].quorums = Nobody /\ body[x].coroutines = {}
<1>0. TypeOK /\ RefInv /\ LinkInv /\ OnceInv /\ CoroutineInv
  BY DEF IInv
<1>1. body[x].coroutines = {}
  <2>1. body[x].coroutines \subseteq Coroutines
    BY <1>0 DEF TypeOK, BodyType
  <2>2. ASSUME NEW c \in body[x].coroutines PROVE FALSE
    <3>1. c \in Coroutines /\ at[c] = x
      BY <1>0, <2>1 DEF CoroutineInv
    <3>2. AtCount(x) >= 1
      BY <1>0, <3>1, Referrers
    <3> QED
      BY <3>2
  <2> QED
    BY <2>2
<1>2. CASE body[x].triggered
  BY <1>1, <1>2, LiveFacts DEF BodyOK
<1>3. CASE ~body[x].triggered
  <2>1. ~Informs(x)
    BY <1>0, <1>3 DEF Informs, OnceInv, OnceOK, Is
  <2>2. ASSUME NEW q \in Bodies PROVE body[x].quorums[q] = 0
    <3>1. body[q].members[x] = body[x].quorums[q]
      BY <1>0, <2>1 DEF LinkInv
    <3>2. ~(body[q].members[x] > 0)
      <4>1. body[q].members[x] > 0 => MemCount(x) >= 1
        BY <1>0, Referrers
      <4> QED
        BY <4>1
    <3>3. body[x].quorums[q] \in Nat
      BY LiveFacts
    <3> QED
      BY <3>1, <3>2, <3>3
  <2>3. body[x].quorums = Nobody
    BY <2>2, BagEmpty, LiveFacts
  <2> QED
    BY <1>1, <2>3
<1> QED
  BY <1>2, <1>3

-----------------------------------------------------------------------------
(* Reference counts after a step. *)

LEMMA RefAfter ==
    ASSUME IInv, NEW t \in Threads, NEW b, NEW new, Moves(t, b, new), Len(new) <= 3,
           \A x \in Bodies :
              /\ IsFiniteSet(HeldRefs(x)') /\ IsFiniteSet(QueueRefs(x)')
              /\ IsFiniteSet(AtRefs(x)') /\ IsFiniteSet(MemRefs(x)')
              /\ body'[x].ref = HeldCount(x)' + QueueCount(x)' + AtCount(x)' + MemCount(x)'
                    + (CallCount(x) - PopWeight(t, b, x)
                       + Weight(new, 1, x) + Weight(new, 2, x) + Weight(new, 3, x))
    PROVE  RefInv'
<1>0. TypeOK /\ RefInv /\ b \in Nat /\ new \in Seq(FrameType) /\ Onto(t, b, new) /\ Len(stack[t]) \in {b, b + 1}
  BY DEF IInv, Moves
<1>1. ASSUME NEW x \in Bodies
      PROVE  /\ IsFiniteSet(CallRefs(x)')
             /\ CallCount(x)' = CallCount(x) - PopWeight(t, b, x)
                                + Weight(new, 1, x) + Weight(new, 2, x) + Weight(new, 3, x)
  <2>1. IsFiniteSet(CallRefs(x))
    BY <1>0 DEF RefInv
  <2>2. PopWeight(t, b, x) = Weight(stack[t], b + 1, x)
    <3>1. Len(stack[t]) = b + 1 <=> b + 1 \in 1..Len(stack[t])
      BY <1>0
    <3> QED
      BY <3>1 DEF PopWeight, PopsCounted, Weight
  <2> QED
    BY <1>0, <2>1, <2>2, CallStep
<1> QED
  BY <1>1 DEF RefInv, HeldCount, QueueCount, AtCount, MemCount, CallCount

LEMMA Regroup ==
    ASSUME NEW h \in Nat, NEW q \in Nat, NEW a \in Nat, NEW m \in Nat, NEW c \in Nat,
           NEW w \in {0, 1}, NEW w1 \in {0, 1}, NEW w2 \in {0, 1}, NEW w3 \in {0, 1},
           NEW r, NEW s, r = h + q + a + m + c, s = r - w + w1 + w2 + w3
    PROVE  s = h + q + a + m + (c - w + w1 + w2 + w3)
OBVIOUS

LEMMA FiniteRefs ==
    ASSUME IInv, NEW x \in Bodies
    PROVE  /\ IsFiniteSet(HeldRefs(x)) /\ IsFiniteSet(QueueRefs(x)) /\ IsFiniteSet(AtRefs(x))
           /\ IsFiniteSet(MemRefs(x)) /\ IsFiniteSet(CallRefs(x))
           /\ HeldCount(x) \in Nat /\ QueueCount(x) \in Nat /\ AtCount(x) \in Nat
           /\ MemCount(x) \in Nat /\ CallCount(x) \in Nat
           /\ body[x].ref = HeldCount(x) + QueueCount(x) + AtCount(x) + MemCount(x) + CallCount(x)
<1>0. TypeOK /\ RefInv
  BY DEF IInv
<1> QED
  BY <1>0, Referrers DEF RefInv

\* A step of a call that changes only bodies and their references.
LEMMA RefPlain ==
    ASSUME IInv, NEW t \in Threads, NEW b, NEW new, Moves(t, b, new), Len(new) <= 3,
           held' = held, queue' = queue, at' = at,
           \A x \in Bodies :
              /\ body'[x].members = body[x].members
              /\ body'[x].ref = body[x].ref - PopWeight(t, b, x)
                       + Weight(new, 1, x) + Weight(new, 2, x) + Weight(new, 3, x)
    PROVE  RefInv'
<1>1. ASSUME NEW x \in Bodies
      PROVE  /\ IsFiniteSet(HeldRefs(x)') /\ IsFiniteSet(QueueRefs(x)')
             /\ IsFiniteSet(AtRefs(x)') /\ IsFiniteSet(MemRefs(x)')
             /\ body'[x].ref = HeldCount(x)' + QueueCount(x)' + AtCount(x)' + MemCount(x)'
                    + (CallCount(x) - PopWeight(t, b, x)
                       + Weight(new, 1, x) + Weight(new, 2, x) + Weight(new, 3, x))
  <2>1. /\ HeldRefs(x)' = HeldRefs(x) /\ HeldCount(x)' = HeldCount(x)
        /\ QueueRefs(x)' = QueueRefs(x) /\ QueueCount(x)' = QueueCount(x)
        /\ AtRefs(x)' = AtRefs(x) /\ AtCount(x)' = AtCount(x)
        /\ MemRefs(x)' = MemRefs(x) /\ MemCount(x)' = MemCount(x)
    BY SameRefs, MemSame
  <2>2. \A s, i, y : Weight(s, i, y) \in {0, 1} /\ PopWeight(s, i, y) \in {0, 1}
    BY DEF Weight, PopWeight
  <2>4. body'[x].ref = HeldCount(x) + QueueCount(x) + AtCount(x) + MemCount(x)
                    + (CallCount(x) - PopWeight(t, b, x)
                       + Weight(new, 1, x) + Weight(new, 2, x) + Weight(new, 3, x))
    <3>1. PICK h, q, a, m, c \in Nat :
            /\ h = HeldCount(x) /\ q = QueueCount(x) /\ a = AtCount(x) /\ m = MemCount(x)
            /\ c = CallCount(x) /\ body[x].ref = h + q + a + m + c
      BY FiniteRefs, SMTT(60)
    <3>2. PICK w, w1, w2, w3 \in {0, 1} :
            /\ w = PopWeight(t, b, x) /\ w1 = Weight(new, 1, x)
            /\ w2 = Weight(new, 2, x) /\ w3 = Weight(new, 3, x)
      BY <2>2
    <3>3. body'[x].ref = body[x].ref - w + w1 + w2 + w3
      BY <3>2
    <3>4. body'[x].ref = h + q + a + m + (c - w + w1 + w2 + w3)
      <4>1. PICK r, s : /\ r = body[x].ref /\ s = body'[x].ref
                        /\ r = h + q + a + m + c /\ s = r - w + w1 + w2 + w3
        BY <3>1, <3>3
      <4>2. s = h + q + a + m + (c - w + w1 + w2 + w3)
        <5>1. r = h + q + a + m + c /\ s = r - w + w1 + w2 + w3
          BY <4>1
        <5>2. h \in Nat /\ q \in Nat /\ a \in Nat /\ m \in Nat /\ c \in Nat
          BY <3>1
        <5>3. w \in {0, 1} /\ w1 \in {0, 1} /\ w2 \in {0, 1} /\ w3 \in {0, 1}
          BY <3>2
        <5> QED
          BY ONLY <5>1, <5>2, <5>3, Regroup
      <4> QED
        BY <4>1, <4>2
    <3> QED
      BY <3>1, <3>2, <3>4
  <2> QED
    BY <2>1, <2>4, FiniteRefs
<1> QED
  BY <1>1, RefAfter

-----------------------------------------------------------------------------
(* Steps that leave the lists of the bodies alone. *)

LEMMA LinkQuiet ==
    ASSUME NEW t \in Threads, NEW b, NEW new, NEW x \in Bodies,
           \A y \in Bodies : body'[y].members = body[y].members /\ body'[y].quorums = body[y].quorums,
           Len(stack[t]) = b + 1 => stack[t][b + 1].op \notin {"inform", "member"},
           \A j \in 1..Len(new) : new[j].op \notin {"inform", "member"}
    PROVE  LinkSame(t, b, new, x)
BY DEF LinkSame, Pops, Is

LEMMA PlainStep ==
    ASSUME Prompt, IInv, NEW t \in Threads, NEW b, NEW f, Popped(t, b, f), Runs(t),
           NEW new, Moves(t, b, new), Len(new) <= 3,
           f.op \notin {"inform", "member", "claimed", "cull"},
           \A j \in 1..Len(new) : new[j].op \notin {"inform", "member"},
           \A i, j \in 1..Len(new) : new[i].op \in Owners /\ new[j].op \in Owners => i = j,
           held' = held, queue' = queue, at' = at, coh' = coh, body' \in [Bodies -> BodyType],
           \A y \in Bodies :
              /\ BodyOK(y, body'[y]) /\ BodyStep(t, b, new, y)
              /\ body'[y].members = body[y].members /\ body'[y].quorums = body[y].quorums
              /\ body'[y].coroutines \subseteq body[y].coroutines
              /\ body'[y].ref = body[y].ref - PopWeight(t, b, y)
                       + Weight(new, 1, y) + Weight(new, 2, y) + Weight(new, 3, y),
           \A j \in 1..Len(new) : FrameOK(t, b + j)'
    PROVE  IInv'
<1>0. TypeOK /\ b \in Nat /\ Len(stack[t]) = b + 1 /\ stack[t][b + 1] = f
  BY DEF IInv, Popped
<1>1. TypeOK'
  BY <1>0 DEF TypeOK, Moves, Onto
<1>2. RefInv'
  BY RefPlain
<1>3. CullEnds(t, b, new)
  BY PoppedFacts DEF CullEnds
<1>4. HeldStep(t, b)
  <2>1. \A u \in Threads : \A x \in Bodies : held[u][x] \in Nat
    BY <1>0 DEF TypeOK
  <2> QED
    BY <2>1 DEF HeldStep
<1>5. QueueStep
  <2>1. \A u \in Threads : \A i \in 1..Len(queue[u]) : queue[u][i] \in Bodies
    BY <1>0, ElementOfSeq DEF TypeOK
  <2> QED
    BY <2>1 DEF QueueStep
<1>6. NewFrames(t, b, new)
  BY DEF NewFrames
<1>7. \A x \in Bodies : LinkSame(t, b, new, x)
  BY <1>0, LinkQuiet
<1>8. CoroutineInv'
  <2>1. ~(Len(stack[t]) = 1 /\ b = 0 /\ stack[t][1].op = "claimed")
    BY <1>0
  <2> QED
    BY <2>1, CoroutineStep
<1> QED
  BY <1>1, <1>2, <1>3, <1>4, <1>5, <1>6, <1>7, <1>8, StepInv

\* The step changes x alone.
LEMMA OtherBodies ==
    ASSUME IInv, NEW t \in Threads, NEW b, NEW f, Popped(t, b, f), NEW new, Moves(t, b, new),
           NEW y \in Bodies, y # f.on, body'[y] = body[y],
           \A j \in 1..Len(new) : Counts(new[j]) \/ new[j].op \in Owners => new[j].on = f.on
    PROVE  /\ BodyOK(y, body'[y]) /\ BodyStep(t, b, new, y)
           /\ body'[y].members = body[y].members /\ body'[y].quorums = body[y].quorums
           /\ body'[y].coroutines \subseteq body[y].coroutines
           /\ body'[y].ref = body[y].ref - PopWeight(t, b, y)
                    + Weight(new, 1, y) + Weight(new, 2, y) + Weight(new, 3, y)
<1>1. ~PopsOwner(t, b, y) /\ PopWeight(t, b, y) = 0
  <2>1. /\ PopsOwner(t, b, y) <=> f.op \in Owners /\ f.on = y
        /\ PopWeight(t, b, y) = IF Counts(f) /\ f.on = y THEN 1 ELSE 0
    BY PoppedFacts DEF PopWeight
  <2> QED
    BY <2>1
<1>2. ~NewOwner(new, y)
  BY DEF NewOwner
<1>3. Weight(new, 1, y) = 0 /\ Weight(new, 2, y) = 0 /\ Weight(new, 3, y) = 0
  BY DEF Weight
<1>4. BodyStep(t, b, new, y)
  BY <1>1, <1>2, SameBody DEF IInv
<1> QED
  BY <1>1, <1>3, <1>4, LiveFacts

-----------------------------------------------------------------------------
(* The calls that a step begins. *)

\* A handle that goes.
LEMMA ReleaseOK ==
    ASSUME NEW t \in Threads, NEW k, NEW x \in Bodies, stack'[t][k] = Release(x)
    PROVE  FrameOK(t, k)'
<1>1. PICK f : f = Release(x)
  OBVIOUS
<1>2. /\ f.on = x /\ f.left = Nobody /\ ~f.drv
      /\ f.op = IF x \in Quorums THEN "drop" ELSE "deref"
  BY <1>1, ReleaseFacts
<1>3. stack'[t][k] = f
  BY <1>1
<1>4. ShapeOK(t, k)' /\ HandleOK(t, k)'
  BY <1>2, <1>3 DEF ShapeOK, HandleOK, OnQuorum, Outermost
<1>5. OnceOK(stack[t][k])' /\ CullOK(t, k)' /\ NomemOK(t, k)'
  BY <1>2, <1>3 DEF OnceOK, CullOK, NomemOK
<1> QED
  BY <1>4, <1>5 DEF FrameOK

LEMMA NewFrame ==
    ASSUME NEW op \in Ops, NEW x \in Bodies, NEW left \in [Bodies -> Nat], NEW drv \in BOOLEAN
    PROVE  LET f == Frame(op, x, None, left, drv)
           IN  /\ f \in FrameType /\ f.op = op /\ f.on = x /\ f.left = left
               /\ (f.drv <=> drv)
BY DEF Frame, FrameType

\* trigger_unlock, c calls deep.
LEMMA PublishOK ==
    ASSUME TypeOK', NEW t \in Threads, NEW c \in Nat, NEW x \in Bodies, NEW drv \in BOOLEAN,
           stack'[t][c + 1] = Frame("publish", x, None, Nobody, drv),
           Len(stack'[t]) \in {c + 1, c + 2},
           Len(stack'[t]) = c + 1 => body'[x].members = Nobody,
           Len(stack'[t]) = c + 2 =>
              x \in Quorums /\ stack'[t][c + 2] = Frame("cull", x, None, body'[x].members, drv),
           ~body'[x].triggered, drv => stack'[t][1].op = "claimed",
           x \in Events => Secured(t, x)'
    PROVE  FrameOK(t, c + 1)' /\ (Len(stack'[t]) = c + 2 => FrameOK(t, c + 2)')
<1>0. body'[x].members \in [Bodies -> Nat] /\ \A y \in Bodies : body'[x].members[y] \in Nat
  BY DEF TypeOK, BodyType
<1>1. PICK f : /\ f = stack'[t][c + 1] /\ f.op = "publish" /\ f.on = x /\ f.left = Nobody
               /\ (f.drv <=> drv)
  BY NobodyFacts, NewFrame DEF Ops
<1>2. ASSUME Len(stack'[t]) = c + 1 PROVE Settling(x)'
  BY <1>2, NobodyFacts DEF Settling
<1>3. ASSUME Len(stack'[t]) = c + 2
      PROVE  \E g : /\ g = stack'[t][c + 2] /\ g.op = "cull" /\ g.on = x
                    /\ g.left = body'[x].members /\ (g.drv <=> drv)
  <2>1. "cull" \in Ops
    BY DEF Ops
  <2>2. PICK m \in [Bodies -> Nat] : m = body'[x].members
    BY <1>0
  <2>3. PICK g : g = Frame("cull", x, None, m, drv)
    OBVIOUS
  <2>4. g.op = "cull" /\ g.on = x /\ g.left = m /\ (g.drv <=> drv)
    BY <1>0, <2>1, <2>3, NewFrame
  <2>5. g = stack'[t][c + 2]
    BY <1>3, <2>2, <2>3
  <2> QED
    BY <2>2, <2>4, <2>5
<1>4. FrameOK(t, c + 1)'
  <2>1. ShapeOK(t, c + 1)' /\ HandleOK(t, c + 1)'
    BY <1>1 DEF ShapeOK, HandleOK, OnQuorum, Outermost
  <2>2. OnceOK(stack[t][c + 1])' /\ NomemOK(t, c + 1)'
    BY <1>1 DEF OnceOK, NomemOK
  <2>3. CullOK(t, c + 1)'
    <3>1. CASE Len(stack'[t]) = c + 1
      BY <1>1, <1>2, <3>1 DEF CullOK
    <3>2. CASE Len(stack'[t]) = c + 2
      <4>1. c + 1 < Len(stack'[t]) /\ c + 1 + 1 = c + 2
        BY <3>2
      <4>2. stack'[t][c + 1 + 1].op = "cull" /\ stack'[t][c + 1 + 1].on = x
        BY <1>3, <3>2, <4>1
      <4> QED
        BY <1>1, <4>1, <4>2 DEF CullOK, Is
    <3> QED
      BY <3>1, <3>2
  <2> QED
    BY <2>1, <2>2, <2>3 DEF FrameOK
<1>5. ASSUME Len(stack'[t]) = c + 2 PROVE FrameOK(t, c + 2)'
  <2>0. x \in Quorums
    BY <1>5
  <2>1. PICK g : /\ g = stack'[t][c + 2] /\ g.op = "cull" /\ g.on = x
                 /\ g.left = body'[x].members /\ (g.drv <=> drv)
    BY <1>3, <1>5
  <2>2. c + 2 > 1 /\ c + 2 - 1 = c + 1
    OBVIOUS
  <2>3. Is(t, c + 2 - 1, "publish", x)'
    BY <1>1, <2>2 DEF Is
  <2>4. ShapeOK(t, c + 2)'
    <3>1. Is(t, c + 2 - 1, "publish", stack[t][c + 2].on)'
      BY <2>1, <2>3
    <3>2. g.drv => stack'[t][1].op = "claimed"
      BY <2>1
    <3> QED
      BY <2>0, <2>1, <2>2, <3>1, <3>2 DEF ShapeOK, OnQuorum, Outermost
  <2>5. HandleOK(t, c + 2)' /\ OnceOK(stack[t][c + 2])' /\ NomemOK(t, c + 2)'
    BY <2>1 DEF HandleOK, OnceOK, NomemOK
  <2>6. CullOK(t, c + 2)'
    BY <1>0, <2>1 DEF CullOK
  <2> QED
    BY <2>4, <2>5, <2>6 DEF FrameOK
<1> QED
  BY <1>4, <1>5

LEMMA HardEndOK ==
    ASSUME TypeOK', NEW t \in Threads, NEW c \in Nat, NEW x \in Quorums,
           stack'[t][c + 1] = Call("hard_end", x),
           Len(stack'[t]) \in {c + 1, c + 2},
           Len(stack'[t]) = c + 1 => Settling(x)',
           Len(stack'[t]) = c + 2 => stack'[t][c + 2] = Frame("cull", x, None, body'[x].members, FALSE),
           body'[x].ref = 0
    PROVE  FrameOK(t, c + 1)' /\ (Len(stack'[t]) = c + 2 => FrameOK(t, c + 2)')
<1>0. /\ body'[x].members \in [Bodies -> Nat] /\ x \in Bodies
      /\ \A y \in Bodies : body'[x].members[y] \in Nat
  BY DEF TypeOK, BodyType, Bodies
<1>1. PICK f : f = stack'[t][c + 1] /\ f.op = "hard_end" /\ f.on = x /\ f.left = Nobody /\ ~f.drv
  BY <1>0, CallFacts DEF Ops
<1>3. ASSUME Len(stack'[t]) = c + 2
      PROVE  \E g : /\ g = stack'[t][c + 2] /\ g.op = "cull" /\ g.on = x
                    /\ g.left = body'[x].members /\ ~g.drv
  <2>1. "cull" \in Ops
    BY DEF Ops
  <2>2. PICK m \in [Bodies -> Nat] : m = body'[x].members
    BY <1>0
  <2>3. PICK g : g = Frame("cull", x, None, m, FALSE)
    OBVIOUS
  <2>4. g.op = "cull" /\ g.on = x /\ g.left = m /\ (g.drv <=> FALSE)
    BY <2>3 DEF Frame
  <2>5. g = stack'[t][c + 2]
    BY <1>3, <2>2, <2>3
  <2> QED
    BY <2>2, <2>4, <2>5
<1>4. FrameOK(t, c + 1)'
  <2>1. ShapeOK(t, c + 1)' /\ HandleOK(t, c + 1)'
    BY <1>1 DEF ShapeOK, HandleOK, OnQuorum, Outermost
  <2>2. OnceOK(stack[t][c + 1])' /\ NomemOK(t, c + 1)'
    BY <1>1 DEF OnceOK, NomemOK
  <2>3. CullOK(t, c + 1)'
    <3>1. CASE Len(stack'[t]) = c + 1
      BY <1>1, <3>1 DEF CullOK
    <3>2. CASE Len(stack'[t]) = c + 2
      <4>1. c + 1 < Len(stack'[t]) /\ c + 1 + 1 = c + 2
        BY <3>2
      <4>2. stack'[t][c + 1 + 1].op = "cull" /\ stack'[t][c + 1 + 1].on = x
        BY <1>3, <3>2, <4>1
      <4> QED
        BY <1>1, <4>1, <4>2 DEF CullOK, Is
    <3> QED
      BY <3>1, <3>2
  <2> QED
    BY <2>1, <2>2, <2>3 DEF FrameOK
<1>5. ASSUME Len(stack'[t]) = c + 2 PROVE FrameOK(t, c + 2)'
  <2>1. PICK g : /\ g = stack'[t][c + 2] /\ g.op = "cull" /\ g.on = x
                 /\ g.left = body'[x].members /\ ~g.drv
    BY <1>3, <1>5
  <2>2. c + 2 > 1 /\ c + 2 - 1 = c + 1
    OBVIOUS
  <2>3. Is(t, c + 2 - 1, "hard_end", x)'
    BY <1>1, <2>2 DEF Is
  <2>4. ShapeOK(t, c + 2)'
    <3>1. Is(t, c + 2 - 1, "hard_end", stack[t][c + 2].on)'
      BY <2>1, <2>3
    <3> QED
      BY <1>5, <2>1, <2>2, <3>1 DEF ShapeOK, OnQuorum, Outermost
  <2>5. HandleOK(t, c + 2)' /\ OnceOK(stack[t][c + 2])' /\ NomemOK(t, c + 2)'
    BY <2>1 DEF HandleOK, OnceOK, NomemOK
  <2>6. CullOK(t, c + 2)'
    BY <1>0, <2>1 DEF CullOK
  <2> QED
    BY <2>4, <2>5, <2>6 DEF FrameOK
<1> QED
  BY <1>4, <1>5

LEMMA TwoCalls ==
    ASSUME NEW S, NEW p \in S, NEW c \in S, NEW s, s = <<p>> \o <<c>>
    PROVE  s \in Seq(S) /\ Len(s) = 2 /\ s[1] = p /\ s[2] = c
<1>1. PICK v, w : v = <<p>> /\ w = <<c>>
  OBVIOUS
<1>2. /\ v \in Seq(S) /\ w \in Seq(S) /\ Len(v) = 1 /\ Len(w) = 1
      /\ v[1] = p /\ w[1] = c
  BY <1>1
<1>3. /\ v \o w \in Seq(S) /\ Len(v \o w) = Len(v) + Len(w)
      /\ \A i \in 1..Len(v) + Len(w) : (v \o w)[i] = IF i <= Len(v) THEN v[i] ELSE w[i - Len(v)]
  BY <1>2, ConcatProperties
<1>4. (v \o w)[1] = p /\ (v \o w)[2] = c
  BY <1>2, <1>3
<1> QED
  BY <1>1, <1>2, <1>3, <1>4

\* The calls of trigger_unlock.
LEMMA TriggerUnlockFacts ==
    ASSUME NEW b \in BodyType, NEW x \in Bodies, NEW drv \in BOOLEAN,
           x \notin Quorums => b.members = Nobody
    PROVE  LET s == TriggerUnlock(b, x, drv)
           IN  /\ s \in Seq(FrameType) /\ Len(s) \in {1, 2}
               /\ s[1] = Frame("publish", x, None, Nobody, drv)
               /\ Len(s) = 1 => b.members = Nobody
               /\ Len(s) = 2 => x \in Quorums /\ s[2] = Frame("cull", x, None, b.members, drv)
<1> DEFINE p == Frame("publish", x, None, Nobody, drv)
           c == Frame("cull", x, None, b.members, drv)
<1>1. /\ p \in FrameType /\ c \in FrameType /\ c.left = b.members
  <2>1. b.members \in [Bodies -> Nat]
    BY DEF BodyType
  <2> QED
    <3>1. "publish" \in Ops /\ "cull" \in Ops
      BY DEF Ops
    <3>2. PICK m \in [Bodies -> Nat] : m = b.members
      BY <2>1
    <3>3. p \in FrameType
      BY <3>1, NobodyFacts, NewFrame
    <3>4. Frame("cull", x, None, m, drv) \in FrameType /\ Frame("cull", x, None, m, drv).left = m
      BY <3>1, NewFrame
    <3> QED
      BY <3>2, <3>3, <3>4
<1>2. TriggerUnlock(b, x, drv) = IF x \in Quorums THEN <<p>> \o Loop(c) ELSE <<p>>
  BY DEF TriggerUnlock
<1> HIDE DEF p, c
<1>3. CASE x \notin Quorums \/ b.members = Nobody
  <2>1. <<p>> \o << >> = <<p>>
    <3>1. <<p>> \in Seq(FrameType)
      BY <1>1
    <3> QED
      BY <3>1, ConcatEmptySeq
  <2>2. TriggerUnlock(b, x, drv) = <<p>>
    BY <1>1, <1>2, <1>3, <2>1, LoopFacts
  <2>3. <<p>> \in Seq(FrameType) /\ Len(<<p>>) = 1 /\ <<p>>[1] = p
    BY <1>1
  <2> QED
    BY <1>3, <2>2, <2>3 DEF p
<1>4. CASE x \in Quorums /\ b.members # Nobody
  <2>2. TriggerUnlock(b, x, drv) = <<p>> \o <<c>>
    BY <1>1, <1>2, <1>4, LoopFacts
  <2>3. PICK s : s = <<p>> \o <<c>>
    OBVIOUS
  <2>4. s \in Seq(FrameType) /\ Len(s) = 2 /\ s[1] = p /\ s[2] = c
    BY <1>1, <2>3, TwoCalls
  <2>5. TriggerUnlock(b, x, drv) = s
    BY <2>2, <2>3
  <2> QED
    BY <1>4, <2>4, <2>5 DEF p, c
<1> QED
  BY <1>3, <1>4

\* A step of a call on one body, that leaves its lists alone.
OneBodyStep(t, b, f, new, x) ==
    /\ Popped(t, b, f) /\ f.on = x /\ Runs(t) /\ Moves(t, b, new) /\ Len(new) <= 3
    /\ f.op \notin {"inform", "member", "claimed", "cull"}
    /\ \A j \in 1..Len(new) : /\ new[j].op \notin {"inform", "member"} /\ new[j].on = x
                              /\ FrameOK(t, b + j)'
    /\ \A i, j \in 1..Len(new) : new[i].op \in Owners /\ new[j].op \in Owners => i = j
    /\ held' = held /\ queue' = queue /\ at' = at /\ coh' = coh
    /\ body' \in [Bodies -> BodyType] /\ \A y \in Bodies : y # x => body'[y] = body[y]
    /\ BodyOK(x, body'[x]) /\ BodyStep(t, b, new, x)
    /\ body'[x].members = body[x].members /\ body'[x].quorums = body[x].quorums
    /\ body'[x].coroutines \subseteq body[x].coroutines
    /\ body'[x].ref = body[x].ref - PopWeight(t, b, x)
                      + Weight(new, 1, x) + Weight(new, 2, x) + Weight(new, 3, x)

LEMMA OneBody ==
    ASSUME Prompt, IInv, NEW t \in Threads, NEW b, NEW f, NEW new, NEW x,
           OneBodyStep(t, b, f, new, x)
    PROVE  IInv'
<1>0. /\ Popped(t, b, f) /\ f.on = x /\ Runs(t) /\ Moves(t, b, new) /\ Len(new) <= 3
      /\ f.op \notin {"inform", "member", "claimed", "cull"}
      /\ \A j \in 1..Len(new) : /\ new[j].op \notin {"inform", "member"} /\ new[j].on = x
                                /\ FrameOK(t, b + j)'
      /\ \A i, j \in 1..Len(new) : new[i].op \in Owners /\ new[j].op \in Owners => i = j
      /\ held' = held /\ queue' = queue /\ at' = at /\ coh' = coh
      /\ body' \in [Bodies -> BodyType] /\ \A y \in Bodies : y # x => body'[y] = body[y]
  BY DEF OneBodyStep
<1>1. ASSUME NEW y \in Bodies
      PROVE  /\ BodyOK(y, body'[y]) /\ BodyStep(t, b, new, y)
             /\ body'[y].members = body[y].members /\ body'[y].quorums = body[y].quorums
             /\ body'[y].coroutines \subseteq body[y].coroutines
             /\ body'[y].ref = body[y].ref - PopWeight(t, b, y)
                      + Weight(new, 1, y) + Weight(new, 2, y) + Weight(new, 3, y)
  <2>1. CASE y = x
    BY <2>1 DEF OneBodyStep
  <2>2. CASE y # x
    BY <1>0, <2>2, OtherBodies
  <2> QED
    BY <2>1, <2>2
<1> QED
  BY <1>0, <1>1, PlainStep

LEMMA NoCalls ==
    ASSUME NEW y
    PROVE  /\ << >> \in Seq(FrameType) /\ Len(<< >>) = 0 /\ ~NewOwner(<< >>, y)
           /\ Weight(<< >>, 1, y) = 0 /\ Weight(<< >>, 2, y) = 0 /\ Weight(<< >>, 3, y) = 0
BY DEF NewOwner, Weight

LEMMA OneCall ==
    ASSUME NEW f \in FrameType, NEW new, new = <<f>>
    PROVE  /\ new \in Seq(FrameType) /\ Len(new) = 1 /\ new[1] = f /\ 1..Len(new) = {1}
           /\ \A y : /\ NewOwner(new, y) <=> f.op \in Owners /\ f.on = y
                     /\ Weight(new, 1, y) = IF Counts(f) /\ f.on = y THEN 1 ELSE 0
                     /\ Weight(new, 2, y) = 0 /\ Weight(new, 3, y) = 0
<1>1. new \in Seq(FrameType) /\ Len(new) = 1 /\ new[1] = f /\ 1..Len(new) = {1}
  OBVIOUS
<1> QED
  BY <1>1 DEF NewOwner, Weight

-----------------------------------------------------------------------------
(* ~event_handle *)

LEMMA DropInv ==
    ASSUME Prompt, IInv, NEW t \in Threads, Drop(t)
    PROVE  IInv'
<1>1. PICK b \in Nat, f \in FrameType :
         /\ Popped(t, b, f) /\ f = Top(t) /\ f.op = "drop" /\ Runs(t)
         /\ \A new \in Seq(FrameType) : Replace(t, new) => Moves(t, b, new)
  BY InFacts DEF Drop
<1>2. PICK x \in Bodies : x = f.on /\ x \in Quorums
  BY <1>1 DEF Popped, FrameOK, ShapeOK, OnQuorum
<1>3. PICK g \in FrameType : /\ g = Call(IF body[x].nomem THEN "deref" ELSE "hard", x)
                             /\ g.op = (IF body[x].nomem THEN "deref" ELSE "hard")
                             /\ g.on = x /\ g.left = Nobody /\ ~g.drv
  BY CallFacts DEF Ops
<1>4. PICK new \in Seq(FrameType) : new = <<g>> /\ Replace(t, new)
  <2>1. Replace(t, <<g>>)
    BY <1>1, <1>2, <1>3 DEF Drop
  <2> QED
    BY <2>1, OneCall
<1>5. Moves(t, b, new) /\ body' = body /\ held' = held /\ queue' = queue /\ at' = at /\ coh' = coh
  BY <1>1, <1>4 DEF Drop
<1>6. /\ Len(new) = 1 /\ new[1] = g /\ 1..Len(new) = {1} /\ ~NewOwner(new, x)
      /\ Weight(new, 1, x) = 1 /\ Weight(new, 2, x) = 0 /\ Weight(new, 3, x) = 0
  BY <1>3, <1>4, OneCall DEF Owners, Counts
<1>7. ~PopsOwner(t, b, x) /\ PopWeight(t, b, x) = 1
  BY <1>1, <1>2, PoppedFacts DEF Owners, Counts, PopWeight
<1>8. BodyStep(t, b, new, x)
  BY <1>5, <1>6, <1>7, SameBody DEF IInv
<1>9. body[x].nomem => body[x].members = Nobody
  <2>1. ASSUME body[x].nomem, body[x].members # Nobody PROVE FALSE
    <3>1. b + 1 \in 1..Len(stack[t]) /\ Counts(stack[t][b + 1]) /\ stack[t][b + 1].on = x
      BY <1>1, <1>2 DEF Popped, Counts
    <3>2. Live(x)
      BY <2>1, LiveFacts DEF BodyOK, Live
    <3>3. PICK u \in Threads : Private(u, x)
      BY <1>2, <2>1, <3>2 DEF IInv, NomemInv
    <3>4. t = u /\ b + 1 = 1
      BY <1>2, <3>1, <3>3, PrivateAlone
    <3>5. b = 0
      BY <3>4
    <3>6. f.op \in {"make", "publish"}
      BY <1>1, <3>3, <3>4, <3>5, PoppedFacts
    <3> QED
      BY <1>1, <3>6
  <2> QED
    BY <2>1
<1>10. FrameOK(t, b + 1)'
  <2>1. stack'[t][b + 1] = g
    BY <1>5, <1>6, SMTT(60) DEF Moves, Onto
  <2>2. ShapeOK(t, b + 1)' /\ HandleOK(t, b + 1)'
    BY <1>2, <1>3, <2>1 DEF ShapeOK, HandleOK, OnQuorum, Outermost
  <2>3. OnceOK(stack[t][b + 1])' /\ CullOK(t, b + 1)'
    BY <1>3, <2>1 DEF OnceOK, CullOK
  <2>4. NomemOK(t, b + 1)'
    BY <1>3, <1>5, <1>9, <2>1 DEF NomemOK
  <2> QED
    BY <2>2, <2>3, <2>4 DEF FrameOK
<1>11. body' \in [Bodies -> BodyType] /\ BodyOK(x, body'[x]) /\ body[x].ref \in Nat
  BY <1>5, LiveFacts DEF IInv, TypeOK
<1>12. body'[x].ref = body[x].ref - PopWeight(t, b, x)
                    + Weight(new, 1, x) + Weight(new, 2, x) + Weight(new, 3, x)
  BY <1>5, <1>6, <1>7, <1>11
<1>13. OneBodyStep(t, b, f, new, x)
  BY <1>1, <1>2, <1>3, <1>5, <1>6, <1>8, <1>10, <1>11, <1>12 DEF OneBodyStep
<1> QED
  BY <1>13, OneBody

LEMMA CallsOK ==
    ASSUME IInv, NEW u \in Threads, NEW k \in 1..Len(stack[u])
    PROVE  /\ FrameOK(u, k) /\ stack[u][k] \in FrameType /\ stack[u][k].on \in Bodies
           /\ Len(stack[u]) \in Nat
<1>1. TypeOK /\ ShapeInv /\ HandleInv /\ OnceInv /\ CullInv /\ NomemInv
  BY DEF IInv
<1>2. ShapeOK(u, k) /\ HandleOK(u, k)
  BY <1>1 DEF ShapeInv, HandleInv
<1>3. OnceOK(stack[u][k])
  BY <1>1 DEF OnceInv
<1>4. CullOK(u, k) /\ NomemOK(u, k)
  BY <1>1 DEF CullInv, NomemInv
<1>5. stack[u][k] \in FrameType /\ Len(stack[u]) \in Nat
  BY <1>1, ElementOfSeq DEF TypeOK
<1> QED
  BY <1>2, <1>3, <1>4, <1>5 DEF FrameOK, FrameType

\* The last reference goes while nobody is at work on the body.
LEMMA LastReference ==
    ASSUME Prompt, IInv, NEW t \in Threads, NEW b, NEW f, Popped(t, b, f), f.op = "deref", Runs(t),
           NEW x \in Bodies, x = f.on, body[x].ref = 1
    PROVE  ~body[x].lock /\ MemCount(x) = 0 /\ AtCount(x) = 0
<1>0. TypeOK /\ ShapeInv /\ HandleInv /\ RefInv /\ LockInv /\ OnceInv /\ NomemInv
  BY DEF IInv
<1>1. /\ b \in Nat /\ b + 1 \in 1..Len(stack[t]) /\ Counts(stack[t][b + 1]) /\ stack[t][b + 1] = f
      /\ stack[t][b + 1].on = x /\ Len(stack[t]) = b + 1
  BY DEF Popped, Counts
<1>2. CallCount(x) >= 1
  BY <1>0, <1>1, Referrers
<1>3. HeldCount(x) = 0 /\ MemCount(x) = 0 /\ AtCount(x) = 0 /\ CallCount(x) = 1
  <2>1. /\ HeldCount(x) \in Nat /\ QueueCount(x) \in Nat /\ AtCount(x) \in Nat
        /\ MemCount(x) \in Nat /\ CallCount(x) \in Nat
        /\ 1 = HeldCount(x) + QueueCount(x) + AtCount(x) + MemCount(x) + CallCount(x)
    BY FiniteRefs
  <2> QED
    BY <1>2, <2>1
<1>4. ASSUME NEW u \in Threads, NEW k \in 1..Len(stack[u]), Counts(stack[u][k]), stack[u][k].on = x
      PROVE  u = t /\ k = b + 1
  <2>1. u # t \/ k # b + 1 => CallCount(x) >= 2
    BY <1>0, <1>1, <1>4, Referrers
  <2> QED
    BY <1>3, <2>1
<1>5. \A u \in Threads : ~(held[u][x] > 0)
  <2>1. \A u \in Threads : held[u][x] > 0 => HeldCount(x) >= 1
    BY <1>0, Referrers
  <2> QED
    BY <1>3, <2>1
<1>6. ASSUME NEW u \in Threads, NEW k \in 1..Len(stack[u]), Owns(u, k, x) PROVE FALSE
  <2>0. /\ ShapeOK(u, k) /\ HandleOK(u, k) /\ OnceOK(stack[u][k]) /\ NomemOK(u, k)
        /\ stack[u][k].op \in Owners /\ stack[u][k].on = x /\ Len(stack[u]) \in Nat
    BY <1>6, CallsOK DEF FrameOK, Owns
  <2>1. CASE stack[u][k].op = "make"
    BY <1>5, <2>0, <2>1 DEF NomemOK, Private
  <2>2. CASE stack[u][k].op = "publish"
    <3>1. CASE x \in Quorums
      BY <1>1, <1>4, <2>0, <2>2, <3>1 DEF Counts
    <3>2. CASE x \in Events
      <4>1. Is(u, 1, "claimed", x)
        BY <1>5, <2>0, <2>2, <3>2 DEF HandleOK, Secured
      <4>2. 1 \in 1..Len(stack[u]) /\ Counts(stack[u][1]) /\ stack[u][1].on = x
        BY <2>0, <4>1 DEF Counts, Is
      <4>3. u = t /\ 1 = b + 1
        BY <1>4, <4>2
      <4> QED
        BY <1>1, <4>1, <4>3 DEF Is
    <3> QED
      BY <3>1, <3>2 DEF Bodies
  <2>3. CASE stack[u][k].op = "hard_end"
    BY <2>0, <2>3 DEF OnceOK
  <2>4. CASE stack[u][k].op = "unlock"
    <3>1. CASE u = t
      BY <1>1, <2>0, <2>4, <3>1 DEF ShapeOK
    <3>2. CASE u # t
      <4>1. stack[u] \in Seq(FrameType)
        BY <1>0 DEF TypeOK
      <4>2. stack[u][k] \in Frames(u)
        BY <4>1 DEF Frames
      <4> QED
        BY <2>4, <3>2, <4>2 DEF Runs
    <3> QED
      BY <3>1, <3>2
  <2>5. CASE stack[u][k].op = "member_end"
    <3>1. x \in Quorums /\ ~body[x].nomem
      BY <2>0, <2>5 DEF ShapeOK, OnQuorum, NomemOK
    <3>2. NomemOK(t, b + 1)
      BY DEF Popped, FrameOK
    <3> QED
      BY <1>1, <3>1, <3>2 DEF NomemOK
  <2> QED
    BY <2>0, <2>1, <2>2, <2>3, <2>4, <2>5 DEF Owners
<1>7. ~body[x].lock
  BY <1>0, <1>6 DEF LockInv
<1> QED
  BY <1>3, <1>7

LEMMA DerefInv ==
    ASSUME Prompt, IInv, NEW t \in Threads, Deref(t)
    PROVE  IInv'
<1>1. PICK b \in Nat, f \in FrameType :
         /\ Popped(t, b, f) /\ f = Top(t) /\ f.op = "deref" /\ Runs(t)
         /\ \A new \in Seq(FrameType) : Replace(t, new) => Moves(t, b, new)
  BY InFacts DEF Deref
<1>2. PICK x \in Bodies : x = f.on
  BY <1>1 DEF Popped
<1>3. Moves(t, b, << >>) /\ held' = held /\ queue' = queue /\ at' = at /\ coh' = coh
  BY <1>1, NoCalls DEF Deref
<1>4. ~PopsOwner(t, b, x) /\ PopWeight(t, b, x) = 1 /\ PopsCounted(t, b, x)
      /\ ~Pops(t, b, "publish", x) /\ ~Pops(t, b, "make", x)
      /\ (b = 0 => ~Private(t, x))
  <2>1. /\ PopsOwner(t, b, x) <=> f.op \in Owners /\ f.on = x
        /\ PopsCounted(t, b, x) <=> Counts(f) /\ f.on = x
        /\ \A op : Pops(t, b, op, x) <=> f.op = op /\ f.on = x
        /\ b = 0 => (Private(t, x) => f.op \in {"make", "publish"} /\ f.on = x)
    BY <1>1, PoppedFacts
  <2> QED
    BY <1>1, <1>2, <2>1 DEF Owners, Counts, PopWeight
<1>5. /\ body[x] \in BodyType /\ BodyOK(x, body[x]) /\ body[x].ref \in Nat /\ body[x].life = "live"
      /\ body[x].ref >= 1
  <2>1. CallCount(x) >= 1
    BY <1>1, <1>2, Referrers DEF IInv, Popped, Counts
  <2>2. body[x].ref >= 1 /\ body[x].ref \in Nat
    BY <2>1, FiniteRefs
  <2> QED
    BY <2>2, LiveFacts
<1>6. PICK c : /\ c = IF body[x].ref = 1 THEN Deleted(body[x]) ELSE [body[x] EXCEPT !.ref = body[x].ref - 1]
               /\ body' = [body EXCEPT ![x] = c]
  BY <1>1, <1>2 DEF Deref
<1>7. CASE body[x].ref = 1
  <2>1. ~body[x].lock /\ MemCount(x) = 0 /\ AtCount(x) = 0
    BY <1>1, <1>2, <1>7, LastReference
  <2>2. body[x].quorums = Nobody /\ body[x].coroutines = {}
    BY <2>1, NoListeners
  <2>3. /\ c \in BodyType /\ BodyOK(x, c)
        /\ c.life = "deleted" /\ ~c.lock /\ (c.triggered <=> body[x].triggered) /\ c.ref = 0
        /\ c.nomem /\ c.quorums = Nobody /\ c.coroutines = {} /\ c.members = Nobody
    BY <1>5, <1>6, <1>7, DeletedFacts, BodyOKFacts
  <2>4. body[x].members = Nobody
    <3>1. CASE x \in Quorums
      <4>1. NomemOK(t, b + 1) /\ stack[t][b + 1] = f
        BY <1>1 DEF Popped, FrameOK
      <4> QED
        BY <1>1, <1>2, <3>1, <4>1 DEF NomemOK
    <3>2. CASE x \in Events
      BY <1>5, <3>2 DEF BodyOK
    <3> QED
      BY <3>1, <3>2 DEF Bodies
  <2>5. body' \in [Bodies -> BodyType] /\ body'[x] = c /\ \A y \in Bodies : y # x => body'[y] = body[y]
    BY <1>6, <2>3 DEF IInv, TypeOK
  <2>6. BodyStep(t, b, << >>, x)
    <3>1. \A y \in Bodies : body'[x].members[y] <= body[x].members[y]
      BY <2>3, <2>4, <2>5, NobodyFacts
    <3> QED
      BY <1>4, <2>1, <2>3, <2>4, <2>5, <3>1, NoCalls DEF BodyStep, RefStep, PrivateStep, DeleteStep, Live
  <2>7. body'[x].ref = body[x].ref - PopWeight(t, b, x)
                    + Weight(<< >>, 1, x) + Weight(<< >>, 2, x) + Weight(<< >>, 3, x)
    BY <1>4, <1>7, <2>3, <2>5, NoCalls
  <2>8. OneBodyStep(t, b, f, << >>, x)
    BY <1>1, <1>2, <1>3, <2>2, <2>3, <2>4, <2>5, <2>6, <2>7, NoCalls DEF OneBodyStep
  <2> QED
    BY <2>8, OneBody
<1>8. CASE body[x].ref # 1
  <2>3. /\ c \in BodyType
        /\ c.life = "live" /\ (c.lock <=> body[x].lock) /\ (c.triggered <=> body[x].triggered)
        /\ c.ref = body[x].ref - 1 /\ c.ref > 0
        /\ (c.nomem <=> body[x].nomem) /\ c.quorums = body[x].quorums
        /\ c.coroutines = body[x].coroutines /\ c.members = body[x].members
    BY <1>5, <1>6, <1>8 DEF BodyType
  <2>4. BodyOK(x, c)
    BY <1>5, <2>3 DEF BodyOK
  <2>5. body' \in [Bodies -> BodyType] /\ body'[x] = c /\ \A y \in Bodies : y # x => body'[y] = body[y]
    BY <1>6, <2>3 DEF IInv, TypeOK
  <2>6. BodyStep(t, b, << >>, x)
    <3>1. \A y \in Bodies : body'[x].members[y] <= body[x].members[y]
      BY <2>3, <2>5, LiveFacts
    <3>2. body'[x].ref # 0 /\ body[x].ref # 0
      BY <1>5, <2>3, <2>5
    <3> QED
      BY <1>4, <2>3, <2>5, <3>1, <3>2, NoCalls DEF BodyStep, RefStep, PrivateStep, DeleteStep, Live
  <2>7. body'[x].ref = body[x].ref - PopWeight(t, b, x)
                    + Weight(<< >>, 1, x) + Weight(<< >>, 2, x) + Weight(<< >>, 3, x)
    BY <1>4, <1>5, <2>3, <2>5, NoCalls
  <2>8. OneBodyStep(t, b, f, << >>, x)
    BY <1>1, <1>2, <1>3, <2>3, <2>4, <2>5, <2>6, <2>7, NoCalls DEF OneBodyStep
  <2> QED
    BY <2>8, OneBody
<1> QED
  BY <1>7, <1>8

LEMMA HardDerefInv ==
    ASSUME Prompt, IInv, NEW t \in Threads, HardDeref(t)
    PROVE  IInv'
<1>1. PICK b \in Nat, f \in FrameType :
         /\ Popped(t, b, f) /\ f = Top(t) /\ f.op = "hard" /\ Runs(t)
         /\ \A new \in Seq(FrameType) : Replace(t, new) => Moves(t, b, new)
  BY InFacts DEF HardDeref
<1>2. PICK x \in Bodies : x = f.on /\ x \in Quorums
  BY <1>1 DEF Popped, FrameOK, ShapeOK, OnQuorum
<1>3. held' = held /\ queue' = queue /\ at' = at /\ coh' = coh /\ ~body[x].lock
  BY <1>1, <1>2 DEF HardDeref
<1>4. ~PopsOwner(t, b, x) /\ PopWeight(t, b, x) = 1 /\ PopsCounted(t, b, x)
      /\ ~Pops(t, b, "publish", x) /\ ~Pops(t, b, "make", x)
      /\ (b = 0 => ~Private(t, x))
  <2>1. /\ PopsOwner(t, b, x) <=> f.op \in Owners /\ f.on = x
        /\ PopsCounted(t, b, x) <=> Counts(f) /\ f.on = x
        /\ \A op : Pops(t, b, op, x) <=> f.op = op /\ f.on = x
        /\ b = 0 => (Private(t, x) => f.op \in {"make", "publish"} /\ f.on = x)
    BY <1>1, PoppedFacts
  <2> QED
    BY <1>1, <1>2, <2>1 DEF Owners, Counts, PopWeight
<1>5. /\ body[x] \in BodyType /\ BodyOK(x, body[x]) /\ body[x].ref \in Nat /\ body[x].life = "live"
      /\ body[x].ref >= 1 /\ body[x].members \in [Bodies -> Nat]
  <2>1. CallCount(x) >= 1
    BY <1>1, <1>2, Referrers DEF IInv, Popped, Counts
  <2>2. body[x].ref >= 1 /\ body[x].ref \in Nat
    BY <2>1, FiniteRefs
  <2> QED
    BY <2>2, LiveFacts
<1>6. PICK c : /\ c = [body[x] EXCEPT !.lock = TRUE, !.ref = body[x].ref - 1]
               /\ body' = [body EXCEPT ![x] = c]
  BY <1>1, <1>2 DEF HardDeref
<1>7. /\ c \in BodyType
      /\ c.life = "live" /\ c.lock /\ (c.triggered <=> body[x].triggered)
      /\ c.ref = body[x].ref - 1
      /\ (c.nomem <=> body[x].nomem) /\ c.quorums = body[x].quorums
      /\ c.coroutines = body[x].coroutines /\ c.members = body[x].members
  <2>1. body[x].ref - 1 \in Nat
    BY <1>5
  <2> QED
    BY <1>5, <1>6, <2>1 DEF BodyType
<1>8. BodyOK(x, c)
  <2>1. x \notin Events
    BY <1>2, LiveFacts
  <2> QED
    BY <1>5, <1>7, <2>1 DEF BodyOK
<1>9. body' \in [Bodies -> BodyType] /\ body'[x] = c /\ \A y \in Bodies : y # x => body'[y] = body[y]
  BY <1>6, <1>7 DEF IInv, TypeOK
<1>u. PICK u \in FrameType : u = Call("unlock", x)
  BY CallFacts DEF Ops
<1>h. PICK h \in FrameType : h = Call("hard_end", x)
  BY CallFacts DEF Ops
<1>g. PICK g \in FrameType : g = Frame("cull", x, None, body[x].members, FALSE) /\ g.left = body[x].members
  <2>1. PICK m \in [Bodies -> Nat] : m = body[x].members
    BY <1>5
  <2>2. PICK g : g = Frame("cull", x, None, m, FALSE)
    OBVIOUS
  <2>3. g \in FrameType /\ g.left = m
    BY <2>2 DEF Frame, FrameType, Ops
  <2> QED
    BY <2>1, <2>2, <2>3
<1>10. PICK new \in Seq(FrameType) :
         /\ Replace(t, new)
         /\ Len(new) \in {1, 2} /\ (body[x].ref # 1 => new[1] = u) /\ (body[x].ref = 1 => new[1] = h)
         /\ Len(new) = 1 => body[x].ref # 1 \/ body[x].triggered \/ body[x].members = Nobody
         /\ Len(new) = 2 => body[x].ref = 1 /\ new[2] = g
  <2>1. Replace(t, IF body[x].ref # 1 THEN <<u>>
                   ELSE IF body[x].triggered THEN <<h>> ELSE <<h>> \o Loop(g))
    BY <1>1, <1>2, <1>u, <1>h, <1>g DEF HardDeref
  <2>2. CASE body[x].ref # 1 \/ body[x].triggered
    <3>1. PICK new : new = IF body[x].ref # 1 THEN <<u>> ELSE <<h>>
      OBVIOUS
    <3>2. new \in Seq(FrameType) /\ Len(new) = 1 /\ new[1] = IF body[x].ref # 1 THEN u ELSE h
      BY <3>1
    <3>3. Replace(t, new)
      BY <2>1, <2>2, <3>1
    <3> QED
      <4>1. (body[x].ref # 1 => new[1] = u) /\ (body[x].ref = 1 => new[1] = h)
        BY <3>2
      <4>2. Len(new) \in {1, 2} /\ Len(new) # 2
        BY <3>2
      <4> QED
        BY <2>2, <3>2, <3>3, <4>1, <4>2
  <2>3. CASE body[x].ref = 1 /\ ~body[x].triggered /\ body[x].members = Nobody
    <3>1. PICK new : new = <<h>>
      OBVIOUS
    <3>2. new \in Seq(FrameType) /\ Len(new) = 1 /\ new[1] = h
      BY <3>1
    <3>3. <<h>> \o Loop(g) = new
      BY <1>g, <2>3, <3>1, <3>2, LoopFacts, ConcatEmptySeq
    <3>4. Replace(t, new)
      BY <2>1, <2>3, <3>3
    <3> QED
      BY <2>3, <3>2, <3>4
  <2>4. CASE body[x].ref = 1 /\ ~body[x].triggered /\ body[x].members # Nobody
    <3>1. PICK new : new = <<h>> \o <<g>>
      OBVIOUS
    <3>2. new \in Seq(FrameType) /\ Len(new) = 2 /\ new[1] = h /\ new[2] = g
      BY <3>1, TwoCalls
    <3>3. <<h>> \o Loop(g) = new
      BY <1>g, <2>4, <3>1, LoopFacts
    <3>4. Replace(t, new)
      BY <2>1, <2>4, <3>3
    <3> QED
      BY <2>4, <3>2, <3>4
  <2> QED
    BY <2>2, <2>3, <2>4
<1>11. Moves(t, b, new)
  BY <1>1, <1>10
<1>12. /\ new[1].on = x /\ new[1].left = Nobody /\ ~new[1].drv
       /\ new[1].op = IF body[x].ref # 1 THEN "unlock" ELSE "hard_end"
       /\ Len(new) = 2 => new[2].op = "cull" /\ new[2].on = x
  <2>1. "unlock" \in Ops /\ "hard_end" \in Ops /\ "cull" \in Ops
    BY DEF Ops
  <2>2. Len(new) = 2 => new[2].op = "cull" /\ new[2].on = x
    BY <1>10, <1>g DEF Frame
  <2>3. /\ u.op = "unlock" /\ u.on = x /\ u.left = Nobody /\ ~u.drv
        /\ h.op = "hard_end" /\ h.on = x /\ h.left = Nobody /\ ~h.drv
    BY <1>u, <1>h, <2>1, CallFacts
  <2> QED
    BY <1>10, <2>2, <2>3
<1>13. /\ NewOwner(new, x) /\ 1 \in 1..Len(new)
       /\ Weight(new, 1, x) = 0 /\ Weight(new, 2, x) = 0 /\ Weight(new, 3, x) = 0
  BY <1>10, <1>12 DEF NewOwner, Owners, Weight, Counts
<1>14. BodyStep(t, b, new, x)
  <2>1. \A y \in Bodies : body'[x].members[y] <= body[x].members[y]
    BY <1>5, <1>7, <1>9
  <2>2. body[x].ref # 0 /\ (body'[x].ref = 0 => new[1].op = "hard_end")
    BY <1>5, <1>7, <1>9, <1>12
  <2> QED
    BY <1>3, <1>4, <1>7, <1>9, <1>12, <1>13, <2>1, <2>2
       DEF BodyStep, RefStep, PrivateStep, DeleteStep, Live
<1>15. TypeOK'
  BY <1>3, <1>9, <1>11 DEF IInv, TypeOK, Moves, Onto
<1>16. /\ Len(stack'[t]) = b + Len(new) /\ stack'[t][b + 1] = new[1]
       /\ Len(new) = 2 => stack'[t][b + 2] = new[2]
  BY <1>10, <1>11 DEF Moves, Onto
<1>17. FrameOK(t, b + 1)' /\ (Len(new) = 2 => FrameOK(t, b + 2)')
  <2>1. CASE body[x].ref = 1
    <3>1. stack'[t][b + 1] = Call("hard_end", x)
      BY <1>h, <1>10, <1>16, <2>1
    <3>2. Len(new) = 1 => Settling(x)'
      <4>1. Len(new) = 1 => Settling(x)
        <5>1. body[x].triggered => Settling(x)
          BY <1>2 DEF IInv, CullInv
        <5>2. body[x].members = Nobody => Settling(x)
          BY NobodyFacts DEF Settling
        <5> QED
          BY <1>10, <2>1, <5>1, <5>2
      <4>2. \A y \in Bodies : body[y].triggered => body'[y].triggered
        BY <1>7, <1>9
      <4> QED
        BY <1>7, <1>9, <4>1, <4>2 DEF Settling
    <3>3. Len(new) = 2 => stack'[t][b + 2] = Frame("cull", x, None, body'[x].members, FALSE)
      BY <1>g, <1>7, <1>9, <1>10, <1>16
    <3>4. body'[x].ref = 0
      BY <1>7, <1>9, <2>1
    <3>5. /\ Len(new) = 1 <=> Len(stack'[t]) = b + 1
          /\ Len(new) = 2 <=> Len(stack'[t]) = b + 2
      <4>1. CASE Len(new) = 1
        BY <1>1, <1>16, <4>1
      <4>2. CASE Len(new) = 2
        BY <1>1, <1>16, <4>2
      <4> QED
        BY <1>10, <4>1, <4>2
    <3> QED
      BY <1>2, <1>10, <1>15, <3>1, <3>2, <3>3, <3>4, <3>5, HardEndOK
  <2>2. CASE body[x].ref # 1
    <3>0. Len(new) = 1 /\ new[1].op = "unlock" /\ Len(stack'[t]) = b + 1
      BY <1>10, <1>12, <1>16, <2>2
    <3>1. /\ Len(new) = 1 /\ new[1].op = "unlock" /\ Len(stack'[t]) = b + 1
          /\ body'[x].ref > 0
      <4>1. body[x].ref - 1 > 0
        BY <1>5, <2>2
      <4> QED
        BY <1>7, <1>9, <3>0, <4>1
    <3>2. ShapeOK(t, b + 1)' /\ HandleOK(t, b + 1)'
      BY <1>2, <1>12, <1>16, <3>1 DEF ShapeOK, HandleOK, OnQuorum, Outermost
    <3>3. OnceOK(stack[t][b + 1])' /\ CullOK(t, b + 1)' /\ NomemOK(t, b + 1)'
      BY <1>12, <1>16, <3>1 DEF OnceOK, CullOK, NomemOK
    <3> QED
      BY <3>1, <3>2, <3>3 DEF FrameOK
  <2> QED
    BY <2>1, <2>2
<1>18. body'[x].ref = body[x].ref - PopWeight(t, b, x)
                    + Weight(new, 1, x) + Weight(new, 2, x) + Weight(new, 3, x)
  BY <1>4, <1>5, <1>7, <1>9, <1>13
<1>19. \A j \in 1..Len(new) : /\ new[j].op \notin {"inform", "member"} /\ new[j].on = x
                              /\ FrameOK(t, b + j)' /\ (new[j].op \in Owners => j = 1)
  <2>1. ASSUME NEW j \in 1..Len(new)
        PROVE  /\ new[j].op \notin {"inform", "member"} /\ new[j].on = x
               /\ FrameOK(t, b + j)' /\ (new[j].op \in Owners => j = 1)
    <3>1. j = 1 \/ (j = 2 /\ Len(new) = 2)
      <4>1. CASE Len(new) = 1
        BY <4>1
      <4>2. CASE Len(new) = 2
        BY <4>2
      <4> QED
        BY <1>10, <4>1, <4>2
    <3> QED
      BY <1>12, <1>17, <3>1 DEF Owners
  <2> QED
    BY <2>1
<1>20. OneBodyStep(t, b, f, new, x)
  BY <1>1, <1>2, <1>3, <1>7, <1>8, <1>9, <1>10, <1>11, <1>14, <1>18, <1>19, SMTT(60) DEF OneBodyStep
<1> QED
  BY <1>20, OneBody

LEMMA UnlockInv ==
    ASSUME Prompt, IInv, NEW t \in Threads, Unlock(t)
    PROVE  IInv'
<1>1. PICK b \in Nat, f \in FrameType :
         /\ Popped(t, b, f) /\ f = Top(t) /\ f.op = "unlock" /\ Runs(t)
         /\ \A new \in Seq(FrameType) : Replace(t, new) => Moves(t, b, new)
  BY InFacts DEF Unlock
<1>2. PICK x \in Bodies : x = f.on /\ body[x].ref > 0
  BY <1>1 DEF Popped, FrameOK, OnceOK
<1>3. Moves(t, b, << >>) /\ held' = held /\ queue' = queue /\ at' = at /\ coh' = coh
  BY <1>1, NoCalls DEF Unlock
<1>4. PopsOwner(t, b, x) /\ PopWeight(t, b, x) = 0
      /\ ~Pops(t, b, "publish", x) /\ ~Pops(t, b, "make", x)
      /\ (b = 0 => ~Private(t, x))
  <2>1. /\ PopsOwner(t, b, x) <=> f.op \in Owners /\ f.on = x
        /\ PopsCounted(t, b, x) <=> Counts(f) /\ f.on = x
        /\ \A op : Pops(t, b, op, x) <=> f.op = op /\ f.on = x
        /\ b = 0 => (Private(t, x) => f.op \in {"make", "publish"} /\ f.on = x)
    BY <1>1, PoppedFacts
  <2> QED
    BY <1>1, <1>2, <2>1 DEF Owners, Counts, PopWeight
<1>5. /\ body[x] \in BodyType /\ BodyOK(x, body[x]) /\ body[x].ref \in Nat
  BY LiveFacts
<1>6. PICK c : c = Unlocked(body[x]) /\ body' = [body EXCEPT ![x] = c]
  BY <1>1, <1>2 DEF Unlock
<1>7. /\ c \in BodyType /\ BodyOK(x, c)
      /\ c.life = body[x].life /\ ~c.lock /\ (c.triggered <=> body[x].triggered) /\ c.ref = body[x].ref
      /\ (c.nomem <=> c.members = Nobody) /\ c.quorums = body[x].quorums
      /\ c.coroutines = body[x].coroutines /\ c.members = body[x].members
  BY <1>5, <1>6, UnlockedFacts, BodyOKFacts
<1>8. body' \in [Bodies -> BodyType] /\ body'[x] = c /\ \A y \in Bodies : y # x => body'[y] = body[y]
  BY <1>6, <1>7 DEF IInv, TypeOK
<1>9. BodyStep(t, b, << >>, x)
  <2>1. \A y \in Bodies : body'[x].members[y] <= body[x].members[y]
    BY <1>7, <1>8, LiveFacts
  <2>2. body'[x].ref # 0 /\ body'[x].ref = body[x].ref
    BY <1>2, <1>7, <1>8
  <2> QED
    BY <1>4, <1>7, <1>8, <2>1, <2>2, NoCalls DEF BodyStep, RefStep, PrivateStep, DeleteStep, Live
<1>10. body'[x].ref = body[x].ref - PopWeight(t, b, x)
                    + Weight(<< >>, 1, x) + Weight(<< >>, 2, x) + Weight(<< >>, 3, x)
  BY <1>4, <1>5, <1>7, <1>8, NoCalls
<1>11. OneBodyStep(t, b, f, << >>, x)
  BY <1>1, <1>2, <1>3, <1>7, <1>8, <1>9, <1>10, NoCalls DEF OneBodyStep
<1> QED
  BY <1>11, OneBody

LEMMA HardEndInv ==
    ASSUME Prompt, IInv, NEW t \in Threads, HardEnd(t)
    PROVE  IInv'
<1>1. PICK b \in Nat, f \in FrameType :
         /\ Popped(t, b, f) /\ f = Top(t) /\ f.op = "hard_end" /\ Runs(t)
         /\ \A new \in Seq(FrameType) : Replace(t, new) => Moves(t, b, new)
  BY InFacts DEF HardEnd
<1>2. PICK x \in Bodies : x = f.on /\ body[x].ref = 0
  BY <1>1 DEF Popped, FrameOK, OnceOK
<1>3. Moves(t, b, << >>) /\ held' = held /\ queue' = queue /\ at' = at /\ coh' = coh
  BY <1>1, NoCalls DEF HardEnd
<1>4. PopsOwner(t, b, x) /\ PopWeight(t, b, x) = 0
      /\ ~Pops(t, b, "publish", x) /\ ~Pops(t, b, "make", x)
      /\ (b = 0 => ~Private(t, x))
  <2>1. /\ PopsOwner(t, b, x) <=> f.op \in Owners /\ f.on = x
        /\ PopsCounted(t, b, x) <=> Counts(f) /\ f.on = x
        /\ \A op : Pops(t, b, op, x) <=> f.op = op /\ f.on = x
        /\ b = 0 => (Private(t, x) => f.op \in {"make", "publish"} /\ f.on = x)
    BY <1>1, PoppedFacts
  <2> QED
    BY <1>1, <1>2, <2>1 DEF Owners, Counts, PopWeight
<1>5. /\ body[x] \in BodyType /\ BodyOK(x, body[x]) /\ body[x].lock /\ body[x].life = "live"
  <2>1. b + 1 \in 1..Len(stack[t]) /\ stack[t][b + 1].op \in Owners /\ stack[t][b + 1].on = x
    BY <1>1, <1>2 DEF Popped, Owners
  <2>2. body[x].lock
    BY <2>1 DEF IInv, LockInv
  <2> QED
    BY <2>2, LiveFacts
<1>6. PICK c : /\ c = IF body[x].members = Nobody THEN Deleted(body[x]) ELSE Unlocked(body[x])
               /\ body' = [body EXCEPT ![x] = c]
  BY <1>1, <1>2 DEF HardEnd
<1>7. /\ c \in BodyType /\ BodyOK(x, c)
      /\ c.life = (IF body[x].members = Nobody THEN "deleted" ELSE "live")
      /\ ~c.lock /\ (c.triggered <=> body[x].triggered) /\ c.ref = 0
      /\ (c.nomem <=> c.members = Nobody) /\ c.quorums = body[x].quorums
      /\ c.coroutines = body[x].coroutines /\ c.members = body[x].members
  <2>1. body[x].quorums = Nobody /\ body[x].coroutines = {}
    <3>1. MemCount(x) = 0 /\ AtCount(x) = 0
      <4>1. /\ HeldCount(x) \in Nat /\ QueueCount(x) \in Nat /\ AtCount(x) \in Nat
            /\ MemCount(x) \in Nat /\ CallCount(x) \in Nat
            /\ 0 = HeldCount(x) + QueueCount(x) + AtCount(x) + MemCount(x) + CallCount(x)
        BY <1>2, FiniteRefs
      <4> QED
        BY <4>1
    <3> QED
      BY <3>1, NoListeners
  <2>2. CASE body[x].members = Nobody
    BY <1>2, <1>5, <1>6, <2>1, <2>2, DeletedFacts, BodyOKFacts
  <2>3. CASE body[x].members # Nobody
    BY <1>2, <1>5, <1>6, <2>3, UnlockedFacts, BodyOKFacts
  <2> QED
    BY <2>2, <2>3
<1>8. body' \in [Bodies -> BodyType] /\ body'[x] = c /\ \A y \in Bodies : y # x => body'[y] = body[y]
  BY <1>6, <1>7 DEF IInv, TypeOK
<1>9. BodyStep(t, b, << >>, x)
  <2>1. \A y \in Bodies : body'[x].members[y] <= body[x].members[y]
    BY <1>7, <1>8, LiveFacts
  <2> QED
    BY <1>2, <1>4, <1>5, <1>7, <1>8, <2>1, NoCalls DEF BodyStep, RefStep, PrivateStep, DeleteStep, Live
<1>10. body'[x].ref = body[x].ref - PopWeight(t, b, x)
                    + Weight(<< >>, 1, x) + Weight(<< >>, 2, x) + Weight(<< >>, 3, x)
  BY <1>2, <1>4, <1>7, <1>8, NoCalls
<1>11. OneBodyStep(t, b, f, << >>, x)
  BY <1>1, <1>2, <1>3, <1>7, <1>8, <1>9, <1>10, NoCalls DEF OneBodyStep
<1> QED
  BY <1>11, OneBody

\* What a call that is about to return or go on says of its body.
OnBody(t, b, f, x) ==
    /\ PopsOwner(t, b, x) <=> f.op \in Owners
    /\ PopsCounted(t, b, x) <=> Counts(f)
    /\ PopWeight(t, b, x) = IF Counts(f) THEN 1 ELSE 0
    /\ \A op : Pops(t, b, op, x) <=> f.op = op
    /\ b = 0 => (Private(t, x) => f.op \in {"make", "publish"})
    /\ body[x] \in BodyType /\ BodyOK(x, body[x]) /\ body[x].ref \in Nat
    /\ body[x].members \in [Bodies -> Nat] /\ body[x].quorums \in [Bodies -> Nat]
    /\ x \in Quorums <=> x \notin Events
    /\ f.op \in Owners => body[x].lock /\ body[x].life = "live"
    /\ Counts(f) => body[x].ref >= 1 /\ body[x].life = "live"

LEMMA CallOn ==
    ASSUME IInv, NEW t \in Threads, NEW b \in Nat, NEW f \in FrameType, Popped(t, b, f),
           NEW x \in Bodies, x = f.on
    PROVE  OnBody(t, b, f, x)
<1>1. /\ PopsOwner(t, b, x) <=> f.op \in Owners
      /\ PopsCounted(t, b, x) <=> Counts(f)
      /\ \A op : Pops(t, b, op, x) <=> f.op = op
      /\ b = 0 => (Private(t, x) => f.op \in {"make", "publish"})
      /\ b + 1 \in 1..Len(stack[t])
  BY PoppedFacts
<1>2. f.op \in Owners => body[x].lock
  BY <1>1 DEF IInv, LockInv, Popped
<1>3. Counts(f) => body[x].ref >= 1
  <2>1. Counts(f) => CallCount(x) >= 1
    BY <1>1, Referrers DEF IInv, Popped
  <2> QED
    BY <2>1, FiniteRefs
<1>4. /\ body[x] \in BodyType /\ BodyOK(x, body[x]) /\ body[x].ref \in Nat
      /\ body[x].members \in [Bodies -> Nat] /\ body[x].quorums \in [Bodies -> Nat]
      /\ (x \in Quorums <=> x \notin Events)
      /\ body[x].ref > 0 => body[x].life = "live"
      /\ body[x].lock => body[x].life = "live"
  BY LiveFacts
<1>5. PopWeight(t, b, x) = IF Counts(f) THEN 1 ELSE 0
  BY <1>1 DEF PopWeight
<1>6. Counts(f) => body[x].life = "live"
  BY <1>3, <1>4
<1> QED
  BY <1>1, <1>2, <1>3, <1>4, <1>5, <1>6 DEF OnBody

\* The calls trigger_unlock begins.
LEMMA TriggerCalls ==
    ASSUME NEW b \in BodyType, NEW x \in Bodies, NEW drv \in BOOLEAN,
           x \notin Quorums => b.members = Nobody, NEW new, new = TriggerUnlock(b, x, drv)
    PROVE  /\ new \in Seq(FrameType) /\ Len(new) \in {1, 2} /\ Len(new) <= 3 /\ 1 \in 1..Len(new)
           /\ \A j \in 1..Len(new) : j = 1 \/ (j = 2 /\ Len(new) = 2)
           /\ new[1].op = "publish" /\ new[1].on = x
           /\ new[1] = Frame("publish", x, None, Nobody, drv)
           /\ Len(new) = 1 => b.members = Nobody
           /\ Len(new) = 2 => /\ x \in Quorums /\ new[2] = Frame("cull", x, None, b.members, drv)
                              /\ new[2].op = "cull" /\ new[2].on = x
           /\ NewOwner(new, x)
           /\ Weight(new, 1, x) = (IF x \in Quorums THEN 1 ELSE 0)
           /\ Weight(new, 2, x) = 0 /\ Weight(new, 3, x) = 0
<1>1. /\ new \in Seq(FrameType) /\ Len(new) \in {1, 2}
      /\ new[1] = Frame("publish", x, None, Nobody, drv)
      /\ Len(new) = 1 => b.members = Nobody
      /\ Len(new) = 2 => x \in Quorums /\ new[2] = Frame("cull", x, None, b.members, drv)
  BY TriggerUnlockFacts
<1>2. /\ new[1].op = "publish" /\ new[1].on = x
      /\ Len(new) = 2 => new[2].op = "cull" /\ new[2].on = x
  BY <1>1 DEF Frame
<1>3. /\ Len(new) <= 3 /\ 1 \in 1..Len(new)
      /\ \A j \in 1..Len(new) : j = 1 \/ (j = 2 /\ Len(new) = 2)
  <2>1. CASE Len(new) = 1
    BY <2>1
  <2>2. CASE Len(new) = 2
    BY <2>2
  <2> QED
    BY <1>1, <2>1, <2>2
<1>4. NewOwner(new, x)
  BY <1>2, <1>3 DEF NewOwner, Owners
<1>5. /\ Weight(new, 1, x) = (IF x \in Quorums THEN 1 ELSE 0)
      /\ Weight(new, 2, x) = 0 /\ Weight(new, 3, x) = 0
  BY <1>1, <1>2, <1>3 DEF Weight, Counts
<1> QED
  BY <1>1, <1>2, <1>3, <1>4, <1>5

\* trigger_unlock of a body that its caller has locked.
LEMMA TriggerUnlockInv ==
    ASSUME Prompt, IInv, NEW t \in Threads, NEW b \in Nat, NEW f \in FrameType, Popped(t, b, f), Runs(t),
           f.op \in {"trigger", "member_end", "make"}, NEW x \in Bodies, x = f.on,
           NEW drv \in BOOLEAN, drv => f.drv,
           NEW new, new = TriggerUnlock(body[x], x, drv), Moves(t, b, new),
           NEW c \in BodyType, body' = [body EXCEPT ![x] = c],
           c.life = "live", c.lock, ~c.triggered,
           c.ref = body[x].ref + (IF x \in Quorums THEN 1 ELSE 0), c.nomem <=> body[x].nomem,
           c.quorums = body[x].quorums, c.coroutines = body[x].coroutines, c.members = body[x].members,
           BodyOK(x, c),
           held' = held, queue' = queue, at' = at, coh' = coh,
           ~body[x].lock \/ f.op \in Owners, ~body[x].triggered
    PROVE  IInv'
<1>1. /\ PopsOwner(t, b, x) <=> f.op \in Owners
      /\ PopsCounted(t, b, x) <=> Counts(f)
      /\ PopWeight(t, b, x) = IF Counts(f) THEN 1 ELSE 0
      /\ \A op : Pops(t, b, op, x) <=> f.op = op
      /\ b = 0 => (Private(t, x) => f.op \in {"make", "publish"})
      /\ body[x] \in BodyType /\ BodyOK(x, body[x]) /\ body[x].ref \in Nat
      /\ body[x].members \in [Bodies -> Nat]
      /\ (x \in Quorums <=> x \notin Events)
  <2>1. OnBody(t, b, f, x)
    BY CallOn
  <2> QED
    BY <2>1 DEF OnBody
<1>2. PopWeight(t, b, x) = 0
  BY <1>1 DEF Counts
<1>3. x \notin Quorums => body[x].members = Nobody
  BY <1>1 DEF BodyOK
<1>4. /\ new \in Seq(FrameType) /\ Len(new) \in {1, 2} /\ Len(new) <= 3 /\ 1 \in 1..Len(new)
      /\ \A j \in 1..Len(new) : j = 1 \/ (j = 2 /\ Len(new) = 2)
      /\ new[1].op = "publish" /\ new[1].on = x
      /\ new[1] = Frame("publish", x, None, Nobody, drv)
      /\ Len(new) = 1 => body[x].members = Nobody
      /\ Len(new) = 2 => /\ x \in Quorums /\ new[2] = Frame("cull", x, None, body[x].members, drv)
                         /\ new[2].op = "cull" /\ new[2].on = x
      /\ NewOwner(new, x)
      /\ Weight(new, 1, x) = (IF x \in Quorums THEN 1 ELSE 0)
      /\ Weight(new, 2, x) = 0 /\ Weight(new, 3, x) = 0
  <2>1. PICK r \in BodyType : r = body[x]
    BY <1>1
  <2>2. (x \notin Quorums => r.members = Nobody) /\ new = TriggerUnlock(r, x, drv)
    BY <1>3, <2>1
  <2> QED
    BY <2>1, <2>2, TriggerCalls, SMTT(60)
<1>5. body' \in [Bodies -> BodyType] /\ body'[x] = c /\ \A y \in Bodies : y # x => body'[y] = body[y]
  BY DEF IInv, TypeOK
<1>6. TypeOK'
  BY <1>5 DEF IInv, TypeOK, Moves, Onto
<1>7. /\ Len(stack'[t]) = b + Len(new) /\ stack'[t][b + 1] = new[1]
      /\ Len(new) = 2 => stack'[t][b + 2] = new[2]
  BY <1>4 DEF Moves, Onto
<1>8. /\ Len(new) = 1 <=> Len(stack'[t]) = b + 1
      /\ Len(new) = 2 <=> Len(stack'[t]) = b + 2
  <2>1. CASE Len(new) = 1
    BY <1>7, <2>1
  <2>2. CASE Len(new) = 2
    BY <1>7, <2>2
  <2> QED
    BY <1>4, <2>1, <2>2
<1>9. f.op \in {"trigger", "make"} => b = 0
  <2>1. f.op \in Outermost => b + 1 = 1
    BY DEF Popped, FrameOK, ShapeOK
  <2> QED
    BY <2>1 DEF Outermost
<1>10. drv => stack'[t][1].op = "claimed"
  <2>1. ASSUME drv PROVE stack'[t][1].op = "claimed"
    <3>1. stack[t][1].op = "claimed"
      BY <2>1 DEF Popped, FrameOK, ShapeOK
    <3>2. b # 0
      <4>1. b = 0 => stack[t][1] = f
        BY DEF Popped
      <4> QED
        BY <3>1, <4>1
    <3>3. stack'[t][1] = stack[t][1]
      <4>1. 1 \in 1..b
        BY <3>2
      <4> QED
        BY <4>1 DEF Moves, Onto
    <3> QED
      BY <3>1, <3>3
  <2> QED
    BY <2>1
<1>11. x \in Events => Secured(t, x)'
  <2>1. ASSUME x \in Events PROVE held[t][x] > 0
    <3>1. f.op = "trigger"
      BY <1>1, <2>1 DEF Popped, FrameOK, ShapeOK, OnQuorum
    <3>2. Secured(t, x) /\ stack[t][1] = f
      BY <1>9, <2>1, <3>1 DEF Popped, FrameOK, HandleOK
    <3> QED
      BY <3>1, <3>2 DEF Secured, Is
  <2> QED
    BY <2>1 DEF Secured
<1>12. FrameOK(t, b + 1)' /\ (Len(new) = 2 => FrameOK(t, b + 2)')
  BY <1>4, <1>5, <1>6, <1>7, <1>8, <1>10, <1>11, PublishOK
<1>13. PrivateStep(t, b, x)
  <2>1. ASSUME b = 0, Private(t, x) PROVE Private(t, x)'
    <3>1. f.op = "make" /\ stack[t][1] = f
      BY <1>1, <2>1 DEF Popped
    <3>2. x \in Quorums /\ body[x].ref = 1 /\ held[t][x] > 0
      BY <2>1, <3>1 DEF Popped, FrameOK, ShapeOK, OnQuorum, Private, Is
    <3>3. body'[x].ref = 2
      BY <1>5, <3>2
    <3>4. stack'[t] # << >> /\ Is(t, 1, "publish", x)'
      <4>1. stack'[t][1] = new[1] /\ Len(stack'[t]) # 0
        BY <1>4, <1>7, <2>1
      <4> QED
        BY <1>4, <4>1 DEF Is
    <3> QED
      BY <3>2, <3>3, <3>4 DEF Private
  <2> QED
    BY <2>1 DEF PrivateStep
<1>14. BodyStep(t, b, new, x)
  <2>1. \A y \in Bodies : body'[x].members[y] <= body[x].members[y]
    BY <1>1, <1>5
  <2>2. x \in Quorums => body'[x].ref # 0 /\ PopsOwner(t, b, x)
    <3>1. x \in Quorums => f.op # "trigger"
      BY <1>1 DEF Popped, FrameOK, ShapeOK
    <3> QED
      BY <1>1, <1>5, <3>1 DEF Owners
  <2>3. x \notin Quorums => body'[x].ref = body[x].ref
    BY <1>1, <1>5
  <2>4. x \in Quorums => RefStep(t, b, x) /\ DeleteStep(new, x)
    BY <2>2 DEF RefStep, DeleteStep
  <2> QED
    BY <1>1, <1>4, <1>5, <1>13, <2>1, <2>2, <2>3, <2>4 DEF BodyStep
<1>15. body'[x].ref = body[x].ref - PopWeight(t, b, x)
                    + Weight(new, 1, x) + Weight(new, 2, x) + Weight(new, 3, x)
  BY <1>1, <1>2, <1>4, <1>5
<1>16. \A j \in 1..Len(new) : /\ new[j].op \notin {"inform", "member"} /\ new[j].on = x
                              /\ FrameOK(t, b + j)' /\ (new[j].op \in Owners => j = 1)
  BY <1>4, <1>12, SMTT(60) DEF Owners
<1>17. OneBodyStep(t, b, f, new, x)
  BY <1>4, <1>5, <1>14, <1>15, <1>16 DEF OneBodyStep
<1> QED
  BY <1>17, OneBody

\* A call that ends, or goes on with the release of its body, and changes nothing.
LEMMA EndInv ==
    ASSUME Prompt, IInv, NEW t \in Threads, NEW b \in Nat, NEW f \in FrameType, Popped(t, b, f), Runs(t),
           f.op \in {"trigger", "drive"}, NEW x \in Bodies, x = f.on,
           NEW new, Moves(t, b, new),
           f.op = "trigger" => new = << >>, f.op = "drive" => new = <<Release(x)>>,
           body' = body, held' = held, queue' = queue, at' = at, coh' = coh
    PROVE  IInv'
<1>1. /\ ~PopsOwner(t, b, x) /\ body[x] \in BodyType /\ BodyOK(x, body[x]) /\ body[x].ref \in Nat
      /\ PopWeight(t, b, x) = IF f.op = "drive" THEN 1 ELSE 0
  <2>1. OnBody(t, b, f, x)
    BY CallOn
  <2> QED
    BY <2>1 DEF OnBody, Owners, Counts
<1>2. body' \in [Bodies -> BodyType] /\ \A y \in Bodies : y # x => body'[y] = body[y]
  BY DEF IInv, TypeOK
<1>3. CASE f.op = "trigger"
  <2>1. BodyStep(t, b, new, x)
    BY <1>1, <1>3, NoCalls, SameBody DEF IInv
  <2>2. body'[x].ref = body[x].ref - PopWeight(t, b, x)
                    + Weight(new, 1, x) + Weight(new, 2, x) + Weight(new, 3, x)
    BY <1>1, <1>3, NoCalls
  <2>3. OneBodyStep(t, b, f, new, x)
    BY <1>1, <1>2, <1>3, <2>1, <2>2, NoCalls DEF OneBodyStep
  <2> QED
    BY <2>3, OneBody
<1>4. CASE f.op = "drive"
  <2>1. PICK g \in FrameType : g = Release(x) /\ g.on = x /\ Counts(g)
                               /\ g.op \in {"drop", "deref"}
    BY ReleaseFacts
  <2>2. /\ Len(new) = 1 /\ new[1] = g /\ 1..Len(new) = {1} /\ ~NewOwner(new, x)
        /\ Weight(new, 1, x) = 1 /\ Weight(new, 2, x) = 0 /\ Weight(new, 3, x) = 0
    <3>1. new = <<g>>
      BY <1>4, <2>1
    <3> QED
      BY <2>1, <3>1, OneCall DEF Owners
  <2>3. FrameOK(t, b + 1)'
    <3>1. stack'[t][b + 1] = Release(x)
      BY <2>1, <2>2 DEF Moves, Onto
    <3> QED
      BY <3>1, ReleaseOK
  <2>4. BodyStep(t, b, new, x)
    BY <1>1, <2>2, SameBody DEF IInv
  <2>5. body'[x].ref = body[x].ref - PopWeight(t, b, x)
                    + Weight(new, 1, x) + Weight(new, 2, x) + Weight(new, 3, x)
    BY <1>1, <1>4, <2>2
  <2>6. OneBodyStep(t, b, f, new, x)
    BY <1>1, <1>2, <1>4, <2>1, <2>2, <2>3, <2>4, <2>5 DEF OneBodyStep
  <2> QED
    BY <2>6, OneBody
<1> QED
  BY <1>3, <1>4

LEMMA TriggerInv ==
    ASSUME Prompt, IInv, NEW t \in Threads, Trigger(t)
    PROVE  IInv'
<1>1. PICK b \in Nat, f \in FrameType :
         /\ Popped(t, b, f) /\ f = Top(t) /\ f.op = "trigger" /\ Runs(t)
         /\ \A new \in Seq(FrameType) : Replace(t, new) => Moves(t, b, new)
  BY InFacts DEF Trigger
<1>2. PICK x \in Bodies : x = f.on /\ x \in Events
  BY <1>1 DEF Popped, FrameOK, ShapeOK
<1>3. held' = held /\ queue' = queue /\ at' = at /\ coh' = coh
  BY DEF Trigger
<1>4. CASE body[x].triggered /\ Replace(t, << >>) /\ body' = body
  <2>1. Moves(t, b, << >>)
    BY <1>1, <1>4, NoCalls
  <2> QED
    BY <1>1, <1>2, <1>3, <1>4, <2>1, EndInv
<1>5. CASE /\ ~body[x].triggered /\ ~body[x].lock
           /\ body' = [body EXCEPT ![x] = Referenced(Locked(body[x]), x)]
           /\ Replace(t, TriggerUnlock(body[x], x, FALSE))
  <2>1. body[x] \in BodyType /\ BodyOK(x, body[x]) /\ body[x].life = "live" /\ x \notin Quorums
    <3>1. /\ body[x] \in BodyType /\ BodyOK(x, body[x])
          /\ x \in Quorums <=> x \notin Events
          /\ body[x].ref > 0 => body[x].life = "live"
      BY LiveFacts
    <3>2. Secured(t, x) /\ b = 0 /\ stack[t][1] = f
      BY <1>1, <1>2 DEF Popped, FrameOK, HandleOK, ShapeOK, Outermost
    <3>3. held[t][x] > 0
      BY <1>1, <3>2 DEF Secured, Is
    <3>4. HeldCount(x) >= 1
      BY <3>3, Referrers DEF IInv
    <3>5. body[x].ref > 0
      BY <3>4, FiniteRefs
    <3> QED
      BY <1>2, <3>1, <3>5
  <2>2. PICK r : r = Locked(body[x]) /\ r \in BodyType /\ BodyOK(x, r)
                 /\ r.life = "live" /\ r.lock /\ (r.triggered <=> body[x].triggered) /\ r.ref = body[x].ref
                 /\ (r.nomem <=> body[x].nomem) /\ r.quorums = body[x].quorums
                 /\ r.coroutines = body[x].coroutines /\ r.members = body[x].members
    BY <2>1, LockedFacts, BodyOKFacts
  <2>3. PICK c : c = Referenced(r, x) /\ body' = [body EXCEPT ![x] = c]
    BY <1>5, <2>2
  <2>4. /\ c \in BodyType /\ BodyOK(x, c)
        /\ c.life = "live" /\ c.lock /\ (c.triggered <=> body[x].triggered)
        /\ c.ref = body[x].ref + (IF x \in Quorums THEN 1 ELSE 0)
        /\ (c.nomem <=> body[x].nomem) /\ c.quorums = body[x].quorums
        /\ c.coroutines = body[x].coroutines /\ c.members = body[x].members
    BY <2>2, <2>3, ReferencedFacts, BodyOKFacts
  <2>5. PICK new \in Seq(FrameType) : new = TriggerUnlock(body[x], x, FALSE)
    <3>1. body[x].members = Nobody
      BY <1>2, <2>1 DEF BodyOK
    <3>2. FALSE \in BOOLEAN
      OBVIOUS
    <3> QED
      BY <2>1, <3>1, <3>2, TriggerCalls
  <2>6. Moves(t, b, new)
    BY <1>1, <1>5, <2>5
  <2> QED
    BY <1>1, <1>2, <1>3, <1>5, <2>3, <2>4, <2>5, <2>6, TriggerUnlockInv
<1> QED
  BY <1>1, <1>2, <1>4, <1>5 DEF Trigger

\* The call that holds the lock gives it back, or deletes the body.
LEMMA ReturnInv ==
    ASSUME Prompt, IInv, NEW t \in Threads, NEW b \in Nat, NEW f \in FrameType, Popped(t, b, f), Runs(t),
           f.op \in {"member_end", "make"}, NEW x \in Bodies, x = f.on, Moves(t, b, << >>),
           body' = [body EXCEPT ![x] = IF f.op = "member_end" /\ body[x].members = Nobody /\ body[x].ref = 0
                                       THEN Deleted(body[x]) ELSE Unlocked(body[x])],
           held' = held, queue' = queue, at' = at, coh' = coh
    PROVE  IInv'
<1>1. /\ PopsOwner(t, b, x) /\ PopWeight(t, b, x) = 0
      /\ body[x] \in BodyType /\ BodyOK(x, body[x]) /\ body[x].ref \in Nat
      /\ body[x].members \in [Bodies -> Nat] /\ body[x].life = "live" /\ body[x].lock
  <2>1. OnBody(t, b, f, x)
    BY CallOn
  <2> QED
    BY <2>1 DEF OnBody, Owners, Counts
<1>2. PICK c : /\ c = IF f.op = "member_end" /\ body[x].members = Nobody /\ body[x].ref = 0
                      THEN Deleted(body[x]) ELSE Unlocked(body[x])
               /\ body' = [body EXCEPT ![x] = c]
  OBVIOUS
<1>3. f.op = "make" => body[x].ref = 1
  <2>1. f.op = "make" => Private(t, x) /\ b = 0 /\ stack[t][1] = f
    BY DEF Popped, FrameOK, NomemOK, ShapeOK, Outermost
  <2> QED
    BY <2>1 DEF Private, Is
<1>4. /\ c \in BodyType /\ BodyOK(x, c)
      /\ ~c.lock /\ (c.triggered <=> body[x].triggered) /\ c.ref = body[x].ref
      /\ (c.nomem <=> c.members = Nobody) /\ c.quorums = body[x].quorums
      /\ c.coroutines = body[x].coroutines /\ c.members = body[x].members
      /\ c.life = "live" => ~(body[x].members = Nobody /\ body[x].ref = 0)
  <2>1. CASE body[x].members = Nobody /\ body[x].ref = 0
    <3>1. /\ HeldCount(x) \in Nat /\ QueueCount(x) \in Nat /\ AtCount(x) \in Nat
          /\ MemCount(x) \in Nat /\ CallCount(x) \in Nat
          /\ 0 = HeldCount(x) + QueueCount(x) + AtCount(x) + MemCount(x) + CallCount(x)
      BY <2>1, FiniteRefs
    <3>2. MemCount(x) = 0 /\ AtCount(x) = 0
      BY <3>1
    <3>3. body[x].quorums = Nobody /\ body[x].coroutines = {}
      BY <3>2, NoListeners
    <3>4. c = Deleted(body[x])
      BY <1>2, <1>3, <2>1
    <3> QED
      BY <1>1, <2>1, <3>3, <3>4, DeletedFacts, BodyOKFacts
  <2>2. CASE ~(body[x].members = Nobody /\ body[x].ref = 0)
    <3>1. c = Unlocked(body[x])
      BY <1>2, <2>2
    <3> QED
      BY <1>1, <2>2, <3>1, UnlockedFacts, BodyOKFacts
  <2> QED
    BY <2>1, <2>2
<1>5. body' \in [Bodies -> BodyType] /\ body'[x] = c /\ \A y \in Bodies : y # x => body'[y] = body[y]
  BY <1>2, <1>4 DEF IInv, TypeOK
<1>6. BodyStep(t, b, << >>, x)
  <2>1. \A y \in Bodies : body'[x].members[y] <= body[x].members[y]
    BY <1>1, <1>4, <1>5
  <2>2. DeleteStep(<< >>, x)
    BY <1>1, <1>4, <1>5 DEF DeleteStep, Live
  <2> QED
    BY <1>1, <1>4, <1>5, <2>1, <2>2, NoCalls DEF BodyStep, RefStep, PrivateStep
<1>7. body'[x].ref = body[x].ref - PopWeight(t, b, x)
                    + Weight(<< >>, 1, x) + Weight(<< >>, 2, x) + Weight(<< >>, 3, x)
  BY <1>1, <1>4, <1>5, NoCalls
<1>8. OneBodyStep(t, b, f, << >>, x)
  BY <1>1, <1>4, <1>5, <1>6, <1>7, NoCalls DEF OneBodyStep
<1> QED
  BY <1>8, OneBody

\* The call that holds the lock triggers the quorum.
LEMMA GoOnInv ==
    ASSUME Prompt, IInv, NEW t \in Threads, NEW b \in Nat, NEW f \in FrameType, Popped(t, b, f), Runs(t),
           f.op \in {"member_end", "make"}, NEW x \in Bodies, x = f.on,
           NEW drv \in BOOLEAN, drv => f.drv, ~body[x].triggered,
           body' = [body EXCEPT ![x] = Referenced(body[x], x)],
           Replace(t, TriggerUnlock(body[x], x, drv)),
           \A new \in Seq(FrameType) : Replace(t, new) => Moves(t, b, new),
           held' = held, queue' = queue, at' = at, coh' = coh
    PROVE  IInv'
<1>1. /\ body[x] \in BodyType /\ BodyOK(x, body[x]) /\ body[x].life = "live" /\ body[x].lock
      /\ f.op \in Owners
  <2>1. OnBody(t, b, f, x)
    BY CallOn
  <2> QED
    BY <2>1 DEF OnBody, Owners
<1>2. PICK c : c = Referenced(body[x], x) /\ body' = [body EXCEPT ![x] = c]
  OBVIOUS
<1>3. /\ c \in BodyType /\ BodyOK(x, c)
      /\ c.life = "live" /\ c.lock /\ ~c.triggered
      /\ c.ref = body[x].ref + (IF x \in Quorums THEN 1 ELSE 0)
      /\ (c.nomem <=> body[x].nomem) /\ c.quorums = body[x].quorums
      /\ c.coroutines = body[x].coroutines /\ c.members = body[x].members
  BY <1>1, <1>2, ReferencedFacts, BodyOKFacts
<1>4. PICK new \in Seq(FrameType) : new = TriggerUnlock(body[x], x, drv)
  <2>1. x \notin Quorums => body[x].members = Nobody
    BY <1>1 DEF BodyOK, Bodies
  <2> QED
    BY <1>1, <2>1, TriggerCalls
<1>5. Moves(t, b, new)
  BY <1>4
<1> QED
  BY <1>1, <1>2, <1>3, <1>4, <1>5, TriggerUnlockInv, ZenonT(60)

LEMMA MemberEndInv ==
    ASSUME Prompt, IInv, NEW t \in Threads, MemberEnd(t)
    PROVE  IInv'
<1>1. PICK b \in Nat, f \in FrameType :
         /\ Popped(t, b, f) /\ f = Top(t) /\ f.op = "member_end" /\ Runs(t)
         /\ \A new \in Seq(FrameType) : Replace(t, new) => Moves(t, b, new)
  BY InFacts DEF MemberEnd
<1>2. PICK x \in Bodies : x = f.on
  BY <1>1 DEF Popped
<1>3. held' = held /\ queue' = queue /\ at' = at /\ coh' = coh /\ f.drv \in BOOLEAN
  BY <1>1 DEF MemberEnd, FrameType
<1>4. CASE /\ ~body[x].triggered
           /\ body' = [body EXCEPT ![x] = Referenced(body[x], x)]
           /\ Replace(t, TriggerUnlock(body[x], x, f.drv))
  <2>1. PICK drv \in BOOLEAN : drv = f.drv
    BY <1>3
  <2>2. (drv => f.drv) /\ Replace(t, TriggerUnlock(body[x], x, drv))
    BY <1>4, <2>1
  <2> QED
    BY <1>1, <1>2, <1>3, <1>4, <2>2, GoOnInv
<1>5. CASE /\ body' = [body EXCEPT ![x] = IF body[x].members = Nobody /\ body[x].ref = 0
                                          THEN Deleted(body[x]) ELSE Unlocked(body[x])]
           /\ Replace(t, << >>)
  <2>1. Moves(t, b, << >>)
    BY <1>1, <1>5, NoCalls
  <2> QED
    BY <1>1, <1>2, <1>3, <1>5, <2>1, ReturnInv
<1> QED
  BY <1>1, <1>2, <1>4, <1>5 DEF MemberEnd

\* seal()
LEMMA SealInv ==
    ASSUME Prompt, IInv, NEW t \in Threads, NEW b \in Nat, NEW f \in FrameType, Popped(t, b, f), Runs(t),
           f.op = "make", NEW x \in Bodies, x = f.on,
           \A new \in Seq(FrameType) : Replace(t, new) => Moves(t, b, new),
           \/ /\ body' = [body EXCEPT ![x] = Referenced(body[x], x)]
              /\ Replace(t, TriggerUnlock(body[x], x, FALSE))
           \/ /\ body' = [body EXCEPT ![x] = Unlocked(body[x])]
              /\ Replace(t, << >>),
           held' = held, queue' = queue, at' = at, coh' = coh
    PROVE  IInv'
<1>1. ~body[x].triggered
  BY DEF Popped, FrameOK, NomemOK
<1>2. CASE /\ body' = [body EXCEPT ![x] = Referenced(body[x], x)]
           /\ Replace(t, TriggerUnlock(body[x], x, FALSE))
  BY <1>1, <1>2, GoOnInv
<1>3. CASE body' = [body EXCEPT ![x] = Unlocked(body[x])] /\ Replace(t, << >>)
  <2>1. Moves(t, b, << >>)
    BY <1>3, NoCalls
  <2> QED
    BY <1>3, <2>1, ReturnInv
<1> QED
  BY <1>2, <1>3

\* driver_trigger triggers the event itself.
LEMMA DriveTriggerInv ==
    ASSUME Prompt, IInv, NEW t \in Threads, NEW b \in Nat, NEW f \in FrameType, Popped(t, b, f), Runs(t),
           f.op = "drive", NEW x \in Bodies, x = f.on, ~body[x].triggered, ~body[x].lock,
           body' = [body EXCEPT ![x] = Referenced(Locked(body[x]), x)],
           Replace(t, <<Call("claimed", x)>> \o TriggerUnlock(body[x], x, TRUE)),
           \A new \in Seq(FrameType) : Replace(t, new) => Moves(t, b, new),
           held' = held, queue' = queue, at' = at, coh' = coh
    PROVE  IInv'
<1>1. /\ ~PopsOwner(t, b, x) /\ PopWeight(t, b, x) = 1
      /\ body[x] \in BodyType /\ BodyOK(x, body[x]) /\ body[x].ref \in Nat
      /\ body[x].members \in [Bodies -> Nat] /\ body[x].life = "live"
      /\ x \in Quorums <=> x \notin Events
  <2>1. OnBody(t, b, f, x)
    BY CallOn
  <2> QED
    BY <2>1 DEF OnBody, Owners, Counts
<1>2. x \in Events /\ x \notin Quorums /\ b = 0
  <2>1. x \notin Quorums
    BY DEF Popped, FrameOK, OnceOK
  <2>2. b + 1 = 1
    BY DEF Popped, FrameOK, ShapeOK, Outermost
  <2> QED
    BY <1>1, <2>1, <2>2
<1>3. body[x].members = Nobody
  BY <1>1, <1>2 DEF BodyOK
<1>4. PICK r : r = Locked(body[x]) /\ r \in BodyType /\ BodyOK(x, r)
               /\ r.life = "live" /\ r.lock /\ (r.triggered <=> body[x].triggered) /\ r.ref = body[x].ref
               /\ (r.nomem <=> body[x].nomem) /\ r.quorums = body[x].quorums
               /\ r.coroutines = body[x].coroutines /\ r.members = body[x].members
  BY <1>1, LockedFacts, BodyOKFacts
<1>5. PICK c : c = Referenced(r, x) /\ body' = [body EXCEPT ![x] = c]
  BY <1>4
<1>6. /\ c \in BodyType /\ BodyOK(x, c)
      /\ c.life = "live" /\ c.lock /\ ~c.triggered /\ c.ref = body[x].ref
      /\ (c.nomem <=> body[x].nomem) /\ c.quorums = body[x].quorums
      /\ c.coroutines = body[x].coroutines /\ c.members = body[x].members
  <2>1. /\ c \in BodyType /\ BodyOK(x, c)
        /\ c.life = "live" /\ c.lock /\ ~c.triggered
        /\ c.ref = body[x].ref + (IF x \in Quorums THEN 1 ELSE 0)
        /\ (c.nomem <=> body[x].nomem) /\ c.quorums = body[x].quorums
        /\ c.coroutines = body[x].coroutines /\ c.members = body[x].members
    BY <1>4, <1>5, ReferencedFacts, BodyOKFacts
  <2> QED
    BY <1>1, <1>2, <2>1
<1>7. PICK p \in FrameType : p = Call("claimed", x) /\ p.op = "claimed" /\ p.on = x /\ p.left = Nobody /\ ~p.drv
  <2>1. "claimed" \in Ops
    BY DEF Ops
  <2> QED
    BY <2>1, CallFacts
<1>8. PICK g \in FrameType : g = Frame("publish", x, None, Nobody, TRUE) /\ g.op = "publish" /\ g.on = x
  <2>1. PICK m \in [Bodies -> Nat] : m = Nobody
    BY NobodyFacts
  <2>2. PICK g : g = Frame("publish", x, None, m, TRUE)
    OBVIOUS
  <2>3. g \in FrameType /\ g.op = "publish" /\ g.on = x
    BY <2>2 DEF Frame, FrameType, Ops
  <2> QED
    BY <2>1, <2>2, <2>3
<1>9. PICK new : new = <<p>> \o <<g>>
  OBVIOUS
<1>10. new \in Seq(FrameType) /\ Len(new) = 2 /\ new[1] = p /\ new[2] = g
  BY <1>9, TwoCalls
<1>11. Moves(t, b, new)
  <2>1. TriggerUnlock(body[x], x, TRUE) = <<g>>
    BY <1>2, <1>8 DEF TriggerUnlock
  <2>2. Replace(t, new)
    BY <1>7, <1>9, <2>1
  <2> QED
    BY <1>10, <2>2
<1>12. body' \in [Bodies -> BodyType] /\ body'[x] = c /\ \A y \in Bodies : y # x => body'[y] = body[y]
  BY <1>5, <1>6, SMTT(60) DEF IInv, TypeOK
<1>13. TypeOK'
  BY <1>11, <1>12 DEF IInv, TypeOK, Moves, Onto
<1>14. Len(stack'[t]) = 2 /\ stack'[t][1] = p /\ stack'[t][2] = g
  BY <1>2, <1>10, <1>11 DEF Moves, Onto
<1>15. FrameOK(t, 1)'
  <2>1. ShapeOK(t, 1)' /\ HandleOK(t, 1)'
    BY <1>7, <1>14 DEF ShapeOK, HandleOK, OnQuorum
  <2>2. OnceOK(stack[t][1])' /\ CullOK(t, 1)' /\ NomemOK(t, 1)'
    BY <1>2, <1>7, <1>14 DEF OnceOK, CullOK, NomemOK
  <2> QED
    BY <2>1, <2>2 DEF FrameOK
<1>16. FrameOK(t, 2)'
  <2>1. PICK k \in Nat : k = 1
    OBVIOUS
  <2>2. k + 1 = 2 /\ k + 2 = 3
    BY <2>1
  <2>3. Secured(t, x)' /\ stack'[t][1].op = "claimed"
    BY <1>7, <1>14 DEF Secured, Is
  <2>4. stack'[t][k + 1] = g /\ Len(stack'[t]) = k + 1 /\ Len(stack'[t]) # k + 2
    BY <1>14, <2>2
  <2>7. stack'[t][k + 1] = Frame("publish", x, None, Nobody, TRUE)
    BY <1>8, <2>4
  <2>5. body'[x].members = Nobody /\ ~body'[x].triggered
    BY <1>3, <1>6, <1>12
  <2>6. FrameOK(t, k + 1)'
    BY <1>13, <2>3, <2>4, <2>5, <2>7, PublishOK
  <2> QED
    BY <2>2, <2>6
<1>17. /\ NewOwner(new, x) /\ Weight(new, 1, x) = 1 /\ Weight(new, 2, x) = 0 /\ Weight(new, 3, x) = 0
  <2>0. 1 \in 1..Len(new) /\ 2 \in 1..Len(new) /\ 3 \notin 1..Len(new)
    BY <1>10
  <2>1. NewOwner(new, x)
    BY <1>8, <1>10, <2>0 DEF NewOwner, Owners
  <2>2. Counts(new[1]) /\ new[1].on = x /\ ~Counts(new[2])
    BY <1>2, <1>7, <1>8, <1>10 DEF Counts
  <2> QED
    BY <2>0, <2>1, <2>2 DEF Weight
<1>18. BodyStep(t, b, new, x)
  <2>1. \A y \in Bodies : body'[x].members[y] <= body[x].members[y]
    BY <1>1, <1>6, <1>12
  <2> QED
    BY <1>1, <1>2, <1>6, <1>12, <1>17, <2>1 DEF BodyStep
<1>19. body'[x].ref = body[x].ref - PopWeight(t, b, x)
                    + Weight(new, 1, x) + Weight(new, 2, x) + Weight(new, 3, x)
  BY <1>1, <1>6, <1>12, <1>17
<1>20. \A j \in 1..Len(new) : /\ new[j].op \notin {"inform", "member"} /\ new[j].on = x
                              /\ FrameOK(t, b + j)' /\ (new[j].op \in Owners => j = 2)
  <2>1. ASSUME NEW j \in 1..Len(new)
        PROVE  /\ new[j].op \notin {"inform", "member"} /\ new[j].on = x
               /\ FrameOK(t, b + j)' /\ (new[j].op \in Owners => j = 2)
    <3>1. j \in {1, 2} /\ b + j = j
      BY <1>2, <1>10
    <3> QED
      BY <1>7, <1>8, <1>10, <1>15, <1>16, <3>1 DEF Owners
  <2> QED
    BY <2>1
<1>21. OneBodyStep(t, b, f, new, x)
  BY <1>6, <1>10, <1>11, <1>12, <1>18, <1>19, <1>20 DEF OneBodyStep
<1> QED
  BY <1>21, OneBody

-----------------------------------------------------------------------------
(* What the program and the driver do between calls. *)

\* The step changes body y as a thread that is in no call may.
IdleBody(t, new, y) ==
    /\ BodyOK(y, body'[y])
    /\ body'[y].members = body[y].members /\ body'[y].quorums = body[y].quorums
    /\ body'[y].triggered <=> body[y].triggered
    /\ body'[y].lock <=> body[y].lock \/ NewOwner(new, y)
    /\ NewOwner(new, y) => ~body[y].lock
    /\ body[y].ref = 0 /\ body'[y].ref # 0 => ~body[y].lock
    /\ \/ body'[y].nomem <=> body[y].nomem
       \/ (body'[y].nomem <=> body'[y].members = Nobody) /\ ~body[y].lock
    /\ y \in Quorums =>
          /\ body'[y].ref # body[y].ref => held[t][y] > 0 \/ body[y].ref = 0
          /\ Live(y)' /\ body'[y].ref = 0 =>
                Live(y) /\ body[y].ref = 0 /\ (body'[y].lock <=> body[y].lock)

IdleRefs(new, y) ==
    /\ IsFiniteSet(HeldRefs(y)') /\ IsFiniteSet(QueueRefs(y)') /\ IsFiniteSet(AtRefs(y)')
    /\ HeldCount(y)' \in Nat /\ QueueCount(y)' \in Nat /\ AtCount(y)' \in Nat
    /\ body'[y].ref = HeldCount(y)' + QueueCount(y)' + AtCount(y)' + MemCount(y) + CallCount(y)
                      + Weight(new, 1, y)

IdleStep(t, new) ==
    /\ Idle(t) /\ Runs(t) /\ Moves(t, 0, new) /\ Len(new) \in {0, 1}
    /\ Len(new) = 1 => new[1].op \notin {"inform", "member"} /\ FrameOK(t, 1)'
    /\ TypeOK' /\ HeldStep(t, 0) /\ QueueStep /\ CoroutineInv'
    /\ \A y \in Bodies : IdleBody(t, new, y) /\ IdleRefs(new, y)

LEMMA IdleInv ==
    ASSUME Prompt, IInv, NEW t \in Threads, NEW new, IdleStep(t, new)
    PROVE  IInv'
<1>0. PICK b \in Nat : b = 0
  OBVIOUS
<1>1. /\ Idle(t) /\ Runs(t) /\ Moves(t, b, new) /\ Len(new) \in {0, 1} /\ Len(new) <= 3
      /\ Len(new) = 1 => new[1].op \notin {"inform", "member"} /\ FrameOK(t, 1)'
      /\ TypeOK' /\ HeldStep(t, b) /\ QueueStep /\ CoroutineInv'
  <2>1. Idle(t) /\ Runs(t) /\ Moves(t, 0, new) /\ HeldStep(t, 0) /\ QueueStep /\ CoroutineInv'
        /\ TypeOK' /\ (Len(new) = 1 => new[1].op \notin {"inform", "member"} /\ FrameOK(t, 1)')
        /\ Len(new) \in {0, 1}
    BY DEF IdleStep
  <2>2. Moves(t, b, new) /\ HeldStep(t, b)
    BY <1>0, <2>1
  <2>3. Len(new) <= 3
    <3>1. CASE Len(new) = 0
      BY <3>1
    <3>2. CASE Len(new) = 1
      BY <3>2
    <3> QED
      BY <2>1, <3>1, <3>2
  <2> QED
    BY <2>1, <2>2, <2>3
<1>2. /\ Len(stack[t]) = 0
      /\ \A op, y : ~Pops(t, b, op, y) /\ ~PopsOwner(t, b, y) /\ ~PopsCounted(t, b, y)
      /\ \A y : PopWeight(t, b, y) = 0 /\ ~Private(t, y)
  BY <1>0, <1>1, IdleFacts
<1>3. \A j \in 1..Len(new) : j = 1 /\ Len(new) = 1 /\ b + j = 1
  <2>1. CASE Len(new) = 0
    BY <2>1
  <2>2. CASE Len(new) = 1
    BY <1>0, <2>2
  <2> QED
    BY <1>1, <2>1, <2>2
<1>4. ASSUME NEW y \in Bodies
      PROVE  /\ BodyOK(y, body'[y]) /\ BodyStep(t, b, new, y)
             /\ body'[y].members = body[y].members /\ body'[y].quorums = body[y].quorums
  <2>1. IdleBody(t, new, y)
    BY DEF IdleStep
  <2>2. \A x \in Bodies : body'[y].members[x] <= body[y].members[x]
    BY <2>1, LiveFacts DEF IdleBody
  <2>3. RefStep(t, b, y) \/ y \notin Quorums
    BY <1>0, <2>1 DEF RefStep, IdleBody
  <2>4. PrivateStep(t, b, y)
    BY <1>2 DEF PrivateStep
  <2>5. DeleteStep(new, y) \/ y \notin Quorums
    BY <2>1 DEF DeleteStep, IdleBody
  <2> QED
    BY <1>2, <2>1, <2>2, <2>3, <2>4, <2>5 DEF BodyStep, IdleBody
<1>5. RefInv'
  <2>1. ASSUME NEW x \in Bodies
        PROVE  /\ IsFiniteSet(HeldRefs(x)') /\ IsFiniteSet(QueueRefs(x)')
               /\ IsFiniteSet(AtRefs(x)') /\ IsFiniteSet(MemRefs(x)')
               /\ body'[x].ref = HeldCount(x)' + QueueCount(x)' + AtCount(x)' + MemCount(x)'
                    + (CallCount(x) - PopWeight(t, b, x)
                       + Weight(new, 1, x) + Weight(new, 2, x) + Weight(new, 3, x))
    <3>1. IdleRefs(new, x)
      BY DEF IdleStep
    <3>2. MemRefs(x)' = MemRefs(x) /\ MemCount(x)' = MemCount(x)
      BY <1>4, MemSame
    <3>3. Weight(new, 2, x) = 0 /\ Weight(new, 3, x) = 0 /\ Weight(new, 1, x) \in {0, 1}
      BY <1>3 DEF Weight
    <3>4. CallCount(x) \in Nat /\ MemCount(x) \in Nat /\ IsFiniteSet(MemRefs(x))
      BY FiniteRefs
    <3>5. PICK h \in Nat, q \in Nat, a \in Nat :
             h = HeldCount(x)' /\ q = QueueCount(x)' /\ a = AtCount(x)'
      BY <3>1 DEF IdleRefs
    <3>6. body'[x].ref = h + q + a + MemCount(x) + CallCount(x) + Weight(new, 1, x)
      BY <3>1, <3>5 DEF IdleRefs
    <3>7. body'[x].ref = h + q + a + MemCount(x) + (CallCount(x) - 0 + Weight(new, 1, x) + 0 + 0)
      BY <3>3, <3>4, <3>6
    <3> QED
      BY <1>2, <3>1, <3>2, <3>3, <3>4, <3>5, <3>7 DEF IdleRefs
  <2> QED
    BY <1>1, <2>1, RefAfter
<1>6. CullEnds(t, b, new)
  BY <1>2 DEF CullEnds
<1>7. NewFrames(t, b, new)
  BY <1>1, <1>3 DEF NewFrames
<1>8. \A j \in 1..Len(new) : FrameOK(t, b + j)'
  BY <1>1, <1>3
<1>9. \A x \in Bodies : LinkSame(t, b, new, x)
  BY <1>0, <1>1, <1>2, <1>3, <1>4, LinkQuiet
<1> QED
  BY <1>1, <1>4, <1>5, <1>6, <1>7, <1>8, <1>9, StepInv

LEMMA IdleSame ==
    ASSUME IInv, NEW t \in Threads, NEW new, NEW y \in Bodies, body'[y] = body[y], ~NewOwner(new, y)
    PROVE  IdleBody(t, new, y)
BY LiveFacts DEF IdleBody, Live

\* A call begins.
LEMMA IdleBegin ==
    ASSUME IInv, NEW t \in Threads, Ready(t), NEW g \in FrameType, Begin(t, g), NEW new, new = <<g>>
    PROVE  /\ Idle(t) /\ Runs(t) /\ Moves(t, 0, new) /\ Len(new) \in {0, 1} /\ new[1] = g
           /\ Len(stack'[t]) = 1 /\ stack'[t][1] = g /\ stack' \in [Threads -> Seq(FrameType)]
           /\ \A y : /\ NewOwner(new, y) <=> g.op \in Owners /\ g.on = y
                     /\ Weight(new, 1, y) = IF Counts(g) /\ g.on = y THEN 1 ELSE 0
<1>1. Idle(t) /\ Runs(t) /\ TypeOK
  BY DEF Ready, IInv
<1>2. Len(stack[t]) = 0 /\ Onto(t, 0, new)
  BY <1>1, BeginFacts
<1>3. /\ new \in Seq(FrameType) /\ Len(new) = 1 /\ new[1] = g /\ 1 \in 1..Len(new)
      /\ \A y : /\ NewOwner(new, y) <=> g.op \in Owners /\ g.on = y
                /\ Weight(new, 1, y) = IF Counts(g) /\ g.on = y THEN 1 ELSE 0
  BY OneCall
<1>4. Moves(t, 0, new)
  BY <1>2, <1>3 DEF Moves
<1>5. Len(stack'[t]) = 0 + Len(new) /\ stack'[t][0 + 1] = new[1] /\ stack' \in [Threads -> Seq(FrameType)]
  BY <1>2, <1>3 DEF Onto
<1> QED
  BY <1>1, <1>3, <1>4, <1>5

\* No call begins.
LEMMA IdleStays ==
    ASSUME IInv, NEW t \in Threads, Ready(t), stack' = stack
    PROVE  /\ Idle(t) /\ Runs(t) /\ Moves(t, 0, << >>) /\ Len(<< >>) \in {0, 1} /\ Len(<< >>) # 1
           /\ stack' \in [Threads -> Seq(FrameType)]
<1>1. Idle(t) /\ Runs(t) /\ stack \in [Threads -> Seq(FrameType)] /\ Len(stack[t]) = 0
  BY IdleFacts DEF Ready, IInv, TypeOK
<1>2. << >> \in Seq(FrameType) /\ Len(<< >>) = 0
  OBVIOUS
<1> QED
  BY <1>1, <1>2 DEF Moves, Onto

LEMMA QueueSame ==
    ASSUME IInv, queue' = queue
    PROVE  QueueStep /\ queue' \in [Threads -> Seq(Bodies)]
<1>1. \A u \in Threads : \A i \in 1..Len(queue[u]) : queue[u][i] \in Bodies
  BY ElementOfSeq DEF IInv, TypeOK
<1> QED
  BY <1>1 DEF QueueStep, IInv, TypeOK

\* Suspended coroutines, when no coroutine is suspended.
LEMMA IdleCoroutines ==
    ASSUME IInv, NEW t \in Threads, Idle(t), NEW new, Moves(t, 0, new), at' = at, coh' = coh,
           \A x \in Bodies : body'[x].coroutines \subseteq body[x].coroutines
    PROVE  CoroutineInv'
<1>1. Len(stack[t]) # 1
  BY IdleFacts
<1> QED
  BY <1>1, CoroutineStep

\* References of other kinds than the one that changes.
LEMMA IdleKeeps ==
    ASSUME IInv, NEW y \in Bodies
    PROVE  /\ held' = held => /\ IsFiniteSet(HeldRefs(y)') /\ HeldCount(y)' \in Nat
                              /\ HeldCount(y)' = HeldCount(y)
           /\ queue' = queue => /\ IsFiniteSet(QueueRefs(y)') /\ QueueCount(y)' \in Nat
                                /\ QueueCount(y)' = QueueCount(y)
           /\ at' = at => /\ IsFiniteSet(AtRefs(y)') /\ AtCount(y)' \in Nat
                          /\ AtCount(y)' = AtCount(y)
<1>1. /\ held' = held => HeldRefs(y)' = HeldRefs(y) /\ HeldCount(y)' = HeldCount(y)
      /\ queue' = queue => QueueRefs(y)' = QueueRefs(y) /\ QueueCount(y)' = QueueCount(y)
      /\ at' = at => AtRefs(y)' = AtRefs(y) /\ AtCount(y)' = AtCount(y)
  BY SameRefs
<1>2. /\ IsFiniteSet(HeldRefs(y)) /\ IsFiniteSet(QueueRefs(y)) /\ IsFiniteSet(AtRefs(y))
      /\ HeldCount(y) \in Nat /\ QueueCount(y) \in Nat /\ AtCount(y) \in Nat
  BY FiniteRefs
<1> QED
  BY <1>1, <1>2

LEMMA HeldIncFacts ==
    ASSUME IInv, NEW t \in Threads, NEW x \in Bodies, held' = [held EXCEPT ![t] = Inc(held[t], x)]
    PROVE  /\ held' \in [Threads -> [Bodies -> Nat]]
           /\ \A u \in Threads : \A y \in Bodies : held'[u][y] >= held[u][y]
           /\ held'[t][x] > 0
<1>1. held \in [Threads -> [Bodies -> Nat]]
  BY DEF IInv, TypeOK
<1>2. /\ Inc(held[t], x) \in [Bodies -> Nat]
      /\ \A y \in Bodies : Inc(held[t], x)[y] = IF y # x THEN held[t][y] ELSE held[t][x] + 1
  BY <1>1, BagFacts
<1> QED
  BY <1>1, <1>2

LEMMA HeldDecFacts ==
    ASSUME IInv, NEW t \in Threads, NEW x \in Bodies, held' = [held EXCEPT ![t] = Dec(held[t], x)]
    PROVE  held' \in [Threads -> [Bodies -> Nat]] /\ HeldStep(t, 0)
<1>1. held \in [Threads -> [Bodies -> Nat]]
  BY DEF IInv, TypeOK
<1>2. Dec(held[t], x) \in [Bodies -> Nat]
  BY <1>1, BagFacts
<1> QED
  BY <1>1, <1>2 DEF HeldStep

LEMMA HeldSame ==
    ASSUME IInv, held' = held, NEW t \in Threads
    PROVE  held' \in [Threads -> [Bodies -> Nat]] /\ HeldStep(t, 0)
<1>1. held \in [Threads -> [Bodies -> Nat]]
  BY DEF IInv, TypeOK
<1> QED
  BY <1>1 DEF HeldStep

LEMMA CallTriggerInv ==
    ASSUME Prompt, IInv, NEW t \in Threads, NEW e \in Events, CallTrigger(t, e)
    PROVE  IInv'
<1>1. Ready(t) /\ held[t][e] > 0 /\ e \in Bodies /\ e \notin Quorums
      /\ body' = body /\ held' = held /\ queue' = queue /\ at' = at /\ coh' = coh
  BY QuorumAssumption DEF CallTrigger, Holds, Bodies
<1>2. PICK g \in FrameType : g = Call("trigger", e) /\ g.op = "trigger" /\ g.on = e /\ g.left = Nobody /\ ~g.drv
  <2>1. "trigger" \in Ops
    BY DEF Ops
  <2> QED
    BY <1>1, <2>1, CallFacts
<1>3. PICK new : new = <<g>>
  OBVIOUS
<1>4. Begin(t, g)
  BY <1>2 DEF CallTrigger
<1>5. /\ Idle(t) /\ Runs(t) /\ Moves(t, 0, new) /\ Len(new) \in {0, 1} /\ new[1] = g
      /\ Len(stack'[t]) = 1 /\ stack'[t][1] = g /\ stack' \in [Threads -> Seq(FrameType)]
      /\ \A y : /\ NewOwner(new, y) <=> g.op \in Owners /\ g.on = y
                /\ Weight(new, 1, y) = IF Counts(g) /\ g.on = y THEN 1 ELSE 0
  BY <1>1, <1>3, <1>4, IdleBegin
<1>6. FrameOK(t, 1)'
  <2>1. ShapeOK(t, 1)' /\ HandleOK(t, 1)'
    BY <1>1, <1>2, <1>5 DEF ShapeOK, HandleOK, OnQuorum, Secured
  <2>2. OnceOK(stack[t][1])' /\ CullOK(t, 1)' /\ NomemOK(t, 1)'
    BY <1>2, <1>5 DEF OnceOK, CullOK, NomemOK
  <2> QED
    BY <2>1, <2>2 DEF FrameOK
<1>7. TypeOK' /\ HeldStep(t, 0) /\ QueueStep /\ CoroutineInv'
  <2>1. TypeOK'
    BY <1>1, <1>5 DEF IInv, TypeOK
  <2> QED
    BY <1>1, <1>5, <2>1, HeldSame, QueueSame, IdleCoroutines
<1>8. ASSUME NEW y \in Bodies PROVE IdleBody(t, new, y) /\ IdleRefs(new, y)
  <2>1. ~NewOwner(new, y) /\ Weight(new, 1, y) = 0
    BY <1>2, <1>5 DEF Owners, Counts
  <2>2. IdleBody(t, new, y)
    BY <1>1, <2>1, IdleSame
  <2>3. IdleRefs(new, y)
    BY <1>1, <2>1, IdleKeeps, FiniteRefs DEF IdleRefs
  <2> QED
    BY <2>2, <2>3
<1>9. IdleStep(t, new)
  BY <1>2, <1>5, <1>6, <1>7, <1>8 DEF IdleStep
<1> QED
  BY <1>9, IdleInv

LEMMA CallDropInv ==
    ASSUME Prompt, IInv, NEW t \in Threads, NEW x \in Bodies, CallDrop(t, x)
    PROVE  IInv'
<1>1. Ready(t) /\ held[t][x] > 0 /\ held' = [held EXCEPT ![t] = Dec(held[t], x)]
      /\ body' = body /\ queue' = queue /\ at' = at /\ coh' = coh
  BY DEF CallDrop, Holds
<1>2. PICK g \in FrameType : g = Release(x) /\ g.op \in {"drop", "deref"} /\ g.on = x /\ Counts(g)
  BY ReleaseFacts
<1>3. PICK new : new = <<g>>
  OBVIOUS
<1>4. Begin(t, g)
  BY <1>2 DEF CallDrop
<1>5. /\ Idle(t) /\ Runs(t) /\ Moves(t, 0, new) /\ Len(new) \in {0, 1} /\ new[1] = g
      /\ Len(stack'[t]) = 1 /\ stack'[t][1] = g /\ stack' \in [Threads -> Seq(FrameType)]
      /\ \A y : /\ NewOwner(new, y) <=> g.op \in Owners /\ g.on = y
                /\ Weight(new, 1, y) = IF Counts(g) /\ g.on = y THEN 1 ELSE 0
  BY <1>1, <1>3, <1>4, IdleBegin
<1>6. FrameOK(t, 1)'
  BY <1>2, <1>5, ReleaseOK
<1>7. TypeOK' /\ HeldStep(t, 0) /\ QueueStep /\ CoroutineInv'
  <2>1. held' \in [Threads -> [Bodies -> Nat]] /\ HeldStep(t, 0)
    BY <1>1, HeldDecFacts
  <2>2. TypeOK'
    BY <1>1, <1>5, <2>1 DEF IInv, TypeOK
  <2> QED
    BY <1>1, <1>5, <2>1, <2>2, QueueSame, IdleCoroutines
<1>8. ASSUME NEW y \in Bodies PROVE IdleBody(t, new, y) /\ IdleRefs(new, y)
  <2>1. ~NewOwner(new, y) /\ Weight(new, 1, y) = IF x = y THEN 1 ELSE 0
    BY <1>2, <1>5 DEF Owners
  <2>2. IdleBody(t, new, y)
    BY <1>1, <2>1, IdleSame
  <2>3. IsFiniteSet(HeldRefs(y)') /\ HeldCount(y)' = HeldCount(y) - (IF x = y THEN 1 ELSE 0)
        /\ (x = y => HeldCount(y) >= 1)
    <3>1. IsFiniteSet(HeldRefs(y)) /\ TypeOK
      BY FiniteRefs DEF IInv
    <3>2. x = y => HeldCount(y) >= 1
      BY <1>1, Referrers DEF IInv
    <3> QED
      BY <1>1, <3>1, <3>2, HeldDec
  <2>4. /\ HeldCount(y) \in Nat /\ QueueCount(y) \in Nat /\ AtCount(y) \in Nat
        /\ MemCount(y) \in Nat /\ CallCount(y) \in Nat
        /\ body[y].ref = HeldCount(y) + QueueCount(y) + AtCount(y) + MemCount(y) + CallCount(y)
    BY FiniteRefs
  <2>5. /\ IsFiniteSet(QueueRefs(y)') /\ QueueCount(y)' = QueueCount(y)
        /\ IsFiniteSet(AtRefs(y)') /\ AtCount(y)' = AtCount(y)
    BY <1>1, IdleKeeps
  <2>6. PICK h : h = HeldCount(y)'
    OBVIOUS
  <2>7. /\ h \in Nat
        /\ body[y].ref = h + QueueCount(y) + AtCount(y) + MemCount(y) + CallCount(y)
                         + (IF x = y THEN 1 ELSE 0)
    BY <2>3, <2>4, <2>6
  <2>8. IdleRefs(new, y)
    BY <1>1, <2>1, <2>3, <2>4, <2>5, <2>6, <2>7 DEF IdleRefs
  <2> QED
    BY <2>2, <2>8
<1>9. IdleStep(t, new)
  BY <1>2, <1>5, <1>6, <1>7, <1>8 DEF IdleStep
<1> QED
  BY <1>9, IdleInv

LEMMA RunAsapInv ==
    ASSUME Prompt, IInv, NEW t \in Threads, RunAsap(t)
    PROVE  IInv'
<1>1. Ready(t) /\ queue[t] # << >> /\ queue' = [queue EXCEPT ![t] = Tail(queue[t])]
      /\ body' = body /\ held' = held /\ at' = at /\ coh' = coh
  BY DEF RunAsap
<1>2. queue[t] \in Seq(Bodies) /\ queue \in [Threads -> Seq(Bodies)]
  BY DEF IInv, TypeOK
<1>3. PICK x \in Bodies : x = Head(queue[t]) /\ x = queue[t][1] /\ 1 \in 1..Len(queue[t])
  BY <1>1, <1>2
<1>4. PICK g \in FrameType : g = Call("drive", x) /\ g.op = "drive" /\ g.on = x /\ g.left = Nobody /\ ~g.drv
  <2>1. "drive" \in Ops
    BY DEF Ops
  <2> QED
    BY <2>1, CallFacts
<1>5. PICK new : new = <<g>>
  OBVIOUS
<1>6. Begin(t, g)
  BY <1>3, <1>4 DEF RunAsap
<1>7. /\ Idle(t) /\ Runs(t) /\ Moves(t, 0, new) /\ Len(new) \in {0, 1} /\ new[1] = g
      /\ Len(stack'[t]) = 1 /\ stack'[t][1] = g /\ stack' \in [Threads -> Seq(FrameType)]
      /\ \A y : /\ NewOwner(new, y) <=> g.op \in Owners /\ g.on = y
                /\ Weight(new, 1, y) = IF Counts(g) /\ g.on = y THEN 1 ELSE 0
  BY <1>1, <1>5, <1>6, IdleBegin
<1>8. FrameOK(t, 1)'
  <2>1. ShapeOK(t, 1)' /\ HandleOK(t, 1)'
    BY <1>4, <1>7 DEF ShapeOK, HandleOK, OnQuorum
  <2>2. CullOK(t, 1)' /\ NomemOK(t, 1)'
    BY <1>4, <1>7 DEF CullOK, NomemOK
  <2>3. x \in Quorums => body'[x].triggered
    BY <1>1, <1>3 DEF IInv, OnceInv
  <2>4. OnceOK(stack[t][1])'
    BY <1>4, <1>7, <2>3 DEF OnceOK
  <2> QED
    BY <2>1, <2>2, <2>4 DEF FrameOK
<1>9. queue' \in [Threads -> Seq(Bodies)] /\ QueueStep
  <2>1. /\ Tail(queue[t]) \in Seq(Bodies)
        /\ \A i \in 1..Len(Tail(queue[t])) : i + 1 \in 1..Len(queue[t]) /\ Tail(queue[t])[i] = queue[t][i + 1]
    BY <1>1, <1>2
  <2>2. queue' \in [Threads -> Seq(Bodies)]
    BY <1>1, <1>2, <2>1
  <2>3. ASSUME NEW u \in Threads, NEW i \in 1..Len(queue'[u])
        PROVE  \E j \in 1..Len(queue[u]) : queue'[u][i] = queue[u][j] /\ queue'[u][i] \in Bodies
    <3>1. queue'[u][i] \in Bodies
      BY <2>2, ElementOfSeq
    <3>2. CASE u = t
      BY <1>1, <1>2, <2>1, <3>1, <3>2
    <3>3. CASE u # t
      BY <1>1, <1>2, <3>1, <3>3
    <3> QED
      BY <3>2, <3>3
  <2> QED
    BY <2>2, <2>3 DEF QueueStep
<1>10. TypeOK' /\ HeldStep(t, 0) /\ CoroutineInv'
  <2>1. TypeOK'
    BY <1>1, <1>7, <1>9 DEF IInv, TypeOK
  <2> QED
    BY <1>1, <1>7, <2>1, HeldSame, IdleCoroutines
<1>11. ASSUME NEW y \in Bodies PROVE IdleBody(t, new, y) /\ IdleRefs(new, y)
  <2>1. ~NewOwner(new, y) /\ Weight(new, 1, y) = IF x = y THEN 1 ELSE 0
    BY <1>4, <1>7 DEF Owners, Counts
  <2>2. IdleBody(t, new, y)
    BY <1>1, <2>1, IdleSame
  <2>3. IsFiniteSet(QueueRefs(y)') /\ QueueCount(y)' = QueueCount(y) - (IF x = y THEN 1 ELSE 0)
        /\ (x = y => QueueCount(y) >= 1)
    <3>1. IsFiniteSet(QueueRefs(y)) /\ TypeOK
      BY FiniteRefs DEF IInv
    <3>2. x = y => QueueCount(y) >= 1
      BY <1>3, Referrers DEF IInv
    <3> QED
      BY <1>1, <1>3, <3>1, <3>2, QueueTail
  <2>4. /\ HeldCount(y) \in Nat /\ QueueCount(y) \in Nat /\ AtCount(y) \in Nat
        /\ MemCount(y) \in Nat /\ CallCount(y) \in Nat
        /\ body[y].ref = HeldCount(y) + QueueCount(y) + AtCount(y) + MemCount(y) + CallCount(y)
    BY FiniteRefs
  <2>5. /\ IsFiniteSet(HeldRefs(y)') /\ HeldCount(y)' = HeldCount(y)
        /\ IsFiniteSet(AtRefs(y)') /\ AtCount(y)' = AtCount(y)
    BY <1>1, IdleKeeps
  <2>6. PICK h : h = QueueCount(y)'
    OBVIOUS
  <2>7. /\ h \in Nat
        /\ body[y].ref = HeldCount(y) + h + AtCount(y) + MemCount(y) + CallCount(y)
                         + (IF x = y THEN 1 ELSE 0)
    BY <2>3, <2>4, <2>6
  <2>8. IdleRefs(new, y)
    BY <1>1, <2>1, <2>3, <2>4, <2>5, <2>6, <2>7 DEF IdleRefs
  <2> QED
    BY <2>2, <2>8
<1>12. IdleStep(t, new)
  BY <1>4, <1>7, <1>8, <1>9, <1>10, <1>11 DEF IdleStep
<1> QED
  BY <1>12, IdleInv

LEMMA CallMakeInv ==
    ASSUME Prompt, IInv, NEW t \in Threads, NEW q \in Quorums, CallMake(t, q)
    PROVE  IInv'
<1>1. /\ Ready(t) /\ body[q].life = "new" /\ q \in Bodies /\ q \notin Events
      /\ \A x \in Bodies : Members[q][x] > 0 => held[t][x] > 0
      /\ held' = [held EXCEPT ![t] = Inc(held[t], q)]
      /\ queue' = queue /\ at' = at /\ coh' = coh
  BY QuorumAssumption DEF CallMake, Bodies
<1>2. PICK c : /\ c = [body[q] EXCEPT !.life = "live", !.lock = TRUE, !.ref = 1]
               /\ body' = [body EXCEPT ![q] = c]
  BY DEF CallMake
<1>3. /\ body[q] \in BodyType /\ body[q].ref = 0 /\ ~body[q].lock /\ body[q].members = Nobody
      /\ body[q].quorums = Nobody /\ body[q].coroutines = {} /\ ~body[q].triggered /\ body[q].nomem
      /\ BodyOK(q, body[q])
  <2>1. body[q] \in BodyType /\ BodyOK(q, body[q])
    BY <1>1, LiveFacts
  <2> QED
    BY <1>1, <2>1 DEF BodyOK
<1>4. /\ c \in BodyType /\ c.life = "live" /\ c.lock /\ c.ref = 1 /\ c.members = Nobody
      /\ c.quorums = Nobody /\ c.coroutines = {} /\ ~c.triggered /\ c.nomem
  BY <1>2, <1>3 DEF BodyType
<1>5. BodyOK(q, c)
  BY <1>1, <1>4, NobodyFacts DEF BodyOK
<1>6. body' \in [Bodies -> BodyType] /\ body'[q] = c /\ \A y \in Bodies : y # q => body'[y] = body[y]
  BY <1>1, <1>2, <1>4 DEF IInv, TypeOK
<1>7. PICK m \in [Bodies -> Nat] : m = Members[q]
  BY QuorumAssumption
<1>8. PICK g \in FrameType : /\ g = Frame("make", q, None, m, FALSE) /\ g.op = "make" /\ g.on = q
                             /\ g.left = m /\ ~g.drv
  <2>1. PICK g : g = Frame("make", q, None, m, FALSE)
    OBVIOUS
  <2>2. g \in FrameType /\ g.op = "make" /\ g.on = q /\ g.left = m /\ ~g.drv
    BY <1>1, <2>1 DEF Frame, FrameType, Ops
  <2> QED
    BY <2>1, <2>2
<1>9. PICK new : new = <<g>>
  OBVIOUS
<1>10. Begin(t, g)
  BY <1>7, <1>8 DEF CallMake
<1>11. /\ Idle(t) /\ Runs(t) /\ Moves(t, 0, new) /\ Len(new) \in {0, 1} /\ new[1] = g
       /\ Len(stack'[t]) = 1 /\ stack'[t][1] = g /\ stack' \in [Threads -> Seq(FrameType)]
       /\ \A y : /\ NewOwner(new, y) <=> g.op \in Owners /\ g.on = y
                 /\ Weight(new, 1, y) = IF Counts(g) /\ g.on = y THEN 1 ELSE 0
  BY <1>1, <1>9, <1>10, IdleBegin
<1>12. /\ held' \in [Threads -> [Bodies -> Nat]]
       /\ \A u \in Threads : \A y \in Bodies : held'[u][y] >= held[u][y]
       /\ held'[t][q] > 0
  BY <1>1, HeldIncFacts
<1>13. FrameOK(t, 1)'
  <2>1. ASSUME NEW x \in Bodies, m[x] > 0 PROVE held'[t][x] > 0 /\ x # q
    <3>1. held[t][x] > 0 /\ held[t][x] \in Nat
      BY <1>1, <1>7, <2>1 DEF IInv, TypeOK
    <3>2. held'[t][x] >= held[t][x] /\ held'[t][x] \in Nat
      BY <1>12
    <3>3. HeldCount(x) >= 1
      BY <3>1, Referrers DEF IInv
    <3>4. body[x].ref # 0
      BY <3>3, FiniteRefs
    <3> QED
      BY <1>3, <3>1, <3>2, <3>4
  <2>2. ShapeOK(t, 1)'
    BY <1>8, <1>11 DEF ShapeOK, OnQuorum
  <2>3. HandleOK(t, 1)'
    BY <1>8, <1>11, <2>1 DEF HandleOK
  <2>4. OnceOK(stack[t][1])' /\ CullOK(t, 1)'
    BY <1>8, <1>11 DEF OnceOK, CullOK
  <2>5. Private(t, q)'
    <3>1. stack'[t] # << >>
      BY <1>11
    <3> QED
      BY <1>4, <1>6, <1>8, <1>11, <1>12, <3>1 DEF Private, Is
  <2>6. NomemOK(t, 1)'
    BY <1>4, <1>6, <1>8, <1>11, <2>5 DEF NomemOK
  <2> QED
    BY <2>2, <2>3, <2>4, <2>6 DEF FrameOK
<1>14. TypeOK' /\ HeldStep(t, 0) /\ QueueStep /\ CoroutineInv'
  <2>1. TypeOK'
    BY <1>1, <1>6, <1>11, <1>12 DEF IInv, TypeOK
  <2>2. \A x \in Bodies : body'[x].coroutines \subseteq body[x].coroutines
    BY <1>4, <1>6
  <2>3. HeldStep(t, 0)
    BY <1>12 DEF HeldStep
  <2> QED
    BY <1>1, <1>11, <2>1, <2>2, <2>3, QueueSame, IdleCoroutines
<1>15. ASSUME NEW y \in Bodies PROVE IdleBody(t, new, y) /\ IdleRefs(new, y)
  <2>1. (NewOwner(new, y) <=> y = q) /\ Weight(new, 1, y) = 0
    BY <1>8, <1>11 DEF Owners, Counts
  <2>2. IdleBody(t, new, y)
    <3>1. CASE y = q
      BY <1>3, <1>4, <1>5, <1>6, <2>1, <3>1 DEF IdleBody
    <3>2. CASE y # q
      BY <1>6, <2>1, <3>2, IdleSame
    <3> QED
      BY <3>1, <3>2
  <2>3. IsFiniteSet(HeldRefs(y)') /\ HeldCount(y)' = HeldCount(y) + (IF q = y THEN 1 ELSE 0)
    <3>1. IsFiniteSet(HeldRefs(y)) /\ TypeOK
      BY FiniteRefs DEF IInv
    <3> QED
      BY <1>1, <3>1, HeldInc
  <2>4. /\ HeldCount(y) \in Nat /\ QueueCount(y) \in Nat /\ AtCount(y) \in Nat
        /\ MemCount(y) \in Nat /\ CallCount(y) \in Nat
        /\ body[y].ref = HeldCount(y) + QueueCount(y) + AtCount(y) + MemCount(y) + CallCount(y)
    BY FiniteRefs
  <2>5. /\ IsFiniteSet(QueueRefs(y)') /\ QueueCount(y)' = QueueCount(y)
        /\ IsFiniteSet(AtRefs(y)') /\ AtCount(y)' = AtCount(y)
    BY <1>1, IdleKeeps
  <2>6. PICK h : h = HeldCount(y)'
    OBVIOUS
  <2>7. h \in Nat /\ h = HeldCount(y) + (IF q = y THEN 1 ELSE 0)
    BY <2>3, <2>4, <2>6
  <2>8. body'[y].ref = body[y].ref + (IF q = y THEN 1 ELSE 0)
    <3>1. body[y].ref \in Nat
      BY LiveFacts
    <3> QED
      BY <1>3, <1>4, <1>6, <3>1
  <2>9. body'[y].ref = h + QueueCount(y) + AtCount(y) + MemCount(y) + CallCount(y) + 0
    BY <2>4, <2>7, <2>8
  <2>10. IdleRefs(new, y)
    BY <2>1, <2>3, <2>4, <2>5, <2>6, <2>7, <2>9 DEF IdleRefs
  <2> QED
    BY <2>2, <2>10
<1>16. IdleStep(t, new)
  BY <1>8, <1>11, <1>13, <1>14, <1>15 DEF IdleStep
<1> QED
  BY <1>16, IdleInv

LEMMA CopyInv ==
    ASSUME Prompt, IInv, NEW t \in Threads, NEW q \in Bodies, NEW u \in Threads, Copy(t, q, u)
    PROVE  IInv'
<1>1. /\ Ready(t) /\ held[t][q] > 0 /\ q \in Bodies /\ stack' = stack
      /\ held' = [held EXCEPT ![u] = Inc(held[u], q)]
      /\ queue' = queue /\ at' = at /\ coh' = coh
  BY DEF Copy, Holds
<1>2. PICK c : c = Refs(body[q], 1) /\ body' = [body EXCEPT ![q] = c]
  BY DEF Copy
<1>3. body[q] \in BodyType /\ body[q].ref \in Nat /\ body[q].ref > 0 /\ BodyOK(q, body[q]) /\ body[q].life = "live"
  <2>1. HeldCount(q) >= 1
    BY <1>1, Referrers DEF IInv
  <2>2. body[q].ref > 0
    BY <1>1, <2>1, FiniteRefs
  <2> QED
    BY <1>1, <2>2, LiveFacts
<1>4. /\ c \in BodyType /\ BodyOK(q, c) /\ c.life = "live" /\ (c.lock <=> body[q].lock)
      /\ (c.triggered <=> body[q].triggered) /\ c.ref = body[q].ref + 1 /\ (c.nomem <=> body[q].nomem)
      /\ c.quorums = body[q].quorums /\ c.coroutines = body[q].coroutines /\ c.members = body[q].members
  <2>1. c = Refs(body[q], 1) /\ q \in Bodies
    BY <1>1, <1>2
  <2>2. BodyOK(q, c)
    BY <1>3, <2>1, BodyOKFacts
  <2> QED
    BY ONLY <1>3, <2>1, <2>2, 1 \in Nat, RefsFacts
<1>6. body' \in [Bodies -> BodyType] /\ body'[q] = c /\ \A y \in Bodies : y # q => body'[y] = body[y]
  BY <1>1, <1>2, <1>4 DEF IInv, TypeOK
<1>11. /\ Idle(t) /\ Runs(t) /\ Moves(t, 0, << >>) /\ Len(<< >>) \in {0, 1} /\ Len(<< >>) # 1
       /\ stack' \in [Threads -> Seq(FrameType)]
  BY <1>1, IdleStays
<1>12. /\ held' \in [Threads -> [Bodies -> Nat]]
       /\ \A v \in Threads : \A y \in Bodies : held'[v][y] >= held[v][y]
  BY <1>1, HeldIncFacts
<1>14. TypeOK' /\ HeldStep(t, 0) /\ QueueStep /\ CoroutineInv'
  <2>1. TypeOK'
    BY <1>1, <1>6, <1>11, <1>12 DEF IInv, TypeOK
  <2>2. \A x \in Bodies : body'[x].coroutines \subseteq body[x].coroutines
    BY <1>4, <1>6
  <2>3. HeldStep(t, 0)
    BY <1>12 DEF HeldStep
  <2> QED
    BY <1>1, <1>11, <2>1, <2>2, <2>3, QueueSame, IdleCoroutines
<1>15. ASSUME NEW y \in Bodies PROVE IdleBody(t, << >>, y) /\ IdleRefs(<< >>, y)
  <2>1. ~NewOwner(<< >>, y) /\ Weight(<< >>, 1, y) = 0
    BY NoCalls
  <2>2. IdleBody(t, << >>, y)
    <3>1. CASE y = q
      <4>1. body'[q].ref # 0
        BY <1>3, <1>4, <1>6
      <4> QED
        BY <1>1, <1>3, <1>4, <1>6, <2>1, <3>1, <4>1 DEF IdleBody
    <3>2. CASE y # q
      BY <1>6, <2>1, <3>2, IdleSame
    <3> QED
      BY <3>1, <3>2
  <2>3. IsFiniteSet(HeldRefs(y)') /\ HeldCount(y)' = HeldCount(y) + (IF q = y THEN 1 ELSE 0)
    <3>1. IsFiniteSet(HeldRefs(y)) /\ TypeOK
      BY FiniteRefs DEF IInv
    <3> QED
      BY <1>1, <3>1, HeldInc
  <2>4. /\ HeldCount(y) \in Nat /\ QueueCount(y) \in Nat /\ AtCount(y) \in Nat
        /\ MemCount(y) \in Nat /\ CallCount(y) \in Nat
        /\ body[y].ref = HeldCount(y) + QueueCount(y) + AtCount(y) + MemCount(y) + CallCount(y)
    BY FiniteRefs
  <2>5. /\ IsFiniteSet(QueueRefs(y)') /\ QueueCount(y)' = QueueCount(y)
        /\ IsFiniteSet(AtRefs(y)') /\ AtCount(y)' = AtCount(y)
    BY <1>1, IdleKeeps
  <2>6. PICK h : h = HeldCount(y)'
    OBVIOUS
  <2>7. h \in Nat /\ h = HeldCount(y) + (IF q = y THEN 1 ELSE 0)
    BY <2>3, <2>4, <2>6
  <2>8. body'[y].ref = body[y].ref + (IF q = y THEN 1 ELSE 0)
    <3>1. body[y].ref \in Nat
      BY LiveFacts
    <3> QED
      BY <1>3, <1>4, <1>6, <3>1
  <2>9. body'[y].ref = h + QueueCount(y) + AtCount(y) + MemCount(y) + CallCount(y) + 0
    BY <2>4, <2>7, <2>8
  <2>10. IdleRefs(<< >>, y)
    BY <2>1, <2>3, <2>4, <2>5, <2>6, <2>7, <2>9 DEF IdleRefs
  <2> QED
    BY <2>2, <2>10
<1>16. IdleStep(t, << >>)
  BY <1>11, <1>14, <1>15 DEF IdleStep
<1> QED
  BY <1>16, IdleInv

LEMMA AsapInv ==
    ASSUME Prompt, IInv, NEW t \in Threads, NEW q \in Events, Asap(t, q)
    PROVE  IInv'
<1>1. /\ Ready(t) /\ held[t][q] > 0 /\ q \in Bodies /\ q \notin Quorums /\ stack' = stack
      /\ queue' = [queue EXCEPT ![t] = Append(queue[t], q)]
      /\ held' = held /\ at' = at /\ coh' = coh
  BY QuorumAssumption DEF Asap, Holds, Bodies
<1>2. PICK c : c = Refs(body[q], 1) /\ body' = [body EXCEPT ![q] = c]
  BY DEF Asap
<1>3. body[q] \in BodyType /\ body[q].ref \in Nat /\ body[q].ref > 0 /\ BodyOK(q, body[q]) /\ body[q].life = "live"
  <2>1. HeldCount(q) >= 1
    BY <1>1, Referrers DEF IInv
  <2>2. body[q].ref > 0
    BY <1>1, <2>1, FiniteRefs
  <2> QED
    BY <1>1, <2>2, LiveFacts
<1>4. /\ c \in BodyType /\ BodyOK(q, c) /\ c.life = "live" /\ (c.lock <=> body[q].lock)
      /\ (c.triggered <=> body[q].triggered) /\ c.ref = body[q].ref + 1 /\ (c.nomem <=> body[q].nomem)
      /\ c.quorums = body[q].quorums /\ c.coroutines = body[q].coroutines /\ c.members = body[q].members
  <2>1. c = Refs(body[q], 1) /\ q \in Bodies
    BY <1>1, <1>2
  <2>2. BodyOK(q, c)
    BY <1>3, <2>1, BodyOKFacts
  <2> QED
    BY ONLY <1>3, <2>1, <2>2, 1 \in Nat, RefsFacts
<1>6. body' \in [Bodies -> BodyType] /\ body'[q] = c /\ \A y \in Bodies : y # q => body'[y] = body[y]
  BY <1>1, <1>2, <1>4 DEF IInv, TypeOK
<1>11. /\ Idle(t) /\ Runs(t) /\ Moves(t, 0, << >>) /\ Len(<< >>) \in {0, 1} /\ Len(<< >>) # 1
       /\ stack' \in [Threads -> Seq(FrameType)]
  BY <1>1, IdleStays
<1>12. queue' \in [Threads -> Seq(Bodies)] /\ QueueStep
  <2>0. queue \in [Threads -> Seq(Bodies)]
    BY DEF IInv, TypeOK
  <2>1. /\ Append(queue[t], q) \in Seq(Bodies)
        /\ \A i \in 1..Len(Append(queue[t], q)) :
              Append(queue[t], q)[i] = q \/ (i \in 1..Len(queue[t]) /\ Append(queue[t], q)[i] = queue[t][i])
    BY <1>1, <2>0
  <2>2. queue' \in [Threads -> Seq(Bodies)]
    BY <1>1, <2>0, <2>1
  <2>3. ASSUME NEW u \in Threads, NEW i \in 1..Len(queue'[u])
        PROVE  \/ \E j \in 1..Len(queue[u]) : queue'[u][i] = queue[u][j] /\ queue'[u][i] \in Bodies
               \/ queue'[u][i] \in Quorums => body'[queue'[u][i]].triggered
    <3>1. queue'[u][i] \in Bodies
      BY <2>2, ElementOfSeq
    <3>2. CASE u = t
      BY <1>1, <2>0, <2>1, <3>1, <3>2
    <3>3. CASE u # t
      BY <1>1, <2>0, <3>1, <3>3
    <3> QED
      BY <3>2, <3>3
  <2> QED
    BY <2>2, <2>3 DEF QueueStep
<1>14. TypeOK' /\ HeldStep(t, 0) /\ CoroutineInv'
  <2>1. TypeOK'
    BY <1>1, <1>6, <1>11, <1>12 DEF IInv, TypeOK
  <2>2. \A x \in Bodies : body'[x].coroutines \subseteq body[x].coroutines
    BY <1>4, <1>6
  <2> QED
    BY <1>1, <1>11, <2>1, <2>2, HeldSame, IdleCoroutines
<1>15. ASSUME NEW y \in Bodies PROVE IdleBody(t, << >>, y) /\ IdleRefs(<< >>, y)
  <2>1. ~NewOwner(<< >>, y) /\ Weight(<< >>, 1, y) = 0
    BY NoCalls
  <2>2. IdleBody(t, << >>, y)
    <3>1. CASE y = q
      <4>1. body'[q].ref # 0
        BY <1>3, <1>4, <1>6
      <4> QED
        BY <1>1, <1>3, <1>4, <1>6, <2>1, <3>1, <4>1 DEF IdleBody
    <3>2. CASE y # q
      BY <1>6, <2>1, <3>2, IdleSame
    <3> QED
      BY <3>1, <3>2
  <2>3. IsFiniteSet(QueueRefs(y)') /\ QueueCount(y)' = QueueCount(y) + (IF q = y THEN 1 ELSE 0)
    <3>1. IsFiniteSet(QueueRefs(y)) /\ TypeOK
      BY FiniteRefs DEF IInv
    <3> QED
      BY <1>1, <3>1, QueueAppend
  <2>4. /\ HeldCount(y) \in Nat /\ QueueCount(y) \in Nat /\ AtCount(y) \in Nat
        /\ MemCount(y) \in Nat /\ CallCount(y) \in Nat
        /\ body[y].ref = HeldCount(y) + QueueCount(y) + AtCount(y) + MemCount(y) + CallCount(y)
    BY FiniteRefs
  <2>5. /\ IsFiniteSet(HeldRefs(y)') /\ HeldCount(y)' = HeldCount(y)
        /\ IsFiniteSet(AtRefs(y)') /\ AtCount(y)' = AtCount(y)
    BY <1>1, IdleKeeps
  <2>6. PICK h : h = QueueCount(y)'
    OBVIOUS
  <2>7. h \in Nat /\ h = QueueCount(y) + (IF q = y THEN 1 ELSE 0)
    BY <2>3, <2>4, <2>6
  <2>8. body'[y].ref = body[y].ref + (IF q = y THEN 1 ELSE 0)
    <3>1. body[y].ref \in Nat
      BY LiveFacts
    <3> QED
      BY <1>3, <1>4, <1>6, <3>1
  <2>9. body'[y].ref = HeldCount(y) + h + AtCount(y) + MemCount(y) + CallCount(y) + 0
    BY <2>4, <2>7, <2>8
  <2>10. IdleRefs(<< >>, y)
    BY <2>1, <2>3, <2>4, <2>5, <2>6, <2>7, <2>9 DEF IdleRefs
  <2> QED
    BY <2>2, <2>10
<1>16. IdleStep(t, << >>)
  BY <1>11, <1>12, <1>14, <1>15 DEF IdleStep
<1> QED
  BY <1>16, IdleInv

LEMMA AwaitInv ==
    ASSUME Prompt, IInv, NEW d \in Coroutines, NEW x \in Bodies, Await(d, x)
    PROVE  IInv'
<1>0. PICK t \in Threads : t = Home[d]
  BY QuorumAssumption
<1>1. /\ Ready(t) /\ held[t][x] > 0 /\ stack' = stack /\ at[d] = None /\ ~body[x].lock
      /\ held' = [held EXCEPT ![t] = Dec(held[t], x)] /\ at' = [at EXCEPT ![d] = x]
      /\ queue' = queue /\ coh' = coh
  BY <1>0 DEF Await, Holds
<1>2. PICK r, c : /\ r = [body[x] EXCEPT !.coroutines = body[x].coroutines \union {d}]
                  /\ c = Unlocked(r) /\ body' = [body EXCEPT ![x] = c]
  BY DEF Await
<1>3. /\ body[x] \in BodyType /\ body[x].ref \in Nat /\ body[x].ref > 0 /\ BodyOK(x, body[x])
      /\ body[x].life = "live"
  <2>1. HeldCount(x) >= 1
    BY <1>1, Referrers DEF IInv
  <2>2. body[x].ref > 0
    BY <1>1, <2>1, FiniteRefs
  <2> QED
    BY <1>1, <2>2, LiveFacts
<1>4. /\ r \in BodyType /\ BodyOK(x, r) /\ r.life = "live" /\ (r.triggered <=> body[x].triggered)
      /\ r.ref = body[x].ref /\ r.quorums = body[x].quorums /\ r.members = body[x].members
      /\ r.coroutines = body[x].coroutines \union {d}
  <2>1. /\ r \in BodyType /\ r.life = "live" /\ (r.triggered <=> body[x].triggered)
        /\ r.ref = body[x].ref /\ r.quorums = body[x].quorums /\ r.members = body[x].members
        /\ r.coroutines = body[x].coroutines \union {d}
    BY <1>2, <1>3 DEF BodyType
  <2> QED
    BY <1>3, <2>1 DEF BodyOK
<1>5. /\ c \in BodyType /\ BodyOK(x, c) /\ c.life = "live" /\ ~c.lock
      /\ (c.triggered <=> body[x].triggered) /\ c.ref = body[x].ref /\ (c.nomem <=> c.members = Nobody)
      /\ c.quorums = body[x].quorums /\ c.members = body[x].members
      /\ c.coroutines = body[x].coroutines \union {d}
  <2>1. BodyOK(x, c)
    BY <1>2, <1>4, BodyOKFacts
  <2>2. c = Unlocked(r) /\ r \in BodyType
    BY <1>2, <1>4
  <2> QED
    BY ONLY <1>4, <2>1, <2>2, UnlockedFacts
<1>6. body' \in [Bodies -> BodyType] /\ body'[x] = c /\ \A y \in Bodies : y # x => body'[y] = body[y]
  BY <1>1, <1>2, <1>5 DEF IInv, TypeOK
<1>7. /\ Idle(t) /\ Runs(t) /\ Moves(t, 0, << >>) /\ Len(<< >>) \in {0, 1} /\ Len(<< >>) # 1
      /\ stack' \in [Threads -> Seq(FrameType)]
  BY <1>1, IdleStays
<1>8. held' \in [Threads -> [Bodies -> Nat]] /\ HeldStep(t, 0)
  BY <1>1, HeldDecFacts
<1>9. TypeOK'
  BY <1>1, <1>6, <1>7, <1>8 DEF IInv, TypeOK
<1>10. CoroutineInv'
  <2>0. /\ CoroutineInv /\ at \in [Coroutines -> Bodies \union {None}] /\ None \notin Bodies
        /\ coh \in [Threads -> Coroutines \union {None}]
        /\ \A y \in Bodies : body[y].coroutines \subseteq Coroutines
    BY QuorumAssumption DEF IInv, TypeOK, BodyType
  <2>1. ASSUME NEW y \in Bodies, NEW e \in body'[y].coroutines PROVE at'[e] = y
    <3>1. CASE e = d /\ y = x
      BY <1>1, <2>0, <3>1
    <3>2. CASE ~(e = d /\ y = x)
      <4>1. e \in body[y].coroutines
        BY <1>5, <1>6, <2>1, <3>2
      <4>2. at[e] = y /\ e \in Coroutines
        BY <2>0, <4>1 DEF CoroutineInv
      <4> QED
        BY <1>1, <2>0, <4>2
    <3> QED
      BY <3>1, <3>2
  <2>2. ASSUME NEW u \in Threads, coh'[u] # None
        PROVE  /\ \A y \in Bodies : coh'[u] \notin body'[y].coroutines
               /\ at'[coh'[u]] # None /\ Home[coh'[u]] = u /\ stack'[u] # << >> /\ stack'[u][1].op = "claimed"
    <3>1. /\ \A y \in Bodies : coh[u] \notin body[y].coroutines
          /\ at[coh[u]] # None /\ Home[coh[u]] = u /\ stack[u] # << >> /\ stack[u][1].op = "claimed"
      BY <1>1, <2>0, <2>2 DEF CoroutineInv
    <3>2. coh[u] # d /\ coh'[u] = coh[u] /\ coh[u] \in Coroutines
      BY <1>1, <2>0, <2>2, <3>1
    <3>3. \A y \in Bodies : coh'[u] \notin body'[y].coroutines
      BY <1>5, <1>6, <3>1, <3>2
    <3> QED
      BY <1>1, <2>0, <3>1, <3>2, <3>3
  <2> QED
    BY <2>1, <2>2 DEF CoroutineInv
<1>11. ASSUME NEW y \in Bodies PROVE IdleBody(t, << >>, y) /\ IdleRefs(<< >>, y)
  <2>1. ~NewOwner(<< >>, y) /\ Weight(<< >>, 1, y) = 0
    BY NoCalls
  <2>2. IdleBody(t, << >>, y)
    <3>1. CASE y = x
      <4>1. body'[x].ref # 0 /\ body'[x].ref = body[x].ref
        BY <1>3, <1>5, <1>6
      <4> QED
        BY <1>1, <1>3, <1>5, <1>6, <2>1, <3>1, <4>1 DEF IdleBody
    <3>2. CASE y # x
      BY <1>6, <2>1, <3>2, IdleSame
    <3> QED
      BY <3>1, <3>2
  <2>3. /\ IsFiniteSet(HeldRefs(y)') /\ HeldCount(y)' = HeldCount(y) - (IF x = y THEN 1 ELSE 0)
        /\ IsFiniteSet(AtRefs(y)') /\ AtCount(y)' = AtCount(y) + (IF x = y THEN 1 ELSE 0)
        /\ x = y => HeldCount(y) >= 1
    <3>1. IsFiniteSet(HeldRefs(y)) /\ IsFiniteSet(AtRefs(y)) /\ TypeOK
      BY FiniteRefs DEF IInv
    <3>2. x = y => HeldCount(y) >= 1
      BY <1>1, Referrers DEF IInv
    <3> QED
      BY <1>1, <3>1, <3>2, HeldDec, AtAdd
  <2>4. /\ HeldCount(y) \in Nat /\ QueueCount(y) \in Nat /\ AtCount(y) \in Nat
        /\ MemCount(y) \in Nat /\ CallCount(y) \in Nat
        /\ body[y].ref = HeldCount(y) + QueueCount(y) + AtCount(y) + MemCount(y) + CallCount(y)
    BY FiniteRefs
  <2>5. IsFiniteSet(QueueRefs(y)') /\ QueueCount(y)' = QueueCount(y)
    BY <1>1, IdleKeeps
  <2>6. PICK h, a : h = HeldCount(y)' /\ a = AtCount(y)'
    OBVIOUS
  <2>7. /\ h \in Nat /\ a \in Nat
        /\ body[y].ref = h + QueueCount(y) + a + MemCount(y) + CallCount(y) + 0
    BY <2>3, <2>4, <2>6
  <2>8. body'[y].ref = body[y].ref
    BY <1>5, <1>6
  <2>9. IdleRefs(<< >>, y)
    BY <2>1, <2>3, <2>4, <2>5, <2>6, <2>7, <2>8 DEF IdleRefs
  <2> QED
    BY <2>2, <2>9
<1>12. QueueStep
  BY <1>1, QueueSame
<1>13. IdleStep(t, << >>)
  BY <1>7, <1>8, <1>9, <1>10, <1>11, <1>12 DEF IdleStep
<1> QED
  BY <1>13, IdleInv

LEMMA DestroyInv ==
    ASSUME Prompt, IInv, NEW d \in Coroutines, Destroy(d)
    PROVE  IInv'
<1>0. PICK t \in Threads : t = Home[d]
  BY QuorumAssumption
<1>1. PICK x \in Bodies : x = at[d]
  BY DEF Destroy, IInv, TypeOK
<1>2. /\ Ready(t) /\ ~body[x].lock /\ at' = [at EXCEPT ![d] = None] /\ Begin(t, Release(x))
      /\ held' = held /\ queue' = queue /\ coh' = coh /\ at[d] # None
  BY <1>0, <1>1 DEF Destroy
<1>3. PICK r, c : /\ r = [body[x] EXCEPT !.coroutines = body[x].coroutines \ {d}]
                  /\ c = Unlocked(r) /\ body' = [body EXCEPT ![x] = c]
  BY <1>1 DEF Destroy
<1>4. /\ body[x] \in BodyType /\ body[x].ref \in Nat /\ body[x].ref > 0 /\ BodyOK(x, body[x])
      /\ body[x].life = "live"
  <2>1. AtCount(x) >= 1
    BY <1>1, Referrers DEF IInv
  <2>2. body[x].ref > 0
    BY <1>1, <2>1, FiniteRefs
  <2> QED
    BY <1>1, <2>2, LiveFacts
<1>5. /\ r \in BodyType /\ BodyOK(x, r) /\ r.life = "live" /\ (r.triggered <=> body[x].triggered)
      /\ r.ref = body[x].ref /\ r.quorums = body[x].quorums /\ r.members = body[x].members
      /\ r.coroutines = body[x].coroutines \ {d}
  <2>1. /\ r \in BodyType /\ r.life = "live" /\ (r.triggered <=> body[x].triggered)
        /\ r.ref = body[x].ref /\ r.quorums = body[x].quorums /\ r.members = body[x].members
        /\ r.coroutines = body[x].coroutines \ {d}
    BY <1>3, <1>4 DEF BodyType
  <2> QED
    BY <1>4, <2>1 DEF BodyOK
<1>6. /\ c \in BodyType /\ BodyOK(x, c) /\ c.life = "live" /\ ~c.lock
      /\ (c.triggered <=> body[x].triggered) /\ c.ref = body[x].ref /\ (c.nomem <=> c.members = Nobody)
      /\ c.quorums = body[x].quorums /\ c.members = body[x].members
      /\ c.coroutines = body[x].coroutines \ {d}
  <2>1. BodyOK(x, c)
    BY <1>3, <1>5, BodyOKFacts
  <2>2. c = Unlocked(r) /\ r \in BodyType
    BY <1>3, <1>5
  <2> QED
    BY ONLY <1>5, <2>1, <2>2, UnlockedFacts
<1>7. body' \in [Bodies -> BodyType] /\ body'[x] = c /\ \A y \in Bodies : y # x => body'[y] = body[y]
  BY <1>1, <1>3, <1>6 DEF IInv, TypeOK
<1>8. PICK g \in FrameType : g = Release(x) /\ g.op \in {"drop", "deref"} /\ g.on = x /\ Counts(g)
  BY <1>1, ReleaseFacts
<1>9. PICK new : new = <<g>>
  OBVIOUS
<1>10. /\ Idle(t) /\ Runs(t) /\ Moves(t, 0, new) /\ Len(new) \in {0, 1} /\ new[1] = g
       /\ Len(stack'[t]) = 1 /\ stack'[t][1] = g /\ stack' \in [Threads -> Seq(FrameType)]
       /\ \A y : /\ NewOwner(new, y) <=> g.op \in Owners /\ g.on = y
                 /\ Weight(new, 1, y) = IF Counts(g) /\ g.on = y THEN 1 ELSE 0
  BY <1>2, <1>8, <1>9, IdleBegin
<1>11. FrameOK(t, 1)'
  BY <1>1, <1>8, <1>10, ReleaseOK
<1>12. TypeOK'
  BY <1>2, <1>7, <1>10 DEF IInv, TypeOK
<1>13. CoroutineInv'
  <2>0. /\ CoroutineInv /\ at \in [Coroutines -> Bodies \union {None}] /\ None \notin Bodies
        /\ coh \in [Threads -> Coroutines \union {None}]
        /\ \A y \in Bodies : body[y].coroutines \subseteq Coroutines
    BY QuorumAssumption DEF IInv, TypeOK, BodyType
  <2>1. ASSUME NEW y \in Bodies, NEW e \in body'[y].coroutines PROVE at'[e] = y
    <3>1. e \in body[y].coroutines /\ (y = x => e # d)
      BY <1>6, <1>7, <2>1
    <3>2. at[e] = y /\ e \in Coroutines
      BY <2>0, <3>1 DEF CoroutineInv
    <3> QED
      BY <1>1, <1>2, <2>0, <3>1, <3>2
  <2>2. ASSUME NEW u \in Threads, coh'[u] # None
        PROVE  /\ \A y \in Bodies : coh'[u] \notin body'[y].coroutines
               /\ at'[coh'[u]] # None /\ Home[coh'[u]] = u /\ stack'[u] # << >> /\ stack'[u][1].op = "claimed"
    <3>1. /\ \A y \in Bodies : coh[u] \notin body[y].coroutines
          /\ at[coh[u]] # None /\ Home[coh[u]] = u /\ stack[u] # << >> /\ stack[u][1].op = "claimed"
      BY <1>2, <2>0, <2>2 DEF CoroutineInv
    <3>2. u # t /\ coh'[u] = coh[u] /\ coh[u] \in Coroutines
      BY <1>2, <1>10, <2>0, <2>2, <3>1 DEF Idle
    <3>3. \A y \in Bodies : coh'[u] \notin body'[y].coroutines
      BY <1>6, <1>7, <3>1, <3>2
    <3>4. stack'[u] = stack[u]
      BY <1>10, <3>2 DEF Moves, Onto
    <3>5. coh[u] # d
      BY <1>0, <3>1, <3>2
    <3> QED
      BY <1>2, <2>0, <3>1, <3>2, <3>3, <3>4, <3>5
  <2> QED
    BY <2>1, <2>2 DEF CoroutineInv
<1>14. ASSUME NEW y \in Bodies PROVE IdleBody(t, new, y) /\ IdleRefs(new, y)
  <2>1. ~NewOwner(new, y) /\ Weight(new, 1, y) = IF x = y THEN 1 ELSE 0
    BY <1>8, <1>10 DEF Owners
  <2>2. IdleBody(t, new, y)
    <3>1. CASE y = x
      <4>1. body'[x].ref # 0 /\ body'[x].ref = body[x].ref
        BY <1>4, <1>6, <1>7
      <4> QED
        BY <1>2, <1>4, <1>6, <1>7, <2>1, <3>1, <4>1 DEF IdleBody
    <3>2. CASE y # x
      BY <1>7, <2>1, <3>2, IdleSame
    <3> QED
      BY <3>1, <3>2
  <2>3. /\ IsFiniteSet(AtRefs(y)') /\ AtCount(y)' = AtCount(y) - (IF x = y THEN 1 ELSE 0)
        /\ x = y => AtCount(y) >= 1
    <3>1. IsFiniteSet(AtRefs(y)) /\ TypeOK
      BY FiniteRefs DEF IInv
    <3>2. x = y => AtCount(y) >= 1
      BY <1>1, Referrers DEF IInv
    <3> QED
      BY <1>1, <1>2, <3>1, <3>2, AtRemove
  <2>4. /\ HeldCount(y) \in Nat /\ QueueCount(y) \in Nat /\ AtCount(y) \in Nat
        /\ MemCount(y) \in Nat /\ CallCount(y) \in Nat
        /\ body[y].ref = HeldCount(y) + QueueCount(y) + AtCount(y) + MemCount(y) + CallCount(y)
    BY FiniteRefs
  <2>5. /\ IsFiniteSet(QueueRefs(y)') /\ QueueCount(y)' = QueueCount(y)
        /\ IsFiniteSet(HeldRefs(y)') /\ HeldCount(y)' = HeldCount(y)
    BY <1>2, IdleKeeps
  <2>6. PICK a : a = AtCount(y)'
    OBVIOUS
  <2>7. /\ a \in Nat
        /\ body[y].ref = HeldCount(y) + QueueCount(y) + a + MemCount(y) + CallCount(y)
                         + (IF x = y THEN 1 ELSE 0)
    BY <2>3, <2>4, <2>6
  <2>8. body'[y].ref = body[y].ref
    BY <1>6, <1>7
  <2>9. IdleRefs(new, y)
    BY <2>1, <2>3, <2>4, <2>5, <2>6, <2>7, <2>8 DEF IdleRefs
  <2> QED
    BY <2>2, <2>9
<1>15. QueueStep /\ HeldStep(t, 0)
  BY <1>2, QueueSame, HeldSame
<1>16. IdleStep(t, new)
  BY <1>8, <1>10, <1>11, <1>12, <1>13, <1>14, <1>15 DEF IdleStep
<1> QED
  BY <1>16, IdleInv

-----------------------------------------------------------------------------
(* Coroutines that are resumed. *)

\* The step of another kind, with what StepInv asks for.
WholeStep(t, b, new) ==
    /\ Runs(t) /\ Moves(t, b, new) /\ TypeOK' /\ RefInv' /\ CoroutineInv'
    /\ \A y \in Bodies : BodyOK(y, body'[y]) /\ BodyStep(t, b, new, y)
    /\ CullEnds(t, b, new) /\ HeldStep(t, b) /\ QueueStep /\ NewFrames(t, b, new)
    /\ \A j \in 1..Len(new) : FrameOK(t, b + j)'
    /\ \A x \in Bodies : LinkSame(t, b, new, x) \/ LinkOK(x)'

LEMMA WholeInv ==
    ASSUME Prompt, IInv, NEW t \in Threads, NEW b, NEW new, WholeStep(t, b, new)
    PROVE  IInv'
BY StepInv DEF WholeStep

LEMMA HeldKept ==
    ASSUME IInv, held' = held, NEW t \in Threads, NEW b
    PROVE  held' \in [Threads -> [Bodies -> Nat]] /\ HeldStep(t, b)
<1>1. held \in [Threads -> [Bodies -> Nat]]
  BY DEF IInv, TypeOK
<1> QED
  BY <1>1 DEF HeldStep

\* driver_trigger claims a coroutine of a triggered event.
Claims(t, b, f, x, d) ==
    /\ Popped(t, b, f) /\ Runs(t) /\ f.op = "drive" /\ x = f.on
    /\ body[x].triggered /\ ~body[x].lock /\ d \in body[x].coroutines /\ Home[d] = t
    /\ body' = [body EXCEPT ![x] = Unlocked([body[x] EXCEPT !.coroutines = body[x].coroutines \ {d}])]
    /\ coh' = [coh EXCEPT ![t] = d] /\ Replace(t, <<Call("claimed", x)>>)
    /\ \A new \in Seq(FrameType) : Replace(t, new) => Moves(t, b, new)
    /\ held' = held /\ queue' = queue /\ at' = at

LEMMA ClaimInv ==
    ASSUME Prompt, IInv, NEW t \in Threads, NEW b \in Nat, NEW f \in FrameType,
           NEW x \in Bodies, NEW d, Claims(t, b, f, x, d)
    PROVE  IInv'
<1>0. /\ Popped(t, b, f) /\ Runs(t) /\ f.op = "drive" /\ x = f.on
      /\ body[x].triggered /\ ~body[x].lock /\ d \in body[x].coroutines /\ Home[d] = t
      /\ held' = held /\ queue' = queue /\ at' = at
  BY DEF Claims
<1>1. /\ ~PopsOwner(t, b, x) /\ PopWeight(t, b, x) = 1
      /\ \A op : Pops(t, b, op, x) <=> f.op = op
      /\ body[x] \in BodyType /\ BodyOK(x, body[x]) /\ body[x].ref \in Nat /\ body[x].ref >= 1
      /\ body[x].members \in [Bodies -> Nat] /\ body[x].life = "live"
      /\ b = 0 => ~Private(t, x)
  <2>1. OnBody(t, b, f, x)
    BY <1>0, CallOn
  <2> QED
    BY <1>0, <2>1 DEF OnBody, Owners, Counts
<1>2. b = 0
  <2>1. b + 1 = 1
    BY <1>0 DEF Popped, FrameOK, ShapeOK, Outermost
  <2> QED
    BY <2>1
<1>3. PICK r, c : /\ r = [body[x] EXCEPT !.coroutines = body[x].coroutines \ {d}]
                  /\ c = Unlocked(r) /\ body' = [body EXCEPT ![x] = c]
  BY DEF Claims
<1>4. /\ r \in BodyType /\ BodyOK(x, r) /\ r.life = "live" /\ (r.triggered <=> body[x].triggered)
      /\ r.ref = body[x].ref /\ r.quorums = body[x].quorums /\ r.members = body[x].members
      /\ r.coroutines = body[x].coroutines \ {d}
  <2>1. /\ r \in BodyType /\ r.life = "live" /\ (r.triggered <=> body[x].triggered)
        /\ r.ref = body[x].ref /\ r.quorums = body[x].quorums /\ r.members = body[x].members
        /\ r.coroutines = body[x].coroutines \ {d}
    BY <1>1, <1>3 DEF BodyType
  <2> QED
    BY <1>1, <2>1 DEF BodyOK
<1>5. /\ c \in BodyType /\ BodyOK(x, c) /\ c.life = "live" /\ ~c.lock
      /\ (c.triggered <=> body[x].triggered) /\ c.ref = body[x].ref /\ (c.nomem <=> c.members = Nobody)
      /\ c.quorums = body[x].quorums /\ c.members = body[x].members
      /\ c.coroutines = body[x].coroutines \ {d}
  <2>1. BodyOK(x, c)
    BY <1>3, <1>4, BodyOKFacts
  <2>2. c = Unlocked(r) /\ r \in BodyType
    BY <1>3, <1>4
  <2> QED
    BY ONLY <1>4, <2>1, <2>2, UnlockedFacts
<1>6. body' \in [Bodies -> BodyType] /\ body'[x] = c /\ \A y \in Bodies : y # x => body'[y] = body[y]
  BY <1>3, <1>5 DEF IInv, TypeOK
<1>7. PICK p \in FrameType : p = Call("claimed", x) /\ p.op = "claimed" /\ p.on = x /\ p.left = Nobody /\ ~p.drv
  <2>1. "claimed" \in Ops
    BY DEF Ops
  <2> QED
    BY <2>1, CallFacts
<1>8. PICK new : new = <<p>>
  OBVIOUS
<1>9. /\ new \in Seq(FrameType) /\ Len(new) = 1 /\ new[1] = p /\ 1..Len(new) = {1}
      /\ \A y : ~NewOwner(new, y)
      /\ \A y : /\ Weight(new, 1, y) = IF x = y THEN 1 ELSE 0
                /\ Weight(new, 2, y) = 0 /\ Weight(new, 3, y) = 0
  BY <1>7, <1>8, OneCall DEF Owners, Counts
<1>10. Moves(t, b, new)
  BY <1>7, <1>8, <1>9 DEF Claims
<1>11. stack' \in [Threads -> Seq(FrameType)] /\ Len(stack'[t]) = 1 /\ stack'[t][1] = p
       /\ \A u \in Threads : u # t => stack'[u] = stack[u]
  BY <1>2, <1>9, <1>10 DEF Moves, Onto
<1>12. d \in Coroutines /\ coh' = [coh EXCEPT ![t] = d]
  BY <1>0, <1>1 DEF BodyType, Claims
<1>13. TypeOK'
  BY <1>0, <1>6, <1>11, <1>12 DEF IInv, TypeOK
<1>14. FrameOK(t, 1)'
  <2>1. ShapeOK(t, 1)' /\ HandleOK(t, 1)'
    BY <1>7, <1>11 DEF ShapeOK, HandleOK, OnQuorum
  <2>2. OnceOK(stack[t][1])' /\ CullOK(t, 1)' /\ NomemOK(t, 1)'
    BY <1>0, <1>5, <1>6, <1>7, <1>11 DEF OnceOK, CullOK, NomemOK
  <2> QED
    BY <2>1, <2>2 DEF FrameOK
<1>15. ASSUME NEW y \in Bodies
       PROVE  /\ BodyOK(y, body'[y]) /\ BodyStep(t, b, new, y)
              /\ body'[y].members = body[y].members /\ body'[y].quorums = body[y].quorums
              /\ body'[y].coroutines \subseteq body[y].coroutines
              /\ body'[y].ref = body[y].ref - PopWeight(t, b, y)
                       + Weight(new, 1, y) + Weight(new, 2, y) + Weight(new, 3, y)
  <2>1. CASE y = x
    <3>1. \A z \in Bodies : body'[x].members[z] <= body[x].members[z]
      BY <1>1, <1>5, <1>6
    <3>2. body'[x].ref # 0 /\ body'[x].ref = body[x].ref
      BY <1>1, <1>5, <1>6
    <3>3. BodyStep(t, b, new, x)
      BY <1>0, <1>1, <1>2, <1>5, <1>6, <1>9, <3>1, <3>2 DEF BodyStep, RefStep, PrivateStep, DeleteStep
    <3>4. body'[x].ref = body[x].ref - PopWeight(t, b, x)
                       + Weight(new, 1, x) + Weight(new, 2, x) + Weight(new, 3, x)
      BY <1>1, <1>9, <3>2
    <3> QED
      BY <1>5, <1>6, <2>1, <3>3, <3>4
  <2>2. CASE y # x
    <3>1. \A j \in 1..Len(new) : Counts(new[j]) \/ new[j].op \in Owners => new[j].on = f.on
      BY <1>0, <1>7, <1>9
    <3> QED
      BY <1>0, <1>6, <1>10, <2>2, <3>1, OtherBodies
  <2> QED
    BY <2>1, <2>2
<1>16. RefInv'
  <2>1. Len(new) <= 3
    BY <1>9
  <2> QED
    BY <1>0, <1>10, <1>15, <2>1, RefPlain
<1>17. CoroutineInv'
  <2>0. /\ CoroutineInv /\ at \in [Coroutines -> Bodies \union {None}] /\ None \notin Bodies \union Coroutines
        /\ coh \in [Threads -> Coroutines \union {None}]
    BY QuorumAssumption DEF IInv, TypeOK
  <2>1. \A y \in Bodies : \A e \in body'[y].coroutines : at'[e] = y
    BY <1>0, <1>15, <2>0 DEF CoroutineInv
  <2>2. at[d] = x /\ \A y \in Bodies : d \in body[y].coroutines => at[d] = y
    BY <1>0, <2>0 DEF CoroutineInv
  <2>3. ASSUME NEW u \in Threads, coh'[u] # None
        PROVE  /\ \A y \in Bodies : coh'[u] \notin body'[y].coroutines
               /\ at'[coh'[u]] # None /\ Home[coh'[u]] = u /\ stack'[u] # << >> /\ stack'[u][1].op = "claimed"
    <3>1. CASE u = t
      <4>0. stack'[t] # << >>
        <5>1. stack'[t] \in Seq(FrameType) /\ Len(stack'[t]) # 0
          BY <1>11
        <5> QED
          BY ONLY <5>1, EmptySeq
      <4>1. coh'[u] = d /\ stack'[u] # << >> /\ stack'[u][1].op = "claimed"
        BY <1>7, <1>11, <1>12, <2>0, <3>1, <4>0
      <4>2. \A y \in Bodies : d \notin body'[y].coroutines
        BY <1>5, <1>6, <2>2
      <4> QED
        BY <1>0, <2>0, <2>2, <3>1, <4>1, <4>2
    <3>2. CASE u # t
      <4>1. coh'[u] = coh[u] /\ stack'[u] = stack[u]
        BY <1>11, <1>12, <2>0, <3>2
      <4>2. /\ \A y \in Bodies : coh[u] \notin body[y].coroutines
            /\ at[coh[u]] # None /\ Home[coh[u]] = u /\ stack[u] # << >> /\ stack[u][1].op = "claimed"
        BY <2>0, <2>3, <4>1 DEF CoroutineInv
      <4> QED
        BY <1>0, <1>15, <4>1, <4>2
    <3> QED
      BY <3>1, <3>2
  <2> QED
    BY <2>1, <2>3 DEF CoroutineInv
<1>18. CullEnds(t, b, new) /\ NewFrames(t, b, new)
  <2>1. \A y : ~Pops(t, b, "cull", y)
    BY <1>0, PoppedFacts
  <2> QED
    BY <1>7, <1>9, <2>1 DEF CullEnds, NewFrames
<1>19. \A j \in 1..Len(new) : FrameOK(t, b + j)'
  <2>1. b + 1 = 1
    BY <1>2
  <2> QED
    BY <1>9, <1>14, <2>1
<1>20. \A y \in Bodies : LinkSame(t, b, new, y)
  <2>1. Len(stack[t]) = b + 1 => stack[t][b + 1].op \notin {"inform", "member"}
    BY <1>0 DEF Popped
  <2> QED
    BY <1>7, <1>9, <1>15, <2>1, LinkQuiet
<1>21. HeldStep(t, b) /\ QueueStep
  BY <1>0, HeldKept, QueueSame
<1>22. WholeStep(t, b, new)
  BY <1>0, <1>10, <1>13, <1>15, <1>16, <1>17, <1>18, <1>19, <1>20, <1>21 DEF WholeStep
<1> QED
  BY <1>22, WholeInv

LEMMA DriveInv ==
    ASSUME Prompt, IInv, NEW t \in Threads, Drive(t)
    PROVE  IInv'
<1>1. PICK b \in Nat, f \in FrameType :
         /\ Popped(t, b, f) /\ f = Top(t) /\ f.op = "drive" /\ Runs(t)
         /\ \A new \in Seq(FrameType) : Replace(t, new) => Moves(t, b, new)
  BY InFacts DEF Drive
<1>2. PICK x \in Bodies : x = f.on
  BY <1>1 DEF Popped
<1>3. held' = held /\ queue' = queue /\ at' = at
  BY DEF Drive
<1>4. CASE Replace(t, <<Release(x)>>) /\ body' = body /\ coh' = coh
  <2>1. PICK new : new = <<Release(x)>>
    OBVIOUS
  <2>2. new \in Seq(FrameType) /\ Replace(t, new)
    BY <1>4, <2>1, ReleaseFacts, OneCall
  <2>3. Moves(t, b, new)
    BY <1>1, <2>2
  <2> QED
    BY <1>1, <1>2, <1>3, <1>4, <2>1, <2>3, EndInv
<1>5. CASE /\ ~body[x].triggered /\ ~body[x].lock /\ coh' = coh
           /\ body' = [body EXCEPT ![x] = Referenced(Locked(body[x]), x)]
           /\ Replace(t, <<Call("claimed", x)>> \o TriggerUnlock(body[x], x, TRUE))
  BY <1>1, <1>2, <1>3, <1>5, DriveTriggerInv
<1>6. ASSUME NEW c \in Mine(t, x, TRUE), body[x].triggered, ~body[x].lock,
             body' = [body EXCEPT ![x] = Unlocked([body[x] EXCEPT !.coroutines = body[x].coroutines \ {c}])],
             coh' = [coh EXCEPT ![t] = c], Replace(t, <<Call("claimed", x)>>)
      PROVE  IInv'
  <2>1. c \in body[x].coroutines /\ Home[c] = t
    BY <1>6 DEF Mine
  <2>2. Claims(t, b, f, x, c)
    BY <1>1, <1>2, <1>3, <1>6, <2>1 DEF Claims
  <2> QED
    BY <2>2, ClaimInv
<1> QED
  BY <1>1, <1>2, <1>4, <1>5, <1>6 DEF Drive

\* A step that changes no body, and begins and ends no call that owns a lock.
LEMMA StillBodies ==
    ASSUME IInv, NEW t \in Threads, NEW b, NEW f, Popped(t, b, f), NEW new, Moves(t, b, new),
           body' = body, f.op \notin Owners, \A j \in 1..Len(new) : new[j].op \notin Owners
    PROVE  \A y \in Bodies : BodyOK(y, body'[y]) /\ BodyStep(t, b, new, y)
<1>1. ASSUME NEW y \in Bodies PROVE BodyOK(y, body'[y]) /\ BodyStep(t, b, new, y)
  <2>1. ~PopsOwner(t, b, y) /\ ~NewOwner(new, y)
    BY PoppedFacts DEF NewOwner
  <2>2. BodyStep(t, b, new, y)
    BY <2>1, SameBody DEF IInv
  <2> QED
    BY <2>2, LiveFacts
<1> QED
  BY <1>1

LEMMA ResumeInv ==
    ASSUME Prompt, IInv, NEW t \in Threads, Resume(t)
    PROVE  IInv'
<1>1. PICK b \in Nat, f \in FrameType :
         /\ Popped(t, b, f) /\ f = Top(t) /\ f.op = "claimed" /\ Runs(t)
         /\ \A new \in Seq(FrameType) : Replace(t, new) => Moves(t, b, new)
  BY InFacts DEF Resume
<1>2. PICK x \in Bodies : x = f.on
  BY <1>1 DEF Popped
<1>3. body' = body /\ held' = held /\ queue' = queue
  BY DEF Resume
<1>4. b = 0 /\ stack[t][1] = f
  <2>1. b + 1 = 1
    BY <1>1 DEF Popped, FrameOK, ShapeOK, Outermost
  <2> QED
    BY <1>1, <2>1 DEF Popped
<1>5. /\ \A op, y : Pops(t, b, op, y) <=> f.op = op /\ f.on = y
      /\ \A y : PopWeight(t, b, y) = IF x = y THEN 1 ELSE 0
  BY <1>1, <1>2, PoppedFacts DEF PopWeight, Counts
<1>6. HeldStep(t, b) /\ QueueStep
  BY <1>3, HeldKept, QueueSame
<1>t. /\ at \in [Coroutines -> Bodies \union {None}] /\ coh \in [Threads -> Coroutines \union {None}]
      /\ None \notin Bodies \union Coroutines /\ CoroutineInv
  BY QuorumAssumption DEF IInv, TypeOK
<1>7. CASE coh[t] = None /\ Replace(t, <<Release(x)>>) /\ at' = at /\ coh' = coh
  <2>1. PICK g \in FrameType : g = Release(x) /\ g.on = x /\ Counts(g)
                               /\ g.op \in {"drop", "deref"}
    BY ReleaseFacts
  <2>2. PICK new : new = <<g>>
    OBVIOUS
  <2>3. /\ new \in Seq(FrameType) /\ Len(new) = 1 /\ new[1] = g /\ 1..Len(new) = {1}
        /\ \A y : /\ Weight(new, 1, y) = IF x = y THEN 1 ELSE 0
                  /\ Weight(new, 2, y) = 0 /\ Weight(new, 3, y) = 0
    BY <2>1, <2>2, OneCall
  <2>4. Moves(t, b, new) /\ Len(new) <= 3
    <3>1. Replace(t, new)
      BY <1>7, <2>1, <2>2
    <3>2. Moves(t, b, new)
      BY <1>1, <2>3, <3>1
    <3> QED
      BY <2>3, <3>2
  <2>5. /\ stack' \in [Threads -> Seq(FrameType)] /\ stack'[t][b + 1] = Release(x)
        /\ \A u \in Threads : u # t => stack'[u] = stack[u]
    BY <2>1, <2>3, <2>4 DEF Moves, Onto
  <2>6. TypeOK'
    BY <1>3, <1>7, <2>5 DEF IInv, TypeOK
  <2>7. \A j \in 1..Len(new) : FrameOK(t, b + j)'
    BY <2>3, <2>5, ReleaseOK
  <2>8. \A y \in Bodies : BodyOK(y, body'[y]) /\ BodyStep(t, b, new, y)
    <3>1. f.op \notin Owners /\ \A j \in 1..Len(new) : new[j].op \notin Owners
      BY <1>1, <2>1, <2>3 DEF Owners
    <3> QED
      BY <1>1, <1>3, <2>4, <3>1, StillBodies
  <2>9. RefInv'
    <3>1. ASSUME NEW y \in Bodies
          PROVE  body'[y].ref = body[y].ref - PopWeight(t, b, y)
                    + Weight(new, 1, y) + Weight(new, 2, y) + Weight(new, 3, y)
      <4>1. body[y].ref \in Nat /\ body'[y].ref = body[y].ref
        BY <1>3, LiveFacts
      <4> QED
        BY <1>5, <2>3, <4>1
    <3> QED
      BY <1>3, <1>7, <2>4, <3>1, RefPlain
  <2>10. CoroutineInv'
    BY <1>3, <1>7, <1>t, <2>5 DEF CoroutineInv
  <2>11. CullEnds(t, b, new) /\ NewFrames(t, b, new)
    BY <1>1, <1>5, <2>1, <2>3 DEF CullEnds, NewFrames
  <2>12. \A y \in Bodies : LinkSame(t, b, new, y)
    <3>1. Len(stack[t]) = b + 1 => stack[t][b + 1].op \notin {"inform", "member"}
      BY <1>1 DEF Popped
    <3> QED
      BY <1>3, <2>1, <2>3, <3>1, LinkQuiet
  <2>13. WholeStep(t, b, new)
    BY <1>1, <1>6, <2>4, <2>6, <2>7, <2>8, <2>9, <2>10, <2>11, <2>12 DEF WholeStep
  <2> QED
    BY <2>13, WholeInv
<1>8. CASE /\ coh[t] # None /\ Replace(t, <<Call("drive", x), Release(at[coh[t]])>>)
           /\ at' = [at EXCEPT ![coh[t]] = None] /\ coh' = [coh EXCEPT ![t] = None]
  <2>0. PICK d \in Coroutines : d = coh[t]
    BY <1>8, <1>t
  <2>1. /\ \A y \in Bodies : d \notin body[y].coroutines
        /\ at[d] # None /\ Home[d] = t
    BY <1>8, <1>t, <2>0 DEF CoroutineInv
  <2>2. PICK z \in Bodies : z = at[d]
    BY <1>t, <2>1
  <2>3. PICK p \in FrameType : p = Call("drive", x) /\ p.op = "drive" /\ p.on = x /\ p.left = Nobody /\ ~p.drv
    <3>1. "drive" \in Ops
      BY DEF Ops
    <3> QED
      BY <3>1, CallFacts
  <2>4. PICK g \in FrameType : g = Release(z) /\ g.on = z /\ Counts(g) /\ g.op \in {"drop", "deref"}
    BY ReleaseFacts
  <2>5. PICK new : new = <<p, g>>
    OBVIOUS
  <2>6. new \in Seq(FrameType) /\ Len(new) = 2 /\ new[1] = p /\ new[2] = g /\ 1..Len(new) = {1, 2}
    BY <2>5
  <2>7. \A y : /\ Weight(new, 1, y) = IF x = y THEN 1 ELSE 0
               /\ Weight(new, 2, y) = IF z = y THEN 1 ELSE 0
               /\ Weight(new, 3, y) = 0
    BY <2>3, <2>4, <2>6 DEF Weight, Counts
  <2>8. Moves(t, b, new) /\ Len(new) <= 3
    <3>1. Replace(t, new)
      BY <1>8, <2>0, <2>2, <2>3, <2>4, <2>5
    <3>2. Moves(t, b, new)
      BY <1>1, <2>6, <3>1
    <3> QED
      BY <2>6, <3>2
  <2>9. /\ stack' \in [Threads -> Seq(FrameType)] /\ stack'[t][b + 1] = p /\ stack'[t][b + 2] = g
        /\ \A u \in Threads : u # t => stack'[u] = stack[u]
    BY <2>6, <2>8 DEF Moves, Onto
  <2>10. TypeOK'
    BY <1>3, <1>8, <1>t, <2>0, <2>9 DEF IInv, TypeOK
  <2>11. FrameOK(t, b + 1)'
    <3>1. ShapeOK(t, b + 1)' /\ HandleOK(t, b + 1)'
      <4>1. b + 1 = 1
        BY <1>4
      <4> QED
        BY <2>3, <2>9, <4>1 DEF ShapeOK, HandleOK, OnQuorum
    <3>2. CullOK(t, b + 1)' /\ NomemOK(t, b + 1)'
      BY <2>3, <2>9 DEF CullOK, NomemOK
    <3>3. x \in Quorums => body'[x].triggered
      BY <1>1, <1>2, <1>3 DEF Popped, FrameOK, OnceOK
    <3>4. OnceOK(stack[t][b + 1])'
      BY <2>3, <2>9, <3>3 DEF OnceOK
    <3> QED
      BY <3>1, <3>2, <3>4 DEF FrameOK
  <2>12. FrameOK(t, b + 2)'
    BY <2>4, <2>9, ReleaseOK
  <2>13. \A j \in 1..Len(new) : FrameOK(t, b + j)'
    BY <2>6, <2>11, <2>12
  <2>14. \A y \in Bodies : BodyOK(y, body'[y]) /\ BodyStep(t, b, new, y)
    <3>1. f.op \notin Owners /\ \A j \in 1..Len(new) : new[j].op \notin Owners
      BY <1>1, <2>3, <2>4, <2>6 DEF Owners
    <3> QED
      BY <1>1, <1>3, <2>8, <3>1, StillBodies
  <2>15. RefInv'
    <3>1. ASSUME NEW y \in Bodies
          PROVE  /\ IsFiniteSet(HeldRefs(y)') /\ IsFiniteSet(QueueRefs(y)')
                 /\ IsFiniteSet(AtRefs(y)') /\ IsFiniteSet(MemRefs(y)')
                 /\ body'[y].ref = HeldCount(y)' + QueueCount(y)' + AtCount(y)' + MemCount(y)'
                    + (CallCount(y) - PopWeight(t, b, y)
                       + Weight(new, 1, y) + Weight(new, 2, y) + Weight(new, 3, y))
      <4>1. /\ HeldCount(y) \in Nat /\ QueueCount(y) \in Nat /\ AtCount(y) \in Nat
            /\ MemCount(y) \in Nat /\ CallCount(y) \in Nat
            /\ body[y].ref = HeldCount(y) + QueueCount(y) + AtCount(y) + MemCount(y) + CallCount(y)
            /\ IsFiniteSet(AtRefs(y)) /\ IsFiniteSet(MemRefs(y))
        BY FiniteRefs
      <4>2. /\ IsFiniteSet(QueueRefs(y)') /\ QueueCount(y)' = QueueCount(y)
            /\ IsFiniteSet(HeldRefs(y)') /\ HeldCount(y)' = HeldCount(y)
        BY <1>3, IdleKeeps
      <4>3. IsFiniteSet(AtRefs(y)') /\ AtCount(y)' = AtCount(y) - (IF z = y THEN 1 ELSE 0)
        <5>1. TypeOK /\ at' = [at EXCEPT ![d] = None]
          BY <1>8, <2>0 DEF IInv
        <5> QED
          BY <2>1, <2>2, <4>1, <5>1, AtRemove
      <4>4. MemRefs(y)' = MemRefs(y) /\ MemCount(y)' = MemCount(y)
        BY <1>3, MemSame
      <4>5. PICK a, w, w1, w2 : /\ a = AtCount(y) - w2 /\ w = (IF x = y THEN 1 ELSE 0)
                                /\ w1 = w /\ w2 = IF z = y THEN 1 ELSE 0
        OBVIOUS
      <4>6. HeldCount(y) + QueueCount(y) + AtCount(y) + MemCount(y) + CallCount(y)
             = HeldCount(y) + QueueCount(y) + a + MemCount(y) + (CallCount(y) - w + w1 + w2 + 0)
        BY <4>1, <4>5
      <4>7. AtCount(y)' = a /\ PopWeight(t, b, y) = w /\ Weight(new, 1, y) = w1 /\ Weight(new, 2, y) = w2
            /\ Weight(new, 3, y) = 0 /\ body'[y].ref = body[y].ref
        BY <1>3, <1>5, <2>7, <4>3, <4>5
      <4>8. body'[y].ref = HeldCount(y)' + QueueCount(y)' + AtCount(y)' + MemCount(y)'
                    + (CallCount(y) - PopWeight(t, b, y)
                       + Weight(new, 1, y) + Weight(new, 2, y) + Weight(new, 3, y))
        BY <4>1, <4>2, <4>4, <4>6, <4>7
      <4> QED
        BY <4>1, <4>2, <4>3, <4>4, <4>8
    <3> QED
      BY <2>8, <3>1, RefAfter
  <2>16. CoroutineInv'
    <3>1. ASSUME NEW y \in Bodies, NEW e \in body'[y].coroutines PROVE at'[e] = y
      <4>1. e \in body[y].coroutines /\ e # d
        BY <1>3, <2>1, <3>1
      <4>2. at[e] = y
        BY <1>t, <4>1 DEF CoroutineInv
      <4>3. e \in Coroutines
        BY <4>1 DEF IInv, TypeOK, BodyType
      <4> QED
        BY <1>8, <1>t, <2>0, <4>1, <4>2, <4>3
    <3>2. ASSUME NEW u \in Threads, coh'[u] # None
          PROVE  /\ \A y \in Bodies : coh'[u] \notin body'[y].coroutines
                 /\ at'[coh'[u]] # None /\ Home[coh'[u]] = u /\ stack'[u] # << >> /\ stack'[u][1].op = "claimed"
      <4>1. u # t /\ coh'[u] = coh[u] /\ coh[u] \in Coroutines
        BY <1>8, <1>t, <3>2
      <4>2. /\ \A y \in Bodies : coh[u] \notin body[y].coroutines
            /\ at[coh[u]] # None /\ Home[coh[u]] = u /\ stack[u] # << >> /\ stack[u][1].op = "claimed"
        BY <1>t, <3>2, <4>1 DEF CoroutineInv
      <4>3. coh[u] # d /\ stack'[u] = stack[u]
        BY <2>1, <2>9, <4>1, <4>2
      <4>4. at'[coh[u]] = at[coh[u]]
        BY <1>8, <1>t, <2>0, <4>1, <4>3
      <4> QED
        BY <1>3, <4>1, <4>2, <4>3, <4>4
    <3> QED
      BY <3>1, <3>2 DEF CoroutineInv
  <2>17. CullEnds(t, b, new) /\ NewFrames(t, b, new)
    <3>1. \A j \in 1..Len(new) : new[j].op \notin Owners /\ new[j].op # "inform"
      BY <2>3, <2>4, <2>6 DEF Owners
    <3> QED
      BY <1>1, <1>5, <3>1 DEF CullEnds, NewFrames
  <2>18. \A y \in Bodies : LinkSame(t, b, new, y)
    <3>1. Len(stack[t]) = b + 1 => stack[t][b + 1].op \notin {"inform", "member"}
      BY <1>1 DEF Popped
    <3>2. \A j \in 1..Len(new) : new[j].op \notin {"inform", "member"}
      BY <2>3, <2>4, <2>6
    <3> QED
      BY <1>3, <3>1, <3>2, LinkQuiet
  <2>19. WholeStep(t, b, new)
    BY <1>1, <1>6, <2>8, <2>10, <2>13, <2>14, <2>15, <2>16, <2>17, <2>18 DEF WholeStep
  <2> QED
    BY <2>19, WholeInv
<1> QED
  BY <1>1, <1>2, <1>7, <1>8 DEF Resume

-----------------------------------------------------------------------------
(* Informing the quorums of a body that has triggered. *)

\* What a call inside driver_trigger, or of a handle's owner, can rely on stays.
LEMMA StillSecured ==
    ASSUME NEW t \in Threads, NEW b, NEW f, Popped(t, b, f), NEW new, Moves(t, b, new),
           f.op # "claimed", held' = held
    PROVE  /\ f.drv => stack'[t][1].op = "claimed"
           /\ \A y \in Bodies : Secured(t, y) => Secured(t, y)'
<1>1. b \in Nat /\ stack[t][b + 1] = f
  BY DEF Popped
<1>2. b # 0 => stack'[t][1] = stack[t][1]
  <2>1. b # 0 => 1 \in 1..b
    BY <1>1
  <2> QED
    BY <2>1 DEF Moves, Onto
<1>3. b = 0 => stack[t][1].op # "claimed"
  BY <1>1
<1>4. f.drv => stack[t][1].op = "claimed"
  BY <1>1 DEF Popped, FrameOK, ShapeOK
<1>5. f.drv => stack'[t][1].op = "claimed"
  BY <1>2, <1>3, <1>4
<1>6. ASSUME NEW y \in Bodies, Secured(t, y) PROVE Secured(t, y)'
  BY <1>2, <1>3, <1>6 DEF Secured, Is
<1> QED
  BY <1>5, <1>6

\* Only the new calls inform of x, when the call that did so is over.
LEMMA OnlyInform ==
    ASSUME IInv, NEW t \in Threads, NEW b, NEW new, Moves(t, b, new), NEW x \in Bodies,
           Pops(t, b, "inform", x), NEW u \in Threads, NEW k \in 1..Len(stack'[u]), Is(u, k, "inform", x)'
    PROVE  u = t /\ k - b \in 1..Len(new) /\ k = b + (k - b) /\ stack'[u][k] = new[k - b]
<1>1. TypeOK /\ OnceInv /\ b \in Nat /\ b + 1 \in 1..Len(stack[t])
  <2>1. b \in Nat /\ Len(stack[t]) = b + 1
    BY DEF Moves, Pops
  <2> QED
    BY <2>1 DEF IInv
<1>2. \/ /\ k \in 1..Len(stack[u]) /\ stack'[u][k] = stack[u][k]
         /\ u = t => k <= b
      \/ /\ u = t /\ k - b \in 1..Len(new) /\ stack'[u][k] = new[k - b] /\ k = b + (k - b)
  <2>1. \A v \in Threads : \A i \in 1..Len(stack'[v]) :
           \/ /\ i \in 1..Len(stack[v]) /\ stack'[v][i] = stack[v][i]
              /\ v = t => i <= b
           \/ /\ v = t /\ i - b \in 1..Len(new) /\ stack'[v][i] = new[i - b] /\ i = b + (i - b)
    BY <1>1, MovesFacts, SMTT(60)
  <2> QED
    BY <2>1
<1>3. ASSUME k \in 1..Len(stack[u]), stack'[u][k] = stack[u][k], u = t => k <= b
      PROVE  FALSE
  <2>1. Is(u, k, "inform", x) /\ Is(t, b + 1, "inform", x)
    BY <1>3 DEF Is, Pops
  <2>2. u = t /\ k = b + 1
    BY <1>1, <1>3, <2>1 DEF OnceInv
  <2> QED
    BY <1>1, <1>3, <2>2
<1> QED
  BY <1>2, <1>3

LEMMA VisitedOnce ==
    ASSUME NEW left \in [Bodies -> Nat], NEW q \in Bodies, left[q] > 0, NEW y \in Bodies
    PROVE  left[y] = Dec(left, q)[y] + (IF y = q THEN 1 ELSE 0)
<1>1. Dec(left, q)[y] = IF y # q THEN left[y] ELSE IF left[q] = 0 THEN 0 ELSE left[q] - 1
  BY BagFacts
<1>2. left[y] \in Nat /\ left[q] \in Nat
  OBVIOUS
<1> QED
  BY <1>1, <1>2

LEMMA InformInv ==
    ASSUME Prompt, IInv, NEW t \in Threads, Inform(t)
    PROVE  IInv'
<1>1. PICK b \in Nat, f \in FrameType :
         /\ Popped(t, b, f) /\ f = Top(t) /\ f.op = "inform" /\ Runs(t)
         /\ \A new \in Seq(FrameType) : Replace(t, new) => Moves(t, b, new)
  BY InFacts DEF Inform
<1>2. PICK x \in Bodies : x = f.on /\ f.left \in [Bodies -> Nat] /\ f.drv \in BOOLEAN
  BY <1>1 DEF Popped, FrameType
<1>3. body' = body /\ held' = held /\ queue' = queue /\ at' = at /\ coh' = coh
  BY DEF Inform
<1>4. PICK q \in Quorums : /\ f.left[q] > 0
                           /\ Replace(t, <<Visited(f, q), Frame("member", q, f.on, Nobody, f.drv)>>)
  BY <1>1 DEF Inform
<1>q. q \in Bodies /\ "member" \in Ops
  BY DEF Bodies, Ops
<1>5. PICK v \in FrameType : /\ v = Visited(f, q) /\ v.op = "inform" /\ v.on = x /\ (v.drv <=> f.drv)
                             /\ v.left = Dec(f.left, q)
  BY <1>1, <1>2, <1>q, VisitedFacts
<1>6. PICK m \in FrameType : /\ m = Frame("member", q, x, Nobody, f.drv) /\ m.op = "member" /\ m.on = q
                             /\ m.src = x /\ m.left = Nobody /\ (m.drv <=> f.drv)
  BY <1>2, <1>q, FrameFacts, NobodyFacts
<1>7. PICK new : new = <<v, m>>
  OBVIOUS
<1>8. new \in Seq(FrameType) /\ Len(new) = 2 /\ new[1] = v /\ new[2] = m /\ 1..Len(new) = {1, 2}
  BY <1>7
<1>9. Moves(t, b, new) /\ Len(new) <= 3
  <2>1. Replace(t, new)
    BY <1>2, <1>4, <1>5, <1>6, <1>7
  <2>2. Moves(t, b, new)
    BY <1>1, <1>8, <2>1
  <2> QED
    BY <1>8, <2>2
<1>10. /\ stack' \in [Threads -> Seq(FrameType)] /\ stack'[t][b + 1] = v /\ stack'[t][b + 2] = m
       /\ Len(stack'[t]) = b + 2
  BY <1>8, <1>9 DEF Moves, Onto
<1>11. TypeOK'
  BY <1>3, <1>10 DEF IInv, TypeOK
<1>12. /\ f.drv => stack'[t][1].op = "claimed"
       /\ \A y \in Bodies : Secured(t, y) => Secured(t, y)'
  BY <1>1, <1>3, <1>9, StillSecured
<1>13. \A y \in Bodies : Dec(f.left, q)[y] > 0 => y \in Quorums
  <2>1. \A y \in Bodies : f.left[y] > 0 => y \in Quorums
    BY <1>1 DEF Popped, FrameOK, ShapeOK
  <2>2. \A y \in Bodies : Dec(f.left, q)[y] > 0 => f.left[y] > 0
    BY <1>2, <1>q, DecEmpty
  <2> QED
    BY <2>1, <2>2
<1>14. FrameOK(t, b + 1)'
  <2>1. ShapeOK(t, b + 1)'
    BY <1>5, <1>10, <1>12, <1>13 DEF ShapeOK, OnQuorum, Outermost
  <2>2. HandleOK(t, b + 1)'
    <3>1. x \in Events => Secured(t, x)
      BY <1>1, <1>2 DEF Popped, FrameOK, HandleOK
    <3> QED
      BY <1>5, <1>10, <1>12, <3>1 DEF HandleOK
  <2>3. body[x].triggered
    BY <1>1, <1>2 DEF Popped, FrameOK, OnceOK
  <2>4. OnceOK(stack[t][b + 1])' /\ CullOK(t, b + 1)' /\ NomemOK(t, b + 1)'
    BY <1>3, <1>5, <1>10, <2>3 DEF OnceOK, CullOK, NomemOK
  <2> QED
    BY <2>1, <2>2, <2>4 DEF FrameOK
<1>15. FrameOK(t, b + 2)'
  <2>1. ShapeOK(t, b + 2)'
    <3>1. b + 2 > 1 /\ (b + 2) - 1 = b + 1
      OBVIOUS
    <3>2. Is(t, (b + 2) - 1, "inform", x)'
      BY <1>5, <1>10, <3>1 DEF Is
    <3> QED
      BY <1>6, <1>10, <1>12, <3>1, <3>2 DEF ShapeOK, Outermost
  <2>2. HandleOK(t, b + 2)' /\ OnceOK(stack[t][b + 2])' /\ CullOK(t, b + 2)' /\ NomemOK(t, b + 2)'
    BY <1>6, <1>10 DEF HandleOK, OnceOK, CullOK, NomemOK
  <2> QED
    BY <2>1, <2>2 DEF FrameOK
<1>16. \A j \in 1..Len(new) : FrameOK(t, b + j)'
  BY <1>8, <1>14, <1>15
<1>17. \A y \in Bodies : BodyOK(y, body'[y]) /\ BodyStep(t, b, new, y)
  <2>1. f.op \notin Owners /\ \A j \in 1..Len(new) : new[j].op \notin Owners
    BY <1>1, <1>5, <1>6, <1>8 DEF Owners
  <2> QED
    BY <1>1, <1>3, <1>9, <2>1, StillBodies
<1>18. RefInv'
  <2>1. ASSUME NEW y \in Bodies
        PROVE  body'[y].ref = body[y].ref - PopWeight(t, b, y)
                    + Weight(new, 1, y) + Weight(new, 2, y) + Weight(new, 3, y)
    <3>1. Counts(v) <=> Counts(f)
      BY <1>1, <1>2, <1>5 DEF Counts
    <3>2. PopWeight(t, b, y) = Weight(new, 1, y)
      <4>1. PopsCounted(t, b, y) <=> Counts(f) /\ f.on = y
        BY <1>1, PoppedFacts
      <4> QED
        BY <1>2, <1>5, <1>8, <3>1, <4>1 DEF PopWeight, Weight
    <3>3. Weight(new, 2, y) = 0 /\ Weight(new, 3, y) = 0 /\ Weight(new, 1, y) \in {0, 1}
      BY <1>6, <1>8 DEF Weight, Counts
    <3>4. body[y].ref \in Nat /\ body'[y].ref = body[y].ref
      BY <1>3, LiveFacts
    <3> QED
      BY <3>2, <3>3, <3>4
  <2> QED
    BY <1>3, <1>9, <2>1, RefPlain
<1>19. CoroutineInv'
  <2>1. ~(Len(stack[t]) = 1 /\ b = 0 /\ stack[t][1].op = "claimed")
    BY <1>1 DEF Popped
  <2> QED
    BY <1>3, <1>9, <2>1, CoroutineStep
<1>20. /\ \A op, y : Pops(t, b, op, y) <=> f.op = op /\ f.on = y
  BY <1>1, PoppedFacts
<1>21. CullEnds(t, b, new) /\ NewFrames(t, b, new)
  <2>1. \A j \in 1..Len(new) : new[j].op \notin Owners /\ (new[j].op = "inform" => j = 1 /\ new[j].on = x)
    BY <1>5, <1>6, <1>8 DEF Owners
  <2> QED
    BY <1>1, <1>2, <1>20, <2>1 DEF CullEnds, NewFrames
<1>22. LinkOK(x)'
  <2>1. Informs(x)'
    <3>1. b + 1 \in 1..Len(stack'[t])
      BY <1>10
    <3> QED
      BY <1>5, <1>10, <3>1 DEF Informs, Is
  <2>2. ASSUME NEW u \in Threads, NEW k \in 1..Len(stack'[u]), Is(u, k, "inform", x)', NEW y \in Bodies
        PROVE  body'[y].members[x] = Telling(u, k, y)'
    <3>1. u = t /\ k - b \in 1..Len(new) /\ k = b + (k - b) /\ stack'[u][k] = new[k - b]
      BY <1>1, <1>2, <1>9, <1>20, <2>2, OnlyInform, SMTT(60)
    <3>2. u = t /\ k = b + 1
      BY <1>6, <1>8, <2>2, <3>1 DEF Is
    <3>3. body[y].members[x] = Telling(t, b + 1, y)
      <4>1. b + 1 \in 1..Len(stack[t]) /\ stack[t][b + 1] = f
        BY <1>1 DEF Popped
      <4> QED
        BY <1>1, <1>2, <4>1 DEF IInv, LinkInv
    <3>4. Telling(t, b + 1, y) = f.left[y]
      <4>1. stack[t][b + 1] = f /\ ~(b + 1 < Len(stack[t])) /\ f.left[y] \in Nat
        BY <1>1, <1>2 DEF Popped
      <4> QED
        BY <4>1 DEF Telling
    <3>5. Telling(t, b + 1, y)' = Dec(f.left, q)[y] + (IF y = q THEN 1 ELSE 0)
      <4>1. b + 1 < Len(stack'[t]) /\ b + 1 + 1 = b + 2
        BY <1>10
      <4>2. Is(t, b + 1 + 1, "member", y)' <=> y = q
        BY <1>6, <1>10, <4>1 DEF Is
      <4>3. stack'[t][b + 1].left[y] = Dec(f.left, q)[y]
        BY <1>5, <1>10
      <4> QED
        BY <4>1, <4>2, <4>3 DEF Telling
    <3>6. f.left[y] = Dec(f.left, q)[y] + (IF y = q THEN 1 ELSE 0)
      BY <1>2, <1>4, <1>q, VisitedOnce
    <3>7. Telling(u, k, y)' = Telling(t, b + 1, y)'
      BY <3>2
    <3> QED
      BY <1>3, <3>3, <3>4, <3>5, <3>6, <3>7
  <2> QED
    BY <2>1, <2>2 DEF LinkOK
<1>23. ASSUME NEW y \in Bodies, y # x PROVE LinkSame(t, b, new, y)
  <2>1. ~(Len(stack[t]) = b + 1 /\ stack[t][b + 1].op = "member" /\ stack[t][b + 1].src = y)
    BY <1>1 DEF Popped
  <2>2. \A j \in 1..Len(new) : /\ ~(new[j].op = "inform" /\ new[j].on = y)
                               /\ ~(new[j].op = "member" /\ new[j].src = y)
    BY <1>5, <1>6, <1>8, <1>23
  <2> QED
    BY <1>2, <1>3, <1>20, <1>23, <2>1, <2>2 DEF LinkSame
<1>24. HeldStep(t, b) /\ QueueStep
  BY <1>3, HeldKept, QueueSame
<1>25. WholeStep(t, b, new)
  BY <1>1, <1>9, <1>11, <1>16, <1>17, <1>18, <1>19, <1>21, <1>22, <1>23, <1>24 DEF WholeStep
<1> QED
  BY <1>25, WholeInv

LEMMA PostInv ==
    ASSUME Prompt, IInv, NEW t \in Threads, Post(t)
    PROVE  IInv'
<1>1. PICK b \in Nat, f \in FrameType :
         /\ Popped(t, b, f) /\ f = Top(t) /\ f.op = "inform" /\ Runs(t)
         /\ \A new \in Seq(FrameType) : Replace(t, new) => Moves(t, b, new)
  BY InFacts DEF Post
<1>2. PICK x \in Bodies : x = f.on /\ f.left = Nobody
  BY <1>1 DEF Popped, Post
<1>3. held' = held /\ at' = at /\ coh' = coh
  BY DEF Post
<1>4. PICK D \in SUBSET Threads : D = f.to /\ IsFiniteSet(D) /\ Cardinality(D) \in Nat
  <2>1. f.to \in SUBSET Threads
    BY DEF FrameType
  <2>2. IsFiniteSet(f.to)
    BY <2>1, FS_Subset, QuorumAssumption
  <2> QED
    BY <2>1, <2>2, FS_CardinalityType
<1>5. PICK n \in Nat : n = Cardinality(D)
  BY <1>4
<1>6. PICK c : c = Refs(body[x], n) /\ body' = [body EXCEPT ![x] = c]
  BY <1>1, <1>2, <1>4, <1>5 DEF Post
<1>7. queue' = [d \in Threads |-> IF d \in D THEN Append(queue[d], x) ELSE queue[d]]
  BY <1>1, <1>2, <1>4 DEF Post
<1>8. /\ ~PopsOwner(t, b, x) /\ (x \in Quorums => PopsCounted(t, b, x))
      /\ \A op : Pops(t, b, op, x) <=> f.op = op
      /\ body[x] \in BodyType /\ BodyOK(x, body[x]) /\ body[x].ref \in Nat
      /\ body[x].members \in [Bodies -> Nat] /\ (x \in Quorums <=> x \notin Events)
      /\ b = 0 => ~Private(t, x)
  <2>1. OnBody(t, b, f, x)
    BY <1>1, <1>2, CallOn
  <2> QED
    BY <1>1, <1>2, <2>1 DEF OnBody, Owners, Counts
<1>9. body[x].ref >= 1 /\ body[x].life = "live"
  <2>1. body[x].ref >= 1
    <3>1. CASE x \in Quorums
      <4>1. OnBody(t, b, f, x)
        BY <1>1, <1>2, CallOn
      <4> QED
        BY <1>1, <1>2, <3>1, <4>1 DEF OnBody, Counts
    <3>2. CASE x \in Events
      <4>1. Secured(t, x)
        BY <1>1, <1>2, <3>2 DEF Popped, FrameOK, HandleOK
      <4>2. CASE held[t][x] > 0
        <5>1. HeldCount(x) >= 1
          BY <4>2, Referrers DEF IInv
        <5> QED
          BY <5>1, FiniteRefs
      <4>3. CASE Is(t, 1, "claimed", x)
        <5>1. 1 \in 1..Len(stack[t])
          BY <1>1 DEF Popped
        <5>2. Counts(stack[t][1]) /\ stack[t][1].on = x
          BY <4>3 DEF Is, Counts
        <5>3. CallCount(x) >= 1
          BY <5>1, <5>2, Referrers DEF IInv
        <5> QED
          BY <5>3, FiniteRefs
      <4> QED
        BY <4>1, <4>2, <4>3 DEF Secured
    <3> QED
      BY <1>8, <3>1, <3>2
  <2>2. body[x].ref > 0 => body[x].life = "live"
    BY LiveFacts
  <2> QED
    BY <1>8, <2>1, <2>2
<1>10. /\ c \in BodyType /\ BodyOK(x, c) /\ c.life = "live" /\ (c.lock <=> body[x].lock)
       /\ (c.triggered <=> body[x].triggered) /\ c.ref = body[x].ref + n /\ (c.nomem <=> body[x].nomem)
       /\ c.quorums = body[x].quorums /\ c.coroutines = body[x].coroutines /\ c.members = body[x].members
  BY <1>5, <1>6, <1>8, <1>9, RefsFacts, BodyOKFacts
<1>11. body' \in [Bodies -> BodyType] /\ body'[x] = c /\ \A y \in Bodies : y # x => body'[y] = body[y]
  BY <1>6, <1>10 DEF IInv, TypeOK
<1>12. body[x].triggered /\ body[x].quorums = Nobody
  <2>1. body[x].triggered
    BY <1>1, <1>2 DEF Popped, FrameOK, OnceOK
  <2> QED
    BY <1>8, <2>1 DEF BodyOK
<1>13. PICK g \in FrameType : g = Release(x) /\ g.on = x /\ Counts(g) /\ g.op \in {"drop", "deref"}
  BY ReleaseFacts
<1>14. PICK new \in Seq(FrameType) :
          /\ Replace(t, new) /\ Len(new) <= 3
          /\ \A j \in 1..Len(new) : j = 1 /\ new[j] = g
          /\ \A y : /\ Weight(new, 1, y) = IF x \in Quorums /\ x = y THEN 1 ELSE 0
                    /\ Weight(new, 2, y) = 0 /\ Weight(new, 3, y) = 0
  <2>1. CASE x \in Quorums
    <3>1. PICK new : new = <<g>>
      OBVIOUS
    <3>2. /\ new \in Seq(FrameType) /\ Len(new) = 1 /\ new[1] = g /\ 1..Len(new) = {1}
          /\ \A y : /\ Weight(new, 1, y) = IF x = y THEN 1 ELSE 0
                    /\ Weight(new, 2, y) = 0 /\ Weight(new, 3, y) = 0
      BY <1>13, <3>1, OneCall
    <3>3. Replace(t, new)
      BY <1>1, <1>2, <1>13, <2>1, <3>1 DEF Post
    <3>4. Len(new) <= 3
      BY <3>2
    <3> QED
      BY <2>1, <3>2, <3>3, <3>4
  <2>2. CASE x \notin Quorums
    <3>1. PICK new : new = << >>
      OBVIOUS
    <3>2. /\ new \in Seq(FrameType) /\ Len(new) = 0
          /\ \A y : Weight(new, 1, y) = 0 /\ Weight(new, 2, y) = 0 /\ Weight(new, 3, y) = 0
      BY <3>1, NoCalls
    <3>3. Replace(t, new)
      BY <1>1, <1>2, <2>2, <3>1 DEF Post
    <3>4. Len(new) <= 3 /\ 1..Len(new) = {}
      BY <3>2
    <3> QED
      BY <2>2, <3>2, <3>3, <3>4
  <2> QED
    BY <2>1, <2>2
<1>15. Moves(t, b, new)
  BY <1>1, <1>14
<1>16. /\ stack' \in [Threads -> Seq(FrameType)]
       /\ \A j \in 1..Len(new) : stack'[t][b + j] = Release(x)
  BY <1>13, <1>14, <1>15 DEF Moves, Onto
<1>17. queue' \in [Threads -> Seq(Bodies)] /\ QueueStep
  <2>0. queue \in [Threads -> Seq(Bodies)]
    BY DEF IInv, TypeOK
  <2>1. ASSUME NEW u \in Threads
        PROVE /\ Append(queue[u], x) \in Seq(Bodies)
              /\ \A i \in 1..Len(Append(queue[u], x)) :
                 Append(queue[u], x)[i] = x \/ (i \in 1..Len(queue[u]) /\ Append(queue[u], x)[i] = queue[u][i])
    BY <2>0
  <2>2. queue' \in [Threads -> Seq(Bodies)]
    BY <1>7, <2>0, <2>1
  <2>3. ASSUME NEW u \in Threads, NEW i \in 1..Len(queue'[u])
        PROVE  \/ \E j \in 1..Len(queue[u]) : queue'[u][i] = queue[u][j] /\ queue'[u][i] \in Bodies
               \/ queue'[u][i] \in Quorums => body'[queue'[u][i]].triggered
    <3>1. queue'[u][i] \in Bodies
      BY <2>2, ElementOfSeq
    <3>2. CASE u \in D
      <4>1. queue'[u] = Append(queue[u], x)
        BY <1>7, <3>2
      <4>2. queue'[u][i] = x \/ (i \in 1..Len(queue[u]) /\ queue'[u][i] = queue[u][i])
        BY <2>1, <4>1
      <4>3. body'[x].triggered
        BY <1>10, <1>11, <1>12
      <4> QED
        BY <3>1, <4>2, <4>3
    <3>3. CASE u \notin D
      BY <1>7, <2>0, <3>1, <3>3
    <3> QED
      BY <3>2, <3>3
  <2> QED
    BY <2>2, <2>3 DEF QueueStep
<1>18. TypeOK'
  BY <1>3, <1>11, <1>16, <1>17 DEF IInv, TypeOK
<1>19. \A j \in 1..Len(new) : FrameOK(t, b + j)'
  BY <1>16, ReleaseOK
<1>20. \A y \in Bodies : ~NewOwner(new, y)
  BY <1>13, <1>14 DEF NewOwner, Owners
<1>21. ASSUME NEW y \in Bodies
       PROVE  /\ BodyOK(y, body'[y]) /\ BodyStep(t, b, new, y)
              /\ body'[y].members = body[y].members /\ body'[y].quorums = body[y].quorums
              /\ body'[y].coroutines \subseteq body[y].coroutines
              /\ body'[y].ref = body[y].ref + (IF x = y THEN n ELSE 0)
  <2>1. CASE y = x
    <3>1. \A z \in Bodies : body'[x].members[z] <= body[x].members[z]
      BY <1>8, <1>10, <1>11
    <3>2. body'[x].ref # 0 /\ body[x].ref # 0
      BY <1>8, <1>9, <1>10, <1>11
    <3>3. BodyStep(t, b, new, x)
      BY <1>8, <1>10, <1>11, <1>20, <3>1, <3>2 DEF BodyStep, RefStep, PrivateStep, DeleteStep
    <3> QED
      BY <1>10, <1>11, <2>1, <3>3
  <2>2. CASE y # x
    <3>1. ~PopsOwner(t, b, y)
      BY <1>1, <1>2, <2>2, PoppedFacts
    <3>2. BodyStep(t, b, new, y)
      BY <1>11, <1>15, <1>20, <2>2, <3>1, SameBody DEF IInv
    <3>3. BodyOK(y, body[y]) /\ body[y].ref \in Nat
      BY LiveFacts
    <3> QED
      BY <1>11, <2>2, <3>2, <3>3
  <2> QED
    BY <2>1, <2>2
<1>22. RefInv'
  <2>1. ASSUME NEW y \in Bodies
        PROVE  /\ IsFiniteSet(HeldRefs(y)') /\ IsFiniteSet(QueueRefs(y)')
               /\ IsFiniteSet(AtRefs(y)') /\ IsFiniteSet(MemRefs(y)')
               /\ body'[y].ref = HeldCount(y)' + QueueCount(y)' + AtCount(y)' + MemCount(y)'
                    + (CallCount(y) - PopWeight(t, b, y)
                       + Weight(new, 1, y) + Weight(new, 2, y) + Weight(new, 3, y))
    <3>1. /\ HeldCount(y) \in Nat /\ QueueCount(y) \in Nat /\ AtCount(y) \in Nat
          /\ MemCount(y) \in Nat /\ CallCount(y) \in Nat
          /\ body[y].ref = HeldCount(y) + QueueCount(y) + AtCount(y) + MemCount(y) + CallCount(y)
          /\ IsFiniteSet(QueueRefs(y)) /\ IsFiniteSet(MemRefs(y))
      BY FiniteRefs
    <3>2. /\ IsFiniteSet(AtRefs(y)') /\ AtCount(y)' = AtCount(y)
          /\ IsFiniteSet(HeldRefs(y)') /\ HeldCount(y)' = HeldCount(y)
      BY <1>3, IdleKeeps
    <3>3. IsFiniteSet(QueueRefs(y)') /\ QueueCount(y)' = QueueCount(y) + (IF x = y THEN n ELSE 0)
      <4>1. TypeOK
        BY DEF IInv
      <4> QED
        BY <1>4, <1>5, <1>7, <3>1, <4>1, QueuePost
    <3>4. MemRefs(y)' = MemRefs(y) /\ MemCount(y)' = MemCount(y)
      BY <1>21, MemSame
    <3>5. PICK w \in {0, 1} : w = (IF x \in Quorums /\ x = y THEN 1 ELSE 0)
      OBVIOUS
    <3>6. PICK a \in Nat : a = (IF x = y THEN n ELSE 0)
      OBVIOUS
    <3>7. PopWeight(t, b, y) = w
      <4>1. PopsCounted(t, b, y) <=> Counts(f) /\ f.on = y
        BY <1>1, PoppedFacts
      <4>2. Counts(f) <=> x \in Quorums
        BY <1>1, <1>2 DEF Counts
      <4> QED
        BY <1>2, <3>5, <4>1, <4>2 DEF PopWeight
    <3>8. Weight(new, 1, y) = w /\ Weight(new, 2, y) = 0 /\ Weight(new, 3, y) = 0
      BY <1>14, <3>5
    <3>9. body'[y].ref = body[y].ref + a /\ QueueCount(y)' = QueueCount(y) + a
      BY <1>21, <3>3, <3>6
    <3>10. body[y].ref + a = HeldCount(y) + (QueueCount(y) + a) + AtCount(y) + MemCount(y)
                             + (CallCount(y) - w + w + 0 + 0)
      BY <3>1, SMTT(60)
    <3>11. body'[y].ref = HeldCount(y)' + QueueCount(y)' + AtCount(y)' + MemCount(y)'
                    + (CallCount(y) - PopWeight(t, b, y)
                       + Weight(new, 1, y) + Weight(new, 2, y) + Weight(new, 3, y))
      BY <3>2, <3>4, <3>7, <3>8, <3>9, <3>10
    <3> QED
      BY <3>1, <3>2, <3>3, <3>4, <3>11
  <2> QED
    BY <1>14, <1>15, <2>1, RefAfter
<1>23. CoroutineInv'
  <2>1. ~(Len(stack[t]) = 1 /\ b = 0 /\ stack[t][1].op = "claimed")
    BY <1>1 DEF Popped
  <2> QED
    BY <1>3, <1>15, <1>21, <2>1, CoroutineStep
<1>24. \A op, y : Pops(t, b, op, y) <=> f.op = op /\ f.on = y
  BY <1>1, PoppedFacts
<1>25. CullEnds(t, b, new) /\ NewFrames(t, b, new)
  BY <1>1, <1>13, <1>14, <1>24 DEF CullEnds, NewFrames
<1>26. LinkOK(x)'
  <2>1. ASSUME NEW u \in Threads, NEW k \in 1..Len(stack'[u]), Is(u, k, "inform", x)'
        PROVE  FALSE
    <3>0. Pops(t, b, "inform", x)
      BY <1>1, <1>2, <1>24
    <3>1. u = t /\ k - b \in 1..Len(new) /\ k = b + (k - b) /\ stack'[u][k] = new[k - b]
      BY <1>15, <2>1, <3>0, OnlyInform
    <3> QED
      BY <1>13, <1>14, <2>1, <3>1 DEF Is
  <2>2. ASSUME NEW q \in Bodies PROVE body'[q].members[x] = body'[x].quorums[q]
    <3>1. b + 1 \in 1..Len(stack[t]) /\ stack[t][b + 1] = f /\ ~(b + 1 < Len(stack[t]))
      BY <1>1 DEF Popped
    <3>2. body[q].members[x] = Telling(t, b + 1, q)
      BY <1>1, <1>2, <3>1 DEF IInv, LinkInv
    <3>3. Telling(t, b + 1, q) = 0
      BY <1>2, <3>1, NobodyFacts DEF Telling
    <3>4. body'[x].quorums[q] = 0
      BY <1>10, <1>11, <1>12, NobodyFacts
    <3> QED
      BY <1>21, <3>2, <3>3, <3>4
  <2> QED
    BY <2>1, <2>2 DEF LinkOK
<1>27. ASSUME NEW y \in Bodies, y # x PROVE LinkSame(t, b, new, y)
  <2>1. ~(Len(stack[t]) = b + 1 /\ stack[t][b + 1].op = "member" /\ stack[t][b + 1].src = y)
    BY <1>1 DEF Popped
  <2>2. \A j \in 1..Len(new) : /\ ~(new[j].op = "inform" /\ new[j].on = y)
                               /\ ~(new[j].op = "member" /\ new[j].src = y)
    BY <1>13, <1>14
  <2> QED
    BY <1>2, <1>21, <1>24, <1>27, <2>1, <2>2 DEF LinkSame
<1>28. HeldStep(t, b)
  BY <1>3, HeldKept
<1>29. WholeStep(t, b, new)
  BY <1>1, <1>15, <1>17, <1>18, <1>19, <1>21, <1>22, <1>23, <1>25, <1>26, <1>27, <1>28 DEF WholeStep
<1> QED
  BY <1>29, WholeInv

\* A quorum that is told of a member has it in its list.
LEMMA MemberFacts ==
    ASSUME IInv, NEW t \in Threads, NEW b \in Nat, NEW f, Popped(t, b, f), f.op = "member"
    PROVE  /\ b >= 1 /\ b \in 1..Len(stack[t]) /\ f.src \in Bodies /\ f.on \in Quorums
           /\ Is(t, b, "inform", f.src)
           /\ \A z \in Bodies : body[z].members[f.src] = stack[t][b].left[z] + (IF z = f.on THEN 1 ELSE 0)
           /\ \A z \in Bodies : stack[t][b].left[z] \in Nat
<1>1. b + 1 > 1 /\ Is(t, (b + 1) - 1, "inform", f.src) /\ f.on \in Quorums
  BY DEF Popped, FrameOK, ShapeOK, OnQuorum
<1>2. b >= 1 /\ (b + 1) - 1 = b /\ Len(stack[t]) = b + 1 /\ stack[t][b + 1] = f
  BY <1>1 DEF Popped
<1>3. b \in 1..Len(stack[t]) /\ Is(t, b, "inform", f.src) /\ b < Len(stack[t])
  BY <1>1, <1>2
<1>4. stack[t][b] \in FrameType /\ stack[t][b].on \in Bodies
  BY <1>3, CallsOK
<1>5. f.src \in Bodies
  BY <1>3, <1>4 DEF Is
<1>6. ASSUME NEW z \in Bodies
      PROVE  /\ body[z].members[f.src] = stack[t][b].left[z] + (IF z = f.on THEN 1 ELSE 0)
             /\ stack[t][b].left[z] \in Nat
  <2>1. stack[t][b].op = "inform" /\ stack[t][b].on = f.src
    BY <1>3 DEF Is
  <2>2. body[z].members[f.src] = Telling(t, b, z)
    BY <1>3, <2>1 DEF IInv, LinkInv
  <2>3. Is(t, b + 1, "member", z) <=> z = f.on
    BY <1>2 DEF Is
  <2>4. Telling(t, b, z) = stack[t][b].left[z] + (IF z = f.on THEN 1 ELSE 0)
    BY <1>3, <2>3 DEF Telling
  <2> QED
    BY <1>4, <2>2, <2>4 DEF FrameType
<1> QED
  BY <1>1, <1>2, <1>3, <1>5, <1>6

LEMMA MemberInv ==
    ASSUME Prompt, IInv, NEW t \in Threads, Member(t)
    PROVE  IInv'
<1>1. PICK b \in Nat, f \in FrameType :
         /\ Popped(t, b, f) /\ f = Top(t) /\ f.op = "member" /\ Runs(t)
         /\ \A new \in Seq(FrameType) : Replace(t, new) => Moves(t, b, new)
  BY InFacts DEF Member
<1>2. PICK q \in Bodies, x \in Bodies :
         /\ q = f.on /\ q \in Quorums /\ x = f.src /\ b >= 1 /\ b \in 1..Len(stack[t])
         /\ Is(t, b, "inform", x)
         /\ \A z \in Bodies : body[z].members[x] = stack[t][b].left[z] + (IF z = q THEN 1 ELSE 0)
         /\ \A z \in Bodies : stack[t][b].left[z] \in Nat
  BY <1>1, MemberFacts DEF Popped
<1>3. held' = held /\ queue' = queue /\ at' = at /\ coh' = coh /\ ~body[q].lock
  BY <1>1, <1>2 DEF Member
<1>4. body[q].members[x] > 0
  BY <1>2
<1>5. PICK r, s, c : /\ r = Counted(body[q]) /\ s = Lost(r, x) /\ c = Locked(s)
                     /\ body' = [body EXCEPT ![q] = c]
  BY <1>1, <1>2, <1>4 DEF Member
<1>6. /\ ~PopsOwner(t, b, q) /\ \A op : Pops(t, b, op, q) <=> f.op = op
      /\ body[q] \in BodyType /\ BodyOK(q, body[q]) /\ body[q].ref \in Nat
      /\ body[q].members \in [Bodies -> Nat] /\ body[q].life = "live"
  <2>1. OnBody(t, b, f, q)
    BY <1>1, <1>2, CallOn
  <2>2. body[q].life = "live"
    BY <1>4, LiveFacts
  <2> QED
    BY <1>1, <1>2, <2>1, <2>2 DEF OnBody, Owners
<1>7. /\ c \in BodyType /\ BodyOK(q, c) /\ c.life = "live" /\ c.lock
      /\ (c.triggered <=> body[q].triggered) /\ c.ref = body[q].ref /\ (c.nomem <=> body[q].nomem)
      /\ c.quorums = body[q].quorums /\ c.coroutines = body[q].coroutines
      /\ c.members = Dec(body[q].members, x)
  <2>1. /\ r \in BodyType /\ BodyOK(q, r) /\ r.life = "live"
        /\ (r.triggered <=> body[q].triggered) /\ r.ref = body[q].ref /\ (r.nomem <=> body[q].nomem)
        /\ r.quorums = body[q].quorums /\ r.coroutines = body[q].coroutines
        /\ r.members = body[q].members
    BY <1>5, <1>6, CountedFacts, BodyOKFacts
  <2>2. /\ s \in BodyType /\ BodyOK(q, s) /\ s.life = "live"
        /\ (s.triggered <=> body[q].triggered) /\ s.ref = body[q].ref /\ (s.nomem <=> body[q].nomem)
        /\ s.quorums = body[q].quorums /\ s.coroutines = body[q].coroutines
        /\ s.members = Dec(body[q].members, x)
    BY <1>5, <2>1, LostFacts, BodyOKFacts
  <2> QED
    BY <1>5, <2>2, LockedFacts, BodyOKFacts
<1>8. body' \in [Bodies -> BodyType] /\ body'[q] = c /\ \A y \in Bodies : y # q => body'[y] = body[y]
  BY <1>5, <1>7 DEF IInv, TypeOK
<1>9. PICK e \in FrameType : /\ e = [f EXCEPT !.op = "member_end"] /\ e.op = "member_end" /\ e.on = q
                             /\ e.left = Nobody /\ (e.drv <=> f.drv)
  <2>1. f.left = Nobody
    BY <1>1 DEF Popped, FrameOK, ShapeOK
  <2>2. PICK e : e = [f EXCEPT !.op = "member_end"]
    OBVIOUS
  <2>3. e \in FrameType /\ e.op = "member_end" /\ e.on = q /\ e.left = Nobody /\ (e.drv <=> f.drv)
    BY <1>2, <2>1, <2>2 DEF FrameType, Ops
  <2> QED
    BY <2>2, <2>3
<1>10. PICK g \in FrameType : g = Release(x) /\ g.on = x /\ Counts(g) /\ g.op \in {"drop", "deref"}
  BY ReleaseFacts
<1>11. PICK new : new = <<e, g>>
  OBVIOUS
<1>12. new \in Seq(FrameType) /\ Len(new) = 2 /\ new[1] = e /\ new[2] = g /\ 1..Len(new) = {1, 2}
  BY <1>11
<1>13. Moves(t, b, new) /\ Len(new) <= 3
  <2>1. Replace(t, new)
    BY <1>1, <1>2, <1>4, <1>9, <1>10, <1>11 DEF Member
  <2>2. Moves(t, b, new)
    BY <1>1, <1>12, <2>1
  <2> QED
    BY <1>12, <2>2
<1>14. /\ stack' \in [Threads -> Seq(FrameType)] /\ stack'[t][b + 1] = e /\ stack'[t][b + 2] = Release(x)
       /\ stack'[t][b] = stack[t][b] /\ Len(stack'[t]) = b + 2
  <2>1. b \in 1..b
    BY <1>2
  <2> QED
    BY <1>10, <1>12, <1>13, <2>1 DEF Moves, Onto
<1>15. TypeOK'
  BY <1>3, <1>8, <1>14 DEF IInv, TypeOK
<1>16. ~body[q].nomem
  <2>1. ASSUME body[q].nomem PROVE FALSE
    <3>1. body[q].members # Nobody
      BY <1>4, NobodyFacts
    <3>2. PICK u \in Threads : Private(u, q)
      BY <1>2, <1>6, <2>1, <3>1 DEF IInv, NomemInv, Live
    <3>3. stack[u] # << >> /\ stack[u][1].op \in Owners /\ stack[u][1].on = q
      BY <3>2 DEF Private, Is, Owners
    <3>4. 1 \in 1..Len(stack[u])
      <4>1. stack[u] \in Seq(FrameType)
        BY DEF IInv, TypeOK
      <4>2. Len(stack[u]) # 0 /\ Len(stack[u]) \in Nat
        BY <3>3, <4>1, EmptySeq
      <4> QED
        BY <4>2
    <3>5. body[q].lock
      BY <3>3, <3>4 DEF IInv, LockInv
    <3> QED
      BY <1>3, <3>5
  <2> QED
    BY <2>1
<1>17. FrameOK(t, b + 1)'
  <2>1. f.drv => stack'[t][1].op = "claimed"
    BY <1>1, <1>3, <1>13, StillSecured
  <2>2. ShapeOK(t, b + 1)'
    BY <1>2, <1>9, <1>14, <2>1 DEF ShapeOK, Outermost
  <2>3. HandleOK(t, b + 1)' /\ OnceOK(stack[t][b + 1])' /\ CullOK(t, b + 1)'
    BY <1>9, <1>14 DEF HandleOK, OnceOK, CullOK
  <2>4. NomemOK(t, b + 1)'
    BY <1>7, <1>8, <1>9, <1>14, <1>16 DEF NomemOK
  <2> QED
    BY <2>2, <2>3, <2>4 DEF FrameOK
<1>18. FrameOK(t, b + 2)'
  BY <1>14, ReleaseOK
<1>19. \A j \in 1..Len(new) : FrameOK(t, b + j)'
  BY <1>12, <1>17, <1>18
<1>20. \A y \in Bodies : NewOwner(new, y) <=> y = q
  <2>1. 1 \in 1..Len(new) /\ new[1].op \in Owners /\ new[1].on = q /\ new[2].op \notin Owners
    BY <1>9, <1>10, <1>12 DEF Owners
  <2>2. ASSUME NEW y \in Bodies PROVE NewOwner(new, y) <=> y = q
    BY <1>12, <2>1 DEF NewOwner
  <2> QED
    BY <2>2
<1>21. ASSUME NEW y \in Bodies
       PROVE  /\ BodyOK(y, body'[y]) /\ BodyStep(t, b, new, y)
              /\ body'[y].members = (IF y = q THEN Dec(body[y].members, x) ELSE body[y].members)
              /\ body'[y].quorums = body[y].quorums
              /\ body'[y].coroutines \subseteq body[y].coroutines
              /\ body'[y].ref = body[y].ref
  <2>1. CASE y = q
    <3>1. \A z \in Bodies : body'[q].members[z] <= body[q].members[z]
      BY <1>6, <1>7, <1>8, DecEmpty
    <3>2. RefStep(t, b, q) /\ PrivateStep(t, b, q) /\ DeleteStep(new, q)
      BY <1>2, <1>6, <1>7, <1>8 DEF RefStep, PrivateStep, DeleteStep, Live
    <3>3. BodyStep(t, b, new, q)
      BY <1>3, <1>6, <1>7, <1>8, <1>20, <3>1, <3>2 DEF BodyStep
    <3> QED
      BY <1>7, <1>8, <2>1, <3>3
  <2>2. CASE y # q
    <3>1. ~PopsOwner(t, b, y)
      BY <1>1, <1>2, <2>2, PoppedFacts
    <3>2. BodyStep(t, b, new, y)
      BY <1>8, <1>13, <1>20, <2>2, <3>1, SameBody DEF IInv
    <3>3. BodyOK(y, body[y])
      BY LiveFacts
    <3> QED
      BY <1>8, <2>2, <3>2, <3>3
  <2> QED
    BY <2>1, <2>2
<1>22. RefInv'
  <2>1. ASSUME NEW y \in Bodies
        PROVE  /\ IsFiniteSet(HeldRefs(y)') /\ IsFiniteSet(QueueRefs(y)')
               /\ IsFiniteSet(AtRefs(y)') /\ IsFiniteSet(MemRefs(y)')
               /\ body'[y].ref = HeldCount(y)' + QueueCount(y)' + AtCount(y)' + MemCount(y)'
                    + (CallCount(y) - PopWeight(t, b, y)
                       + Weight(new, 1, y) + Weight(new, 2, y) + Weight(new, 3, y))
    <3>1. /\ HeldCount(y) \in Nat /\ QueueCount(y) \in Nat /\ AtCount(y) \in Nat
          /\ MemCount(y) \in Nat /\ CallCount(y) \in Nat
          /\ body[y].ref = HeldCount(y) + QueueCount(y) + AtCount(y) + MemCount(y) + CallCount(y)
          /\ IsFiniteSet(MemRefs(y))
      BY FiniteRefs
    <3>2. /\ IsFiniteSet(AtRefs(y)') /\ AtCount(y)' = AtCount(y)
          /\ IsFiniteSet(HeldRefs(y)') /\ HeldCount(y)' = HeldCount(y)
          /\ IsFiniteSet(QueueRefs(y)') /\ QueueCount(y)' = QueueCount(y)
      BY <1>3, IdleKeeps
    <3>3. IsFiniteSet(MemRefs(y)') /\ MemCount(y)' = MemCount(y) - (IF x = y THEN 1 ELSE 0)
      <4>1. TypeOK
        BY DEF IInv
      <4>2. \A z \in Bodies : body'[z].members = IF z = q THEN Dec(body[z].members, x) ELSE body[z].members
        BY <1>21
      <4> QED
        BY <1>4, <3>1, <4>1, <4>2, MemDec
    <3>4. PICK w \in {0, 1} : w = (IF x = y THEN 1 ELSE 0)
      OBVIOUS
    <3>5. PopWeight(t, b, y) = 0
      <4>1. PopsCounted(t, b, y) <=> Counts(f) /\ f.on = y
        BY <1>1, PoppedFacts
      <4> QED
        BY <1>1, <4>1 DEF PopWeight, Counts
    <3>6. Weight(new, 1, y) = 0 /\ Weight(new, 2, y) = w /\ Weight(new, 3, y) = 0
      <4>1. ~Counts(e)
        BY <1>9 DEF Counts
      <4> QED
        BY <1>10, <1>12, <3>4, <4>1 DEF Weight
    <3>7. PICK m : m = MemCount(y) - w
      OBVIOUS
    <3>8. HeldCount(y) + QueueCount(y) + AtCount(y) + MemCount(y) + CallCount(y)
            = HeldCount(y) + QueueCount(y) + AtCount(y) + m + (CallCount(y) - 0 + 0 + w + 0)
      BY <3>1, <3>7
    <3>9. MemCount(y)' = m /\ body'[y].ref = body[y].ref
      BY <1>21, <3>3, <3>4, <3>7
    <3>10. body'[y].ref = HeldCount(y)' + QueueCount(y)' + AtCount(y)' + MemCount(y)'
                    + (CallCount(y) - PopWeight(t, b, y)
                       + Weight(new, 1, y) + Weight(new, 2, y) + Weight(new, 3, y))
      BY <3>1, <3>2, <3>5, <3>6, <3>8, <3>9
    <3> QED
      BY <3>2, <3>3, <3>10
  <2> QED
    BY <1>13, <2>1, RefAfter
<1>23. CoroutineInv'
  <2>1. ~(Len(stack[t]) = 1 /\ b = 0 /\ stack[t][1].op = "claimed")
    BY <1>2
  <2> QED
    BY <1>3, <1>13, <1>21, <2>1, CoroutineStep
<1>24. \A op, y : Pops(t, b, op, y) <=> f.op = op /\ f.on = y
  BY <1>1, PoppedFacts
<1>25. CullEnds(t, b, new) /\ NewFrames(t, b, new)
  <2>1. \A j \in 1..Len(new) : new[j].op # "inform" /\ (new[j].op \in Owners => j = 1)
    BY <1>9, <1>10, <1>12 DEF Owners
  <2> QED
    BY <1>1, <1>24, <2>1 DEF CullEnds, NewFrames
<1>26. LinkOK(x)'
  <2>0. b \in 1..Len(stack'[t]) /\ Is(t, b, "inform", x)'
    BY <1>2, <1>14 DEF Is
  <2>1. Informs(x)'
    BY <2>0 DEF Informs
  <2>2. ASSUME NEW u \in Threads, NEW k \in 1..Len(stack'[u]), Is(u, k, "inform", x)', NEW y \in Bodies
        PROVE  body'[y].members[x] = Telling(u, k, y)'
    <3>1. u = t /\ k = b
      <4>1. \A v \in Threads : \A i \in 1..Len(stack'[v]) :
               \/ /\ i \in 1..Len(stack[v]) /\ stack'[v][i] = stack[v][i]
                  /\ v = t => i <= b
               \/ /\ v = t /\ i - b \in 1..Len(new) /\ stack'[v][i] = new[i - b] /\ i = b + (i - b)
        BY <1>13, MovesFacts, SMTT(60) DEF IInv
      <4>2. \A j \in 1..Len(new) : new[j].op # "inform"
        BY <1>9, <1>10, <1>12
      <4>3. k \in 1..Len(stack[u]) /\ Is(u, k, "inform", x)
        BY <2>2, <4>1, <4>2 DEF Is
      <4> QED
        BY <1>2, <4>3 DEF IInv, OnceInv
    <3>2. Telling(t, b, y)' = stack[t][b].left[y]
      <4>1. ~Is(t, b + 1, "member", y)'
        BY <1>9, <1>14 DEF Is
      <4>2. stack'[t][b].left[y] = stack[t][b].left[y] /\ stack[t][b].left[y] \in Nat
        BY <1>2, <1>14
      <4> QED
        BY <4>1, <4>2 DEF Telling
    <3>3. body[y].members[x] = body'[y].members[x] + (IF y = q THEN 1 ELSE 0)
      <4>1. body[y].members \in [Bodies -> Nat] /\ body[y].members[x] \in Nat
        BY LiveFacts
      <4>2. CASE y = q
        <5>1. body'[y].members = Dec(body[y].members, x)
          BY <1>21, <4>2
        <5>2. body[y].members[x] = Dec(body[y].members, x)[x] + (IF x = x THEN 1 ELSE 0)
          BY <1>4, <4>1, <4>2, VisitedOnce
        <5> QED
          BY <4>2, <5>1, <5>2
      <4>3. CASE y # q
        BY <1>21, <4>1, <4>3
      <4> QED
        BY <4>2, <4>3
    <3>4. body[y].members[x] = stack[t][b].left[y] + (IF y = q THEN 1 ELSE 0) /\ stack[t][b].left[y] \in Nat
      BY <1>2
    <3>5. body'[y].members[x] \in Nat
      BY <1>8 DEF BodyType
    <3>6. body'[y].members[x] = stack[t][b].left[y]
      BY <3>3, <3>4, <3>5
    <3>7. Telling(u, k, y)' = Telling(t, b, y)'
      BY <3>1
    <3> QED
      BY <3>2, <3>6, <3>7
  <2> QED
    BY <2>1, <2>2 DEF LinkOK
<1>27. ASSUME NEW y \in Bodies, y # x PROVE LinkSame(t, b, new, y)
  <2>1. ~(Len(stack[t]) = b + 1 /\ stack[t][b + 1].op = "member" /\ stack[t][b + 1].src = y)
    BY <1>1, <1>2, <1>27 DEF Popped
  <2>2. \A j \in 1..Len(new) : /\ ~(new[j].op = "inform" /\ new[j].on = y)
                               /\ ~(new[j].op = "member" /\ new[j].src = y)
    BY <1>9, <1>10, <1>12
  <2>3. ASSUME NEW z \in Bodies PROVE body'[z].members[y] = body[z].members[y]
    <3>1. body[z].members \in [Bodies -> Nat]
      BY LiveFacts
    <3> QED
      BY <1>21, <1>27, <3>1, BagFacts
  <2> QED
    BY <1>1, <1>21, <1>24, <2>1, <2>2, <2>3 DEF LinkSame
<1>28. HeldStep(t, b) /\ QueueStep
  BY <1>3, HeldKept, QueueSame
<1>29. WholeStep(t, b, new)
  BY <1>1, <1>13, <1>15, <1>19, <1>21, <1>22, <1>23, <1>25, <1>26, <1>27, <1>28 DEF WholeStep
<1> QED
  BY <1>29, WholeInv

-----------------------------------------------------------------------------
(* The body is triggered, and its lock given back. *)

\* Thread t triggers x, claims coroutine c unless that is None, and has drivers D to post to.
Publishes(t, b, f, x, c, D) ==
    /\ Popped(t, b, f) /\ Runs(t) /\ f.op = "publish" /\ x = f.on
    /\ c # None => c \in body[x].coroutines /\ f.drv /\ Home[c] = t
    /\ coh' = IF c = None THEN coh ELSE [coh EXCEPT ![t] = c]
    /\ body' = [body EXCEPT ![x] =
                   Unlocked([body[x] EXCEPT !.triggered = TRUE, !.quorums = Nobody,
                                            !.coroutines = body[x].coroutines \ {c}])]
    /\ D \in SUBSET Threads
    /\ Replace(t, <<[f EXCEPT !.op = "inform", !.left = body[x].quorums, !.to = D]>>)
    /\ \A new \in Seq(FrameType) : Replace(t, new) => Moves(t, b, new)
    /\ held' = held /\ queue' = queue /\ at' = at

LEMMA PublishesInv ==
    ASSUME Prompt, IInv, NEW t \in Threads, NEW b \in Nat, NEW f \in FrameType,
           NEW x \in Bodies, NEW d, NEW D, Publishes(t, b, f, x, d, D)
    PROVE  IInv'
<1>0. /\ Popped(t, b, f) /\ Runs(t) /\ f.op = "publish" /\ x = f.on
      /\ d # None => d \in body[x].coroutines /\ f.drv /\ Home[d] = t
      /\ held' = held /\ queue' = queue /\ at' = at /\ D \in SUBSET Threads
      /\ \A new \in Seq(FrameType) : Replace(t, new) => Moves(t, b, new)
  BY DEF Publishes
<1>1. /\ PopsOwner(t, b, x) /\ (x \in Quorums => PopsCounted(t, b, x) /\ body[x].ref >= 1)
      /\ \A op : Pops(t, b, op, x) <=> f.op = op
      /\ body[x] \in BodyType /\ BodyOK(x, body[x]) /\ body[x].ref \in Nat
      /\ body[x].members \in [Bodies -> Nat] /\ body[x].quorums \in [Bodies -> Nat]
      /\ body[x].life = "live" /\ body[x].lock
  <2>1. OnBody(t, b, f, x)
    BY <1>0, CallOn
  <2> QED
    BY <1>0, <2>1 DEF OnBody, Owners, Counts
<1>2. ~body[x].triggered
  BY <1>0 DEF Popped, FrameOK, OnceOK
<1>3. PICK r, c : /\ r = [body[x] EXCEPT !.triggered = TRUE, !.quorums = Nobody,
                                         !.coroutines = body[x].coroutines \ {d}]
                  /\ c = Unlocked(r) /\ body' = [body EXCEPT ![x] = c]
  BY DEF Publishes
<1>4. /\ r \in BodyType /\ BodyOK(x, r) /\ r.life = "live" /\ r.triggered
      /\ r.ref = body[x].ref /\ r.quorums = Nobody /\ r.members = body[x].members
      /\ r.coroutines = body[x].coroutines \ {d}
  <2>1. /\ r \in BodyType /\ r.life = "live" /\ r.triggered
        /\ r.ref = body[x].ref /\ r.quorums = Nobody /\ r.members = body[x].members
        /\ r.coroutines = body[x].coroutines \ {d}
    BY <1>1, <1>3, NobodyFacts DEF BodyType
  <2> QED
    BY <1>1, <2>1, NobodyFacts DEF BodyOK
<1>5. /\ c \in BodyType /\ BodyOK(x, c) /\ c.life = "live" /\ ~c.lock
      /\ c.triggered /\ c.ref = body[x].ref /\ (c.nomem <=> c.members = Nobody)
      /\ c.quorums = Nobody /\ c.members = body[x].members
      /\ c.coroutines = body[x].coroutines \ {d}
  <2>1. BodyOK(x, c)
    BY <1>3, <1>4, BodyOKFacts
  <2>2. /\ c \in BodyType /\ c.life = r.life /\ ~c.lock /\ (c.triggered <=> r.triggered) /\ c.ref = r.ref
        /\ (c.nomem <=> r.members = Nobody) /\ c.quorums = r.quorums /\ c.members = r.members
        /\ c.coroutines = r.coroutines
    <3>1. c = Unlocked(r) /\ r \in BodyType
      BY <1>3, <1>4
    <3> QED
      BY ONLY <3>1, UnlockedFacts
  <2> QED
    BY <1>4, <2>1, <2>2
<1>6. body' \in [Bodies -> BodyType] /\ body'[x] = c /\ \A y \in Bodies : y # x => body'[y] = body[y]
  BY <1>3, <1>5 DEF IInv, TypeOK
<1>7. PICK g \in FrameType : /\ g = [f EXCEPT !.op = "inform", !.left = body[x].quorums, !.to = D]
                             /\ g.op = "inform" /\ g.on = x /\ g.left = body[x].quorums /\ (g.drv <=> f.drv)
  <2>1. PICK g : g = [f EXCEPT !.op = "inform", !.left = body[x].quorums, !.to = D]
    OBVIOUS
  <2>2. g \in FrameType /\ g.op = "inform" /\ g.on = x /\ g.left = body[x].quorums /\ (g.drv <=> f.drv)
    BY <1>0, <1>1, <2>1 DEF FrameType, Ops
  <2> QED
    BY <2>1, <2>2
<1>8. PICK new : new = <<g>>
  OBVIOUS
<1>9. /\ new \in Seq(FrameType) /\ Len(new) = 1 /\ new[1] = g /\ 1..Len(new) = {1}
      /\ \A y : ~NewOwner(new, y)
      /\ \A y : /\ Weight(new, 1, y) = IF Counts(g) /\ g.on = y THEN 1 ELSE 0
                /\ Weight(new, 2, y) = 0 /\ Weight(new, 3, y) = 0
  <2>1. g.op \notin Owners
    BY <1>7 DEF Owners
  <2>2. /\ new \in Seq(FrameType) /\ Len(new) = 1 /\ new[1] = g /\ 1..Len(new) = {1}
        /\ \A y : /\ NewOwner(new, y) <=> g.op \in Owners /\ g.on = y
                  /\ Weight(new, 1, y) = IF Counts(g) /\ g.on = y THEN 1 ELSE 0
                  /\ Weight(new, 2, y) = 0 /\ Weight(new, 3, y) = 0
    BY <1>8, OneCall
  <2> QED
    BY <2>1, <2>2
<1>10. Moves(t, b, new) /\ Len(new) <= 3
  <2>1. Replace(t, new)
    BY <1>7, <1>8 DEF Publishes
  <2> QED
    BY <1>0, <1>9, <2>1
<1>11. /\ stack' \in [Threads -> Seq(FrameType)] /\ Len(stack'[t]) = b + 1 /\ stack'[t][b + 1] = g
       /\ \A u \in Threads : u # t => stack'[u] = stack[u]
  BY <1>9, <1>10 DEF Moves, Onto
<1>12. coh' = IF d = None THEN coh ELSE [coh EXCEPT ![t] = d]
  BY DEF Publishes
<1>13. TypeOK'
  <2>1. d # None => d \in Coroutines
    BY <1>0, <1>1 DEF BodyType
  <2> QED
    BY <1>0, <1>6, <1>11, <1>12, <2>1 DEF IInv, TypeOK
<1>14. /\ f.drv => stack'[t][1].op = "claimed"
       /\ \A y \in Bodies : Secured(t, y) => Secured(t, y)'
  BY <1>0, <1>10, StillSecured
<1>15. FrameOK(t, b + 1)'
  <2>1. ShapeOK(t, b + 1)'
    <3>1. \A y \in Bodies : body[x].quorums[y] > 0 => y \in Quorums
      BY <1>1 DEF BodyOK
    <3> QED
      BY <1>7, <1>11, <1>14, <3>1 DEF ShapeOK, OnQuorum, Outermost
  <2>2. HandleOK(t, b + 1)'
    <3>1. x \in Events => Secured(t, x)
      BY <1>0 DEF Popped, FrameOK, HandleOK
    <3> QED
      BY <1>7, <1>11, <1>14, <3>1 DEF HandleOK
  <2>3. OnceOK(stack[t][b + 1])' /\ CullOK(t, b + 1)' /\ NomemOK(t, b + 1)'
    BY <1>5, <1>6, <1>7, <1>11 DEF OnceOK, CullOK, NomemOK
  <2> QED
    BY <2>1, <2>2, <2>3 DEF FrameOK
<1>16. \A j \in 1..Len(new) : FrameOK(t, b + j)'
  BY <1>9, <1>15
<1>17. ASSUME NEW y \in Bodies
       PROVE  /\ BodyOK(y, body'[y]) /\ BodyStep(t, b, new, y)
              /\ body'[y].members = body[y].members /\ (y # x => body'[y].quorums = body[y].quorums)
              /\ body'[y].coroutines \subseteq body[y].coroutines
              /\ body'[y].ref = body[y].ref - PopWeight(t, b, y)
                       + Weight(new, 1, y) + Weight(new, 2, y) + Weight(new, 3, y)
  <2>1. CASE y = x
    <3>1. \A z \in Bodies : body'[x].members[z] <= body[x].members[z]
      BY <1>1, <1>5, <1>6
    <3>2. body'[x].ref = body[x].ref /\ (x \in Quorums => body'[x].ref # 0)
      BY <1>1, <1>5, <1>6
    <3>3. BodyStep(t, b, new, x)
      BY <1>0, <1>1, <1>2, <1>5, <1>6, <1>9, <3>1, <3>2 DEF BodyStep, RefStep, PrivateStep, DeleteStep
    <3>4. PopWeight(t, b, x) = Weight(new, 1, x) /\ PopWeight(t, b, x) \in {0, 1}
      <4>1. PopsCounted(t, b, x) <=> Counts(f) /\ f.on = x
        BY <1>0, PoppedFacts
      <4>2. Counts(g) <=> Counts(f)
        BY <1>0, <1>7 DEF Counts
      <4> QED
        BY <1>0, <1>7, <1>9, <4>1, <4>2 DEF PopWeight
    <3>5. body'[x].ref = body[x].ref - PopWeight(t, b, x)
                       + Weight(new, 1, x) + Weight(new, 2, x) + Weight(new, 3, x)
      BY <1>1, <1>9, <3>2, <3>4
    <3> QED
      BY <1>5, <1>6, <2>1, <3>3, <3>5
  <2>2. CASE y # x
    <3>1. \A j \in 1..Len(new) : Counts(new[j]) \/ new[j].op \in Owners => new[j].on = f.on
      BY <1>0, <1>7, <1>9
    <3> QED
      BY <1>0, <1>6, <1>10, <2>2, <3>1, OtherBodies
  <2> QED
    BY <2>1, <2>2
<1>18. RefInv'
  BY <1>0, <1>10, <1>17, RefPlain
<1>19. CoroutineInv'
  <2>0. /\ CoroutineInv /\ at \in [Coroutines -> Bodies \union {None}] /\ None \notin Bodies \union Coroutines
        /\ coh \in [Threads -> Coroutines \union {None}]
    BY QuorumAssumption DEF IInv, TypeOK
  <2>1. CASE d = None
    <3>1. ~(Len(stack[t]) = 1 /\ b = 0 /\ stack[t][1].op = "claimed")
      BY <1>0 DEF Popped
    <3> QED
      BY <1>0, <1>10, <1>12, <1>17, <2>1, <3>1, CoroutineStep
  <2>2. CASE d # None
    <3>1. \A y \in Bodies : \A e \in body'[y].coroutines : at'[e] = y
      BY <1>0, <1>17, <2>0 DEF CoroutineInv
    <3>2. /\ at[d] = x /\ \A y \in Bodies : d \in body[y].coroutines => at[d] = y
      BY <1>0, <2>0, <2>2 DEF CoroutineInv
    <3>3. ASSUME NEW u \in Threads, coh'[u] # None
          PROVE  /\ \A y \in Bodies : coh'[u] \notin body'[y].coroutines
                 /\ at'[coh'[u]] # None /\ Home[coh'[u]] = u /\ stack'[u] # << >> /\ stack'[u][1].op = "claimed"
      <4>1. CASE u = t
        <5>0. stack'[t] # << >>
          <6>1. stack'[t] \in Seq(FrameType) /\ Len(stack'[t]) # 0
            BY <1>11
          <6> QED
            BY ONLY <6>1, EmptySeq
        <5>1. coh'[u] = d /\ stack'[u] # << >> /\ stack'[u][1].op = "claimed"
          BY <1>0, <1>12, <1>14, <2>0, <2>2, <4>1, <5>0
        <5>2. \A y \in Bodies : d \notin body'[y].coroutines
          BY <1>5, <1>6, <3>2
        <5> QED
          BY <1>0, <2>0, <2>2, <3>2, <4>1, <5>1, <5>2
      <4>2. CASE u # t
        <5>1. coh'[u] = coh[u] /\ stack'[u] = stack[u]
          BY <1>11, <1>12, <2>0, <4>2
        <5>2. /\ \A y \in Bodies : coh[u] \notin body[y].coroutines
              /\ at[coh[u]] # None /\ Home[coh[u]] = u /\ stack[u] # << >> /\ stack[u][1].op = "claimed"
          BY <2>0, <3>3, <5>1 DEF CoroutineInv
        <5> QED
          BY <1>0, <1>17, <5>1, <5>2
      <4> QED
        BY <4>1, <4>2
    <3> QED
      BY <3>1, <3>3 DEF CoroutineInv
  <2> QED
    BY <2>1, <2>2
<1>20. \A op, y : Pops(t, b, op, y) <=> f.op = op /\ f.on = y
  BY <1>0, PoppedFacts
<1>21. CullEnds(t, b, new) /\ NewFrames(t, b, new)
  <2>1. \A j \in 1..Len(new) : j = 1 /\ new[j].op \notin Owners /\ new[j].on = x
    BY <1>7, <1>9 DEF Owners
  <2> QED
    BY <1>0, <1>2, <1>20, <2>1 DEF CullEnds, NewFrames
<1>22. LinkOK(x)'
  <2>0. ASSUME NEW u \in Threads, NEW k \in 1..Len(stack[u]) PROVE ~Is(u, k, "inform", x)
    BY <1>2 DEF IInv, OnceInv, OnceOK, Is
  <2>1. Informs(x)'
    <3>1. b + 1 \in 1..Len(stack'[t])
      BY <1>11
    <3>2. Is(t, b + 1, "inform", x)'
      BY <1>7, <1>11 DEF Is
    <3> QED
      BY <3>1, <3>2 DEF Informs
  <2>2. ASSUME NEW u \in Threads, NEW k \in 1..Len(stack'[u]), Is(u, k, "inform", x)', NEW y \in Bodies
        PROVE  body'[y].members[x] = Telling(u, k, y)'
    <3>1. u = t /\ k = b + 1
      <4>1. \A v \in Threads : \A i \in 1..Len(stack'[v]) :
               \/ /\ i \in 1..Len(stack[v]) /\ stack'[v][i] = stack[v][i]
                  /\ v = t => i <= b
               \/ /\ v = t /\ i - b \in 1..Len(new) /\ stack'[v][i] = new[i - b] /\ i = b + (i - b)
        BY <1>10, MovesFacts, SMTT(60) DEF IInv
      <4>2. ~(k \in 1..Len(stack[u]) /\ stack'[u][k] = stack[u][k])
        BY <2>0, <2>2 DEF Is
      <4> QED
        BY <1>9, <4>1, <4>2
    <3>2. body[y].members[x] = body[x].quorums[y]
      <4>1. ~Informs(x)
        BY <2>0 DEF Informs
      <4> QED
        BY <4>1 DEF IInv, LinkInv
    <3>3. Telling(t, b + 1, y)' = body[x].quorums[y]
      <4>1. ~(b + 1 < Len(stack'[t])) /\ stack'[t][b + 1].left[y] = body[x].quorums[y]
            /\ body[x].quorums[y] \in Nat
        BY <1>1, <1>7, <1>11
      <4> QED
        BY <4>1 DEF Telling
    <3>4. Telling(u, k, y)' = Telling(t, b + 1, y)'
      BY <3>1
    <3> QED
      BY <1>17, <3>2, <3>3, <3>4
  <2> QED
    BY <2>1, <2>2 DEF LinkOK
<1>23. ASSUME NEW y \in Bodies, y # x PROVE LinkSame(t, b, new, y)
  <2>1. ~(Len(stack[t]) = b + 1 /\ stack[t][b + 1].op = "member" /\ stack[t][b + 1].src = y)
    BY <1>0 DEF Popped
  <2>2. \A j \in 1..Len(new) : /\ ~(new[j].op = "inform" /\ new[j].on = y)
                               /\ ~(new[j].op = "member" /\ new[j].src = y)
    BY <1>7, <1>9, <1>23
  <2> QED
    BY <1>0, <1>17, <1>20, <1>23, <2>1, <2>2 DEF LinkSame
<1>24. HeldStep(t, b) /\ QueueStep
  BY <1>0, HeldKept, QueueSame
<1>25. WholeStep(t, b, new)
  BY <1>0, <1>10, <1>13, <1>16, <1>17, <1>18, <1>19, <1>21, <1>22, <1>23, <1>24 DEF WholeStep
<1> QED
  BY <1>25, WholeInv

LEMMA PublishInv ==
    ASSUME Prompt, IInv, NEW t \in Threads, Publish(t)
    PROVE  IInv'
<1>1. PICK b \in Nat, f \in FrameType :
         /\ Popped(t, b, f) /\ f = Top(t) /\ f.op = "publish" /\ Runs(t)
         /\ \A new \in Seq(FrameType) : Replace(t, new) => Moves(t, b, new)
  BY InFacts DEF Publish
<1>2. PICK x \in Bodies : x = f.on
  BY <1>1 DEF Popped
<1>3. PICK mine : mine = Mine(t, x, f.drv)
  OBVIOUS
<1>4. PICK D : D = {Home[e] : e \in body[x].coroutines \ mine}
  OBVIOUS
<1>5. D \in SUBSET Threads
  <2>1. body[x].coroutines \subseteq Coroutines
    BY DEF IInv, TypeOK, BodyType
  <2> QED
    BY <1>4, <2>1, QuorumAssumption
<1>6. PICK d \in IF mine # {} /\ coh[t] = None THEN mine ELSE {None} :
             /\ coh' = IF d = None THEN coh ELSE [coh EXCEPT ![t] = d]
             /\ body' = [body EXCEPT ![x] =
                   Unlocked([body[x] EXCEPT !.triggered = TRUE, !.quorums = Nobody,
                                      !.coroutines = body[x].coroutines \ {d}])]
             /\ Replace(t, <<[f EXCEPT !.op = "inform", !.left = body[x].quorums,
                                       !.to = {Home[e] : e \in body[x].coroutines \ mine}]>>)
  BY <1>1, <1>2, <1>3 DEF Publish
<1>7. d # None => d \in body[x].coroutines /\ f.drv /\ Home[d] = t
  BY <1>3, <1>6 DEF Mine
<1>8. held' = held /\ queue' = queue /\ at' = at
  BY DEF Publish
<1>9. Publishes(t, b, f, x, d, D)
  BY <1>1, <1>2, <1>4, <1>5, <1>6, <1>7, <1>8 DEF Publishes
<1> QED
  BY <1>9, PublishesInv

-----------------------------------------------------------------------------
(* cull_members *)

\* What the loop knows of the member x that it visits.
CullTurn(t, b, f, q, x, v) ==
    /\ Popped(t, b, f) /\ Runs(t) /\ f.op = "cull" /\ q = f.on /\ f.left[x] > 0 /\ q \in Quorums
    /\ b >= 1 /\ body[q].lock /\ x # q /\ body[q].members[x] > 0 /\ body[x].ref >= 1
    /\ body[x].life = "live" /\ body[q].life = "live"
    /\ Is(t, b, "publish", q) \/ Is(t, b, "hard_end", q)
    /\ \A y \in Bodies : ~PopsOwner(t, b, y) /\ ~PopsCounted(t, b, y) /\ PopWeight(t, b, y) = 0
    /\ \A op, y : Pops(t, b, op, y) <=> f.op = op /\ f.on = y
    /\ \A z \in Bodies : f.left[z] <= body[q].members[z]
                         /\ (body[q].members[z] > f.left[z] => body[z].triggered)
    /\ v = Visited(f, x) /\ v \in FrameType /\ v.op = "cull" /\ v.on = q /\ (v.drv <=> f.drv)
    /\ v.left = Dec(f.left, x)

LEMMA CullTurnFacts ==
    ASSUME IInv, NEW t \in Threads, NEW b \in Nat, NEW f \in FrameType, Popped(t, b, f), Runs(t),
           f.op = "cull", NEW x \in Bodies, f.left[x] > 0
    PROVE  \E q \in Bodies, v \in FrameType : CullTurn(t, b, f, q, x, v)
<1>1. PICK q \in Bodies : q = f.on /\ f.left \in [Bodies -> Nat]
  BY DEF Popped
<1>2. /\ OnBody(t, b, f, q)
  BY <1>1, CallOn
<1>3. q \in Quorums /\ b + 1 > 1
  BY <1>1 DEF Popped, FrameOK, ShapeOK, OnQuorum
<1>4. \A z \in Bodies : f.left[z] <= body[q].members[z]
                         /\ (body[q].members[z] > f.left[z] => body[z].triggered)
  BY <1>1 DEF Popped, FrameOK, CullOK
<1>5. body[q].members[x] > 0 /\ x # q
  <2>1. body[q].members[x] \in Nat /\ f.left[x] \in Nat /\ f.left[x] <= body[q].members[x]
    BY <1>1, <1>2, <1>4 DEF OnBody
  <2>2. body[q].members[x] > 0
    BY <2>1
  <2> QED
    BY <1>2, <2>2 DEF OnBody, BodyOK
<1>6. body[x].ref >= 1 /\ body[x].life = "live" /\ body[q].life = "live"
  <2>1. MemCount(x) >= 1
    BY <1>5, Referrers DEF IInv
  <2>2. body[x].ref >= 1
    BY <2>1, FiniteRefs
  <2>3. body[x].ref > 0
    BY <2>2, LiveFacts
  <2> QED
    BY <1>5, <2>2, <2>3, LiveFacts
<1>7. b \in 1..Len(stack[t]) /\ Owns(t, b, q) /\ (Is(t, b, "publish", q) \/ Is(t, b, "hard_end", q))
  <2>1. b + 1 \in 1..Len(stack[t]) /\ Is(t, b + 1, "cull", q)
    BY <1>1 DEF Popped, Is
  <2>2. (b + 1) - 1 = b
    OBVIOUS
  <2> QED
    BY <2>1, <2>2, CullOwner DEF IInv
<1>8. body[q].lock
  BY <1>7 DEF IInv, LockInv, Owns
<1>9. \A y \in Bodies : ~PopsOwner(t, b, y) /\ ~PopsCounted(t, b, y) /\ PopWeight(t, b, y) = 0
  <2>1. f.op \notin Owners /\ ~Counts(f)
    BY DEF Owners, Counts
  <2>2. \A y : (PopsOwner(t, b, y) <=> f.op \in Owners /\ f.on = y)
               /\ (PopsCounted(t, b, y) <=> Counts(f) /\ f.on = y)
    BY PoppedFacts
  <2> QED
    BY <2>1, <2>2 DEF PopWeight
<1>10. \A op, y : Pops(t, b, op, y) <=> f.op = op /\ f.on = y
  BY PoppedFacts
<1>11. PICK v \in FrameType : /\ v = Visited(f, x) /\ v \in FrameType /\ v.op = "cull" /\ v.on = q /\ (v.drv <=> f.drv)
                /\ v.left = Dec(f.left, x)
  BY <1>1, VisitedFacts
<1>12. CullTurn(t, b, f, q, x, v)
  BY <1>1, <1>3, <1>4, <1>5, <1>6, <1>7, <1>8, <1>9, <1>10, <1>11 DEF CullTurn
<1> QED
  BY <1>12

\* The loop goes on.
LEMMA CullGoesOn ==
    ASSUME IInv, NEW t \in Threads, NEW b \in Nat, NEW f \in FrameType, NEW q \in Bodies, NEW x \in Bodies,
           NEW v, CullTurn(t, b, f, q, x, v), NEW new, Moves(t, b, new), held' = held,
           stack'[t][b + 1] = v,
           \A z \in Bodies : v.left[z] <= body'[q].members[z]
                             /\ (body'[q].members[z] > v.left[z] => body'[z].triggered)
    PROVE  FrameOK(t, b + 1)'
<1>1. /\ Popped(t, b, f) /\ f.op = "cull" /\ q = f.on /\ q \in Quorums /\ b >= 1
      /\ Is(t, b, "publish", q) \/ Is(t, b, "hard_end", q)
      /\ v.op = "cull" /\ v.on = q /\ (v.drv <=> f.drv)
  BY DEF CullTurn
<1>2. f.drv => stack'[t][1].op = "claimed"
  BY <1>1, StillSecured
<1>3. stack'[t][b] = stack[t][b]
  <2>1. b \in 1..b
    BY <1>1
  <2> QED
    BY <2>1 DEF Moves, Onto
<1>4. ShapeOK(t, b + 1)'
  <2>1. (b + 1) - 1 = b /\ b + 1 > 1
    BY <1>1
  <2>2. Is(t, (b + 1) - 1, "publish", q)' \/ Is(t, (b + 1) - 1, "hard_end", q)'
    BY <1>1, <1>3, <2>1 DEF Is
  <2> QED
    BY <1>1, <1>2, <2>1, <2>2 DEF ShapeOK, Outermost
<1>5. HandleOK(t, b + 1)' /\ OnceOK(stack[t][b + 1])' /\ NomemOK(t, b + 1)'
  BY <1>1 DEF HandleOK, OnceOK, NomemOK
<1>6. CullOK(t, b + 1)'
  BY <1>1 DEF CullOK
<1> QED
  BY <1>4, <1>5, <1>6 DEF FrameOK

\* A member that has triggered stays.
LEMMA CullStaysInv ==
    ASSUME Prompt, IInv, NEW t \in Threads, NEW b \in Nat, NEW f \in FrameType, NEW q \in Bodies, NEW x \in Bodies,
           NEW v, CullTurn(t, b, f, q, x, v), body[x].triggered, Replace(t, Loop(v)),
           \A new \in Seq(FrameType) : Replace(t, new) => Moves(t, b, new),
           body' = body, held' = held, queue' = queue, at' = at, coh' = coh
    PROVE  IInv'
<1>1. /\ Popped(t, b, f) /\ Runs(t) /\ f.op = "cull" /\ q = f.on /\ f.left[x] > 0 /\ q \in Quorums
      /\ v \in FrameType /\ v.op = "cull" /\ v.on = q
      /\ v.left = Dec(f.left, x) /\ f.left \in [Bodies -> Nat]
      /\ \A y \in Bodies : PopWeight(t, b, y) = 0
      /\ \A op, y : Pops(t, b, op, y) <=> f.op = op /\ f.on = y
  BY DEF CullTurn, Popped
<1>2. ASSUME NEW z \in Bodies
      PROVE  v.left[z] <= body[q].members[z] /\ (body[q].members[z] > v.left[z] => body[z].triggered)
  <2>1. f.left[z] = v.left[z] + (IF z = x THEN 1 ELSE 0) /\ v.left \in [Bodies -> Nat]
    <3>1. f.left[z] = Dec(f.left, x)[z] + (IF z = x THEN 1 ELSE 0)
      BY <1>1, VisitedOnce
    <3>2. Dec(f.left, x) \in [Bodies -> Nat]
      BY <1>1, BagFacts
    <3> QED
      BY <1>1, <3>1, <3>2
  <2>2. body[q].members \in [Bodies -> Nat]
    BY LiveFacts
  <2>3. f.left[z] <= body[q].members[z] /\ (body[q].members[z] > f.left[z] => body[z].triggered)
    BY DEF CullTurn
  <2>4. CASE z = x
    BY <2>1, <2>2, <2>3, <2>4
  <2>5. CASE z # x
    BY <2>1, <2>2, <2>3, <2>5
  <2> QED
    BY <2>4, <2>5
<1>3. PICK new \in Seq(FrameType) :
         /\ Replace(t, new) /\ Len(new) <= 3
         /\ \A j \in 1..Len(new) : j = 1 /\ new[j] = v
         /\ v.left # Nobody => new # << >> /\ new[1] = v
  <2>1. CASE v.left = Nobody
    <3>1. PICK new : new = << >>
      OBVIOUS
    <3>2. new \in Seq(FrameType) /\ Len(new) <= 3 /\ 1..Len(new) = {}
      BY <3>1
    <3>3. Replace(t, new)
      BY <1>1, <2>1, <3>1, LoopFacts
    <3> QED
      BY <2>1, <3>2, <3>3
  <2>2. CASE v.left # Nobody
    <3>1. PICK new : new = <<v>>
      OBVIOUS
    <3>2. new \in Seq(FrameType) /\ Len(new) = 1 /\ Len(new) <= 3 /\ 1..Len(new) = {1} /\ new[1] = v
      BY <1>1, <3>1
    <3>3. Replace(t, new)
      BY <1>1, <2>2, <3>1, LoopFacts
    <3>4. new # << >>
      BY <3>1
    <3> QED
      BY <2>2, <3>2, <3>3, <3>4
  <2> QED
    BY <2>1, <2>2
<1>4. Moves(t, b, new)
  BY <1>3
<1>5. stack' \in [Threads -> Seq(FrameType)] /\ \A j \in 1..Len(new) : j = 1 /\ stack'[t][b + j] = v
  BY <1>3, <1>4 DEF Moves, Onto
<1>6. TypeOK'
  BY <1>5 DEF IInv, TypeOK
<1>7. ASSUME NEW j \in 1..Len(new) PROVE FrameOK(t, b + j)'
  <2>1. stack'[t][b + 1] = v /\ j = 1
    BY <1>5, <1>7
  <2>2. \A z \in Bodies : v.left[z] <= body'[q].members[z]
                             /\ (body'[q].members[z] > v.left[z] => body'[z].triggered)
    BY <1>2
  <2>3. FrameOK(t, b + 1)'
    BY <1>4, <2>1, <2>2, CullGoesOn
  <2> QED
    BY <2>1, <2>3
<1>8. \A j \in 1..Len(new) : /\ j = 1 /\ new[j].op = "cull" /\ new[j].on = q
                             /\ new[j].op \notin Owners /\ ~Counts(new[j])
  BY <1>1, <1>3 DEF Owners, Counts
<1>9. \A y \in Bodies : BodyOK(y, body'[y]) /\ BodyStep(t, b, new, y)
  <2>1. f.op \notin Owners
    BY <1>1 DEF Owners
  <2> QED
    BY <1>1, <1>4, <1>8, <2>1, StillBodies
<1>10. RefInv'
  <2>1. ASSUME NEW y \in Bodies
        PROVE  body'[y].ref = body[y].ref - PopWeight(t, b, y)
                    + Weight(new, 1, y) + Weight(new, 2, y) + Weight(new, 3, y)
    <3>1. Weight(new, 1, y) = 0 /\ Weight(new, 2, y) = 0 /\ Weight(new, 3, y) = 0 /\ PopWeight(t, b, y) = 0
      BY <1>1, <1>8 DEF Weight
    <3>2. body[y].ref \in Nat
      BY LiveFacts
    <3> QED
      BY <3>1, <3>2
  <2> QED
    BY <1>3, <1>4, <2>1, RefPlain
<1>11. CoroutineInv'
  <2>1. ~(Len(stack[t]) = 1 /\ b = 0 /\ stack[t][1].op = "claimed")
    BY <1>1 DEF Popped
  <2> QED
    BY <1>4, <2>1, CoroutineStep
<1>12. CullEnds(t, b, new)
  <2>1. ASSUME v.left = Nobody PROVE Settling(q)'
    <3>1. ASSUME NEW z \in Bodies, body[q].members[z] > 0 PROVE body[z].triggered
      BY <1>2, <2>1, <3>1, NobodyFacts
    <3> QED
      BY <3>1 DEF Settling
  <2>2. v.left # Nobody => new # << >> /\ new[1].op = "cull" /\ new[1].on = q
    BY <1>1, <1>3
  <2> QED
    BY <1>1, <2>1, <2>2 DEF CullEnds
<1>13. NewFrames(t, b, new)
  BY <1>8 DEF NewFrames
<1>14. \A y \in Bodies : LinkSame(t, b, new, y)
  <2>1. Len(stack[t]) = b + 1 => stack[t][b + 1].op \notin {"inform", "member"}
    BY <1>1 DEF Popped
  <2>2. \A j \in 1..Len(new) : new[j].op \notin {"inform", "member"}
    BY <1>8
  <2> QED
    BY <2>1, <2>2, LinkQuiet
<1>15. HeldStep(t, b) /\ QueueStep
  BY HeldKept, QueueSame
<1>16. WholeStep(t, b, new)
  BY <1>1, <1>4, <1>6, <1>7, <1>9, <1>10, <1>11, <1>12, <1>13, <1>14, <1>15 DEF WholeStep
<1> QED
  BY <1>16, WholeInv

\* A member that has not triggered is taken out, and its handle goes.
CullsOut(t, b, f, q, x, v) ==
    /\ CullTurn(t, b, f, q, x, v) /\ ~body[x].triggered /\ ~body[x].lock
    /\ body' = [body EXCEPT ![x] = Without(body[x], q), ![q] = Lost(body[q], x)]
    /\ Replace(t, Loop(v) \o <<Release(x)>>)
    /\ \A new \in Seq(FrameType) : Replace(t, new) => Moves(t, b, new)
    /\ held' = held /\ queue' = queue /\ at' = at /\ coh' = coh

\* The calls that follow: g alone, or the loop around it.
CullNext(v, g) == Loop(v) \o <<g>>

LEMMA CullCalls ==
    ASSUME NEW v \in FrameType, NEW g \in FrameType, NEW new, new = CullNext(v, g)
    PROVE  /\ new \in Seq(FrameType) /\ Len(new) \in {1, 2} /\ Len(new) <= 3
           /\ Len(new) = 1 => v.left = Nobody /\ new[1] = g
           /\ Len(new) = 2 => new[1] = v /\ new[2] = g
<1>1. CASE v.left = Nobody
  <2>1. PICK s : s = <<g>>
    OBVIOUS
  <2>2. s \in Seq(FrameType) /\ Len(s) = 1 /\ s[1] = g
    BY ONLY <2>1, g \in FrameType
  <2>3. new = s
    <3>1. << >> \o s = s
      BY ONLY <2>2, ConcatEmptySeq
    <3> QED
      BY <1>1, <2>1, <3>1, LoopFacts DEF CullNext
  <2>4. Len(new) = 1 /\ new \in Seq(FrameType) /\ new[1] = g
    BY <2>2, <2>3
  <2> QED
    BY <1>1, <2>4
<1>2. CASE v.left # Nobody
  <2>1. PICK s : s = <<v>> \o <<g>>
    OBVIOUS
  <2>2. s \in Seq(FrameType) /\ Len(s) = 2 /\ s[1] = v /\ s[2] = g
    BY ONLY <2>1, v \in FrameType, g \in FrameType, TwoCalls
  <2>3. new = s
    BY <1>2, <2>1, LoopFacts DEF CullNext
  <2>4. Len(new) = 2 /\ new \in Seq(FrameType) /\ new[1] = v /\ new[2] = g
    BY <2>2, <2>3
  <2> QED
    BY <2>4
<1> QED
  BY <1>1, <1>2

LEMMA CullsOutInv ==
    ASSUME Prompt, IInv, NEW t \in Threads, NEW b \in Nat, NEW f \in FrameType, NEW q \in Bodies, NEW x \in Bodies,
           NEW v \in FrameType, CullsOut(t, b, f, q, x, v)
    PROVE  IInv'
<1>0. /\ CullTurn(t, b, f, q, x, v) /\ ~body[x].triggered /\ ~body[x].lock
      /\ \A new \in Seq(FrameType) : Replace(t, new) => Moves(t, b, new)
      /\ held' = held /\ queue' = queue /\ at' = at /\ coh' = coh
  BY DEF CullsOut
<1>1. /\ Popped(t, b, f) /\ Runs(t) /\ f.op = "cull" /\ q = f.on /\ f.left[x] > 0 /\ q \in Quorums
      /\ b >= 1 /\ body[q].lock /\ x # q /\ body[q].members[x] > 0 /\ body[x].ref >= 1
      /\ body[x].life = "live" /\ body[q].life = "live"
      /\ v.op = "cull" /\ v.on = q
      /\ v.left = Dec(f.left, x) /\ f.left \in [Bodies -> Nat]
      /\ \A y \in Bodies : ~PopsOwner(t, b, y) /\ ~PopsCounted(t, b, y) /\ PopWeight(t, b, y) = 0
      /\ \A op, y : Pops(t, b, op, y) <=> f.op = op /\ f.on = y
  BY <1>0 DEF CullTurn, Popped
<1>2. /\ body[x] \in BodyType /\ BodyOK(x, body[x]) /\ body[q] \in BodyType /\ BodyOK(q, body[q])
      /\ body[q].members \in [Bodies -> Nat] /\ body[x].members \in [Bodies -> Nat]
      /\ body[x].ref \in Nat /\ body[q].ref \in Nat /\ body[x].quorums \in [Bodies -> Nat]
  BY LiveFacts
<1>3. PICK c, d : c = Without(body[x], q) /\ d = Lost(body[q], x) /\ body' = [body EXCEPT ![x] = c, ![q] = d]
  BY DEF CullsOut
<1>4. /\ c \in BodyType /\ BodyOK(x, c) /\ c.life = "live" /\ ~c.lock /\ ~c.triggered /\ c.ref = body[x].ref
      /\ (c.nomem <=> c.members = Nobody) /\ c.members = body[x].members
      /\ c.coroutines = body[x].coroutines /\ c.quorums = Dec(body[x].quorums, q)
  <2>1. BodyOK(x, c)
    BY <1>2, <1>3, BodyOKFacts
  <2>2. /\ c \in BodyType /\ c.life = body[x].life /\ ~c.lock /\ (c.triggered <=> body[x].triggered)
        /\ c.ref = body[x].ref /\ (c.nomem <=> body[x].members = Nobody) /\ c.members = body[x].members
        /\ c.coroutines = body[x].coroutines /\ c.quorums = Dec(body[x].quorums, q)
    BY <1>2, <1>3, WithoutFacts
  <2> QED
    BY <1>0, <1>1, <2>1, <2>2
<1>5. /\ d \in BodyType /\ BodyOK(q, d) /\ d.life = "live" /\ d.lock /\ (d.triggered <=> body[q].triggered)
      /\ d.ref = body[q].ref /\ (d.nomem <=> body[q].nomem) /\ d.members = Dec(body[q].members, x)
      /\ d.coroutines = body[q].coroutines /\ d.quorums = body[q].quorums
  <2>1. BodyOK(q, d)
    BY <1>2, <1>3, BodyOKFacts
  <2>2. /\ d \in BodyType /\ d.life = body[q].life /\ (d.lock <=> body[q].lock)
        /\ (d.triggered <=> body[q].triggered)
        /\ d.ref = body[q].ref /\ (d.nomem <=> body[q].nomem) /\ d.members = Dec(body[q].members, x)
        /\ d.coroutines = body[q].coroutines /\ d.quorums = body[q].quorums
    BY <1>2, <1>3, LostFacts
  <2> QED
    BY <1>1, <2>1, <2>2
<1>6. /\ body' \in [Bodies -> BodyType] /\ body'[x] = c /\ body'[q] = d
      /\ \A y \in Bodies : y # x /\ y # q => body'[y] = body[y]
  BY <1>1, <1>3, <1>4, <1>5 DEF IInv, TypeOK
<1>7. PICK g \in FrameType : g = Release(x) /\ g.on = x /\ Counts(g) /\ g.op \in {"drop", "deref"}
  BY ReleaseFacts
<1>8. PICK new : new = CullNext(v, g)
  OBVIOUS
<1>9. /\ new \in Seq(FrameType) /\ Len(new) \in {1, 2} /\ Len(new) <= 3
      /\ Len(new) = 1 => v.left = Nobody /\ new[1] = g /\ 1..Len(new) = {1}
      /\ Len(new) = 2 => new[1] = v /\ new[2] = g /\ 1..Len(new) = {1, 2}
  <2>1. new \in Seq(FrameType) /\ Len(new) \in {1, 2} /\ Len(new) <= 3
    BY <1>8, CullCalls
  <2>2. Len(new) = 1 => v.left = Nobody /\ new[1] = g
    BY <1>8, CullCalls
  <2>3. Len(new) = 2 => new[1] = v /\ new[2] = g
    BY <1>8, CullCalls
  <2>4. (Len(new) = 1 => 1..Len(new) = {1}) /\ (Len(new) = 2 => 1..Len(new) = {1, 2})
    <3>1. 1..1 = {1} /\ 1..2 = {1, 2}
      OBVIOUS
    <3>2. ASSUME Len(new) = 1 PROVE 1..Len(new) = {1}
      BY ONLY <3>1, <3>2
    <3>3. ASSUME Len(new) = 2 PROVE 1..Len(new) = {1, 2}
      BY ONLY <3>1, <3>3
    <3> QED
      BY ONLY <3>2, <3>3
  <2> QED
    BY <2>1, <2>2, <2>3, <2>4
<1>10. Moves(t, b, new)
  <2>1. Replace(t, new)
    BY <1>7, <1>8 DEF CullsOut, CullNext
  <2> QED
    BY <1>0, <1>9, <2>1
<1>11. \A j \in 1..Len(new) : new[j] = g \/ (j = 1 /\ new[j] = v /\ Len(new) = 2)
  BY <1>9
<1>12. /\ stack' \in [Threads -> Seq(FrameType)]
       /\ \A j \in 1..Len(new) : stack'[t][b + j] = new[j]
  BY <1>10 DEF Moves, Onto
<1>13. TypeOK'
  BY <1>0, <1>6, <1>12 DEF IInv, TypeOK
<1>14. ASSUME NEW z \in Bodies
       PROVE  v.left[z] <= body'[q].members[z] /\ (body'[q].members[z] > v.left[z] => body'[z].triggered)
  <2>1. f.left[z] = v.left[z] + (IF z = x THEN 1 ELSE 0) /\ v.left \in [Bodies -> Nat]
    <3>1. f.left[z] = Dec(f.left, x)[z] + (IF z = x THEN 1 ELSE 0)
      BY <1>1, VisitedOnce
    <3>2. Dec(f.left, x) \in [Bodies -> Nat]
      BY <1>1, BagFacts
    <3> QED
      BY <1>1, <3>1, <3>2
  <2>2. body[q].members[z] = body'[q].members[z] + (IF z = x THEN 1 ELSE 0) /\ body'[q].members \in [Bodies -> Nat]
    <3>1. body[q].members[z] = Dec(body[q].members, x)[z] + (IF z = x THEN 1 ELSE 0)
      BY <1>1, <1>2, VisitedOnce
    <3>2. Dec(body[q].members, x) \in [Bodies -> Nat]
      BY <1>2, BagFacts
    <3> QED
      BY <1>5, <1>6, <3>1, <3>2
  <2>3. f.left[z] <= body[q].members[z] /\ (body[q].members[z] > f.left[z] => body[z].triggered)
    BY <1>0 DEF CullTurn
  <2>4. body[z].triggered => body'[z].triggered
    BY <1>0, <1>5, <1>6
  <2>5. CASE z = x
    BY <2>1, <2>2, <2>3, <2>4, <2>5
  <2>6. CASE z # x
    BY <2>1, <2>2, <2>3, <2>4, <2>6
  <2> QED
    BY <2>5, <2>6
<1>15. ASSUME NEW j \in 1..Len(new) PROVE FrameOK(t, b + j)'
  <2>1. CASE new[j] = g
    <3>1. stack'[t][b + j] = Release(x)
      BY <1>7, <1>12, <2>1
    <3> QED
      BY <3>1, ReleaseOK
  <2>2. CASE j = 1 /\ new[j] = v
    <3>1. stack'[t][b + 1] = v
      BY <1>12, <2>2
    <3>2. FrameOK(t, b + 1)'
      BY <1>0, <1>10, <1>14, <3>1, CullGoesOn
    <3> QED
      BY <2>2, <3>2
  <2> QED
    BY <1>11, <2>1, <2>2
<1>16. \A j \in 1..Len(new) : new[j].op \in {"cull", "drop", "deref"} /\ new[j].op \notin Owners
  BY <1>1, <1>7, <1>11 DEF Owners
<1>17. \A y \in Bodies : ~NewOwner(new, y)
  BY <1>16 DEF NewOwner
<1>18. ASSUME NEW y \in Bodies
       PROVE  /\ BodyOK(y, body'[y]) /\ BodyStep(t, b, new, y)
              /\ body'[y].members = (IF y = q THEN Dec(body[y].members, x) ELSE body[y].members)
              /\ body'[y].quorums = (IF y = x THEN Dec(body[y].quorums, q) ELSE body[y].quorums)
              /\ body'[y].coroutines \subseteq body[y].coroutines
              /\ body'[y].ref = body[y].ref
  <2>1. CASE y = q
    <3>1. \A z \in Bodies : body'[q].members[z] <= body[q].members[z]
      BY <1>2, <1>5, <1>6, DecEmpty
    <3>2. RefStep(t, b, q) /\ PrivateStep(t, b, q) /\ DeleteStep(new, q)
      BY <1>1, <1>5, <1>6 DEF RefStep, PrivateStep, DeleteStep, Live
    <3>3. BodyStep(t, b, new, q)
      BY <1>1, <1>5, <1>6, <1>17, <3>1, <3>2 DEF BodyStep
    <3> QED
      BY <1>1, <1>5, <1>6, <2>1, <3>3
  <2>2. CASE y = x
    <3>1. \A z \in Bodies : body'[x].members[z] <= body[x].members[z]
      BY <1>2, <1>4, <1>6
    <3>2. body'[x].ref # 0 /\ body'[x].ref = body[x].ref
      BY <1>1, <1>2, <1>4, <1>6
    <3>3. RefStep(t, b, x) /\ PrivateStep(t, b, x) /\ DeleteStep(new, x)
      BY <1>1, <1>4, <1>6, <3>2 DEF RefStep, PrivateStep, DeleteStep
    <3>4. BodyStep(t, b, new, x)
      BY <1>0, <1>1, <1>4, <1>6, <1>17, <3>1, <3>2, <3>3 DEF BodyStep
    <3> QED
      BY <1>1, <1>4, <1>6, <2>2, <3>4
  <2>3. CASE y # q /\ y # x
    <3>1. BodyStep(t, b, new, y)
      BY <1>1, <1>6, <1>10, <1>17, <2>3, SameBody DEF IInv
    <3>2. BodyOK(y, body[y])
      BY LiveFacts
    <3> QED
      BY <1>6, <2>3, <3>1, <3>2
  <2> QED
    BY <2>1, <2>2, <2>3
<1>19. RefInv'
  <2>1. ASSUME NEW y \in Bodies
        PROVE  /\ IsFiniteSet(HeldRefs(y)') /\ IsFiniteSet(QueueRefs(y)')
               /\ IsFiniteSet(AtRefs(y)') /\ IsFiniteSet(MemRefs(y)')
               /\ body'[y].ref = HeldCount(y)' + QueueCount(y)' + AtCount(y)' + MemCount(y)'
                    + (CallCount(y) - PopWeight(t, b, y)
                       + Weight(new, 1, y) + Weight(new, 2, y) + Weight(new, 3, y))
    <3>1. /\ HeldCount(y) \in Nat /\ QueueCount(y) \in Nat /\ AtCount(y) \in Nat
          /\ MemCount(y) \in Nat /\ CallCount(y) \in Nat
          /\ body[y].ref = HeldCount(y) + QueueCount(y) + AtCount(y) + MemCount(y) + CallCount(y)
          /\ IsFiniteSet(MemRefs(y))
      BY FiniteRefs
    <3>2. /\ IsFiniteSet(AtRefs(y)') /\ AtCount(y)' = AtCount(y)
          /\ IsFiniteSet(HeldRefs(y)') /\ HeldCount(y)' = HeldCount(y)
          /\ IsFiniteSet(QueueRefs(y)') /\ QueueCount(y)' = QueueCount(y)
      BY <1>0, IdleKeeps
    <3>3. IsFiniteSet(MemRefs(y)') /\ MemCount(y)' = MemCount(y) - (IF x = y THEN 1 ELSE 0)
      <4>1. TypeOK
        BY DEF IInv
      <4>2. \A z \in Bodies : body'[z].members = IF z = q THEN Dec(body[z].members, x) ELSE body[z].members
        BY <1>18
      <4> QED
        BY <1>1, <3>1, <4>1, <4>2, MemDec
    <3>4. PICK w \in {0, 1} : w = (IF x = y THEN 1 ELSE 0)
      OBVIOUS
    <3>5. PICK w1 \in {0, 1}, w2 \in {0, 1}, w3 \in {0, 1} :
             /\ w1 = Weight(new, 1, y) /\ w2 = Weight(new, 2, y) /\ w3 = Weight(new, 3, y)
             /\ w1 + w2 + w3 = w
      <4>1. ~Counts(v)
        BY <1>1 DEF Counts
      <4>2. CASE Len(new) = 1
        <5>1. Weight(new, 1, y) = w /\ Weight(new, 2, y) = 0 /\ Weight(new, 3, y) = 0
          BY <1>7, <1>9, <3>4, <4>2 DEF Weight
        <5> QED
          BY <5>1
      <4>3. CASE Len(new) = 2
        <5>1. Weight(new, 1, y) = 0 /\ Weight(new, 2, y) = w /\ Weight(new, 3, y) = 0
          BY <1>7, <1>9, <3>4, <4>1, <4>3 DEF Weight
        <5> QED
          BY <5>1
      <4> QED
        BY <1>9, <4>2, <4>3
    <3>6. PICK m : m = MemCount(y) - w
      OBVIOUS
    <3>7. HeldCount(y) + QueueCount(y) + AtCount(y) + MemCount(y) + CallCount(y)
            = HeldCount(y) + QueueCount(y) + AtCount(y) + m + (CallCount(y) - 0 + w1 + w2 + w3)
      BY <3>1, <3>5, <3>6
    <3>8. MemCount(y)' = m /\ body'[y].ref = body[y].ref /\ PopWeight(t, b, y) = 0
      BY <1>1, <1>18, <3>3, <3>4, <3>6
    <3>9. body'[y].ref = HeldCount(y)' + QueueCount(y)' + AtCount(y)' + MemCount(y)'
                    + (CallCount(y) - PopWeight(t, b, y)
                       + Weight(new, 1, y) + Weight(new, 2, y) + Weight(new, 3, y))
      BY <3>1, <3>2, <3>5, <3>7, <3>8
    <3> QED
      BY <3>2, <3>3, <3>9
  <2> QED
    BY <1>9, <1>10, <2>1, RefAfter
<1>20. CoroutineInv'
  <2>1. ~(Len(stack[t]) = 1 /\ b = 0 /\ stack[t][1].op = "claimed")
    BY <1>1
  <2> QED
    BY <1>0, <1>10, <1>18, <2>1, CoroutineStep
<1>21. CullEnds(t, b, new)
  <2>1. ASSUME Len(new) = 1 PROVE Settling(q)'
    <3>1. ASSUME NEW z \in Bodies, body'[q].members[z] > 0 PROVE body'[z].triggered
      BY <1>9, <1>14, <2>1, <3>1, NobodyFacts
    <3> QED
      BY <3>1 DEF Settling
  <2>2. Len(new) = 2 => new # << >> /\ new[1].op = "cull" /\ new[1].on = q
    <3>1. Len(new) = 2 => new # << >>
      BY ONLY <1>9, EmptySeq
    <3> QED
      BY <1>1, <1>9, <3>1
  <2> QED
    BY <1>1, <1>9, <2>1, <2>2 DEF CullEnds
<1>22. NewFrames(t, b, new)
  BY <1>16 DEF NewFrames
<1>23. LinkOK(x)'
  <2>1. ASSUME NEW u \in Threads, NEW k \in 1..Len(stack[u]) PROVE ~Is(u, k, "inform", x)
    BY <1>0 DEF IInv, OnceInv, OnceOK, Is
  <2>2. ASSUME NEW u \in Threads, NEW k \in 1..Len(stack'[u]) PROVE ~Is(u, k, "inform", x)'
    <3>1. \A u1 \in Threads : \A i \in 1..Len(stack'[u1]) :
             \/ /\ i \in 1..Len(stack[u1]) /\ stack'[u1][i] = stack[u1][i]
                /\ u1 = t => i <= b
             \/ /\ u1 = t /\ i - b \in 1..Len(new) /\ stack'[u1][i] = new[i - b] /\ i = b + (i - b)
      <4>1. TypeOK
        BY DEF IInv
      <4> QED
        BY ONLY <1>10, <4>1, t \in Threads, MovesOrigin
    <3> QED
      BY <1>16, <2>1, <3>1, ZenonT(60) DEF Is
  <2>3. ASSUME NEW y \in Bodies PROVE body'[y].members[x] = body'[x].quorums[y]
    <3>1. body[y].members[x] = body[x].quorums[y]
      <4>1. ~Informs(x)
        BY <2>1 DEF Informs
      <4> QED
        BY <4>1 DEF IInv, LinkInv
    <3>2. body'[x].quorums[y] = IF y # q THEN body[x].quorums[y]
                                ELSE IF body[x].quorums[q] = 0 THEN 0 ELSE body[x].quorums[q] - 1
      BY <1>2, <1>4, <1>6, BagFacts
    <3>3. CASE y = q
      <4>1. body'[q].members[x] = IF body[q].members[x] = 0 THEN 0 ELSE body[q].members[x] - 1
        BY <1>2, <1>5, <1>6, BagFacts
      <4> QED
        BY <3>1, <3>2, <3>3, <4>1
    <3>4. CASE y # q
      BY <1>18, <3>1, <3>2, <3>4
    <3> QED
      BY <3>3, <3>4
  <2> QED
    BY <2>2, <2>3 DEF LinkOK
<1>24. ASSUME NEW y \in Bodies, y # x PROVE LinkSame(t, b, new, y)
  <2>1. ~(Len(stack[t]) = b + 1 /\ stack[t][b + 1].op = "member" /\ stack[t][b + 1].src = y)
    BY <1>1 DEF Popped
  <2>2. \A j \in 1..Len(new) : /\ ~(new[j].op = "inform" /\ new[j].on = y)
                               /\ ~(new[j].op = "member" /\ new[j].src = y)
    BY <1>16
  <2>3. ASSUME NEW z \in Bodies PROVE body'[z].members[y] = body[z].members[y]
    <3>1. body[z].members \in [Bodies -> Nat]
      BY LiveFacts
    <3>2. PICK m \in [Bodies -> Nat] : m = body[z].members
      BY <3>1
    <3>3. Dec(m, x)[y] = m[y]
      <4>1. Dec(m, x)[y] = IF y # x THEN m[y] ELSE IF m[x] = 0 THEN 0 ELSE m[x] - 1
        BY BagFacts
      <4> QED
        BY <1>24, <4>1
    <3> QED
      BY <1>18, <3>2, <3>3
  <2> QED
    BY <1>1, <1>18, <1>24, <2>1, <2>2, <2>3 DEF LinkSame
<1>25. HeldStep(t, b) /\ QueueStep
  BY <1>0, HeldKept, QueueSame
<1>26. WholeStep(t, b, new)
  BY <1>1, <1>10, <1>13, <1>15, <1>18, <1>19, <1>20, <1>21, <1>22, <1>23, <1>24, <1>25 DEF WholeStep
<1> QED
  BY <1>26, WholeInv

LEMMA CullInvKept ==
    ASSUME Prompt, IInv, NEW t \in Threads, Cull(t)
    PROVE  IInv'
<1>1. PICK b \in Nat, f \in FrameType :
         /\ Popped(t, b, f) /\ f = Top(t) /\ f.op = "cull" /\ Runs(t)
         /\ \A new \in Seq(FrameType) : Replace(t, new) => Moves(t, b, new)
  BY InFacts DEF Cull
<1>2. held' = held /\ queue' = queue /\ at' = at /\ coh' = coh
  BY DEF Cull
<1>3. PICK x \in Bodies :
         /\ f.left[x] > 0
         /\ \/ body[x].triggered /\ Replace(t, Loop(Visited(f, x))) /\ body' = body
            \/ /\ ~body[x].triggered /\ ~body[x].lock
               /\ body' = [body EXCEPT ![x] = Without(body[x], f.on), ![f.on] = Lost(body[f.on], x)]
               /\ Replace(t, Loop(Visited(f, x)) \o <<Release(x)>>)
  BY <1>1 DEF Cull, Stays
<1>4. PICK q \in Bodies, v \in FrameType : CullTurn(t, b, f, q, x, v)
  BY <1>1, <1>3, CullTurnFacts
<1>5. q = f.on /\ v = Visited(f, x)
  BY <1>4 DEF CullTurn
<1>6. CASE body[x].triggered
  <2>1. Replace(t, Loop(v)) /\ body' = body
    BY <1>3, <1>5, <1>6
  <2> QED
    BY <1>1, <1>2, <1>4, <1>6, <2>1, CullStaysInv
<1>7. CASE ~body[x].triggered
  <2>1. CullsOut(t, b, f, q, x, v)
    BY <1>1, <1>2, <1>3, <1>4, <1>5, <1>7 DEF CullsOut
  <2> QED
    BY <2>1, CullsOutInv
<1> QED
  BY <1>6, <1>7

-----------------------------------------------------------------------------
(* any() and all() *)

\* What make() knows of the argument x that it adds to q.
MakeTurn(t, b, f, q, x, v) ==
    /\ Popped(t, b, f) /\ Runs(t) /\ f.op = "make" /\ q = f.on /\ f.left[x] > 0 /\ q \in Quorums
    /\ b = 0 /\ body[q].lock /\ x # q /\ held[t][x] > 0 /\ held[t][q] > 0 /\ body[q].ref = 1
    /\ body[q].nomem /\ ~body[q].triggered
    /\ body[x].ref >= 1 /\ body[x].life = "live" /\ body[q].life = "live"
    /\ \A y \in Bodies : (PopsOwner(t, b, y) <=> y = q) /\ PopWeight(t, b, y) = 0
    /\ \A op, y : Pops(t, b, op, y) <=> f.op = op /\ f.on = y
    /\ \A y : Private(t, y) => y = q
    /\ \A z \in Bodies : f.left[z] > 0 => held[t][z] > 0 /\ z # q
    /\ v = Visited(f, x) /\ v \in FrameType /\ v.op = "make" /\ v.on = q /\ ~v.drv
    /\ v.left = Dec(f.left, x)

LEMMA MakeTurnFacts ==
    ASSUME IInv, NEW t \in Threads, NEW b \in Nat, NEW f \in FrameType, Popped(t, b, f), Runs(t),
           f.op = "make", NEW x \in Bodies, f.left[x] > 0
    PROVE  \E q \in Bodies, v \in FrameType : MakeTurn(t, b, f, q, x, v)
<1>1. PICK q \in Bodies : q = f.on /\ f.left \in [Bodies -> Nat]
  BY DEF Popped
<1>2. OnBody(t, b, f, q)
  BY <1>1, CallOn
<1>3. q \in Quorums /\ b + 1 = 1 /\ stack[t][b + 1] = f /\ (f.drv => stack[t][1].op = "claimed")
  BY <1>1 DEF Popped, FrameOK, ShapeOK, OnQuorum, Outermost
<1>4. b = 0 /\ ~f.drv
  <2>1. b = 0
    BY <1>3
  <2> QED
    BY <1>3, <2>1
<1>5. \A z \in Bodies : f.left[z] > 0 => held[t][z] > 0 /\ z # q
  BY <1>1 DEF Popped, FrameOK, HandleOK
<1>6. Private(t, q) /\ body[q].nomem /\ ~body[q].triggered
  BY <1>1 DEF Popped, FrameOK, NomemOK
<1>7. held[t][q] > 0 /\ body[q].ref = 1
  BY <1>3, <1>4, <1>6 DEF Private, Is
<1>8. body[x].ref >= 1 /\ body[x].life = "live"
  <2>1. HeldCount(x) >= 1
    BY <1>5, Referrers DEF IInv
  <2>2. body[x].ref >= 1
    BY <2>1, FiniteRefs
  <2>3. body[x].ref > 0
    BY <2>2, LiveFacts
  <2> QED
    BY <2>2, <2>3, LiveFacts
<1>9. body[q].lock /\ body[q].life = "live"
  BY <1>2 DEF OnBody, Owners
<1>10. \A y \in Bodies : (PopsOwner(t, b, y) <=> y = q) /\ PopWeight(t, b, y) = 0
  <2>1. f.op \in Owners /\ ~Counts(f)
    BY DEF Owners, Counts
  <2>2. \A y : (PopsOwner(t, b, y) <=> f.op \in Owners /\ f.on = y)
               /\ (PopsCounted(t, b, y) <=> Counts(f) /\ f.on = y)
    BY PoppedFacts
  <2> QED
    BY <1>1, <2>1, <2>2 DEF PopWeight
<1>11. /\ \A op, y : Pops(t, b, op, y) <=> f.op = op /\ f.on = y
       /\ \A y : Private(t, y) => y = q
  BY <1>1, <1>4, PoppedFacts
<1>12. PICK v \in FrameType : /\ v = Visited(f, x) /\ v.op = "make" /\ v.on = q /\ (v.drv <=> f.drv)
                              /\ v.left = Dec(f.left, x)
  BY <1>1, VisitedFacts
<1>13. MakeTurn(t, b, f, q, x, v)
  BY <1>1, <1>3, <1>4, <1>5, <1>6, <1>7, <1>8, <1>9, <1>10, <1>11, <1>12 DEF MakeTurn
<1> QED
  BY <1>13

\* The quorum is still its maker's own.
LEMMA MakeGoesOn ==
    ASSUME IInv, NEW t \in Threads, NEW b \in Nat, NEW f \in FrameType, NEW q \in Bodies, NEW x \in Bodies,
           NEW v \in FrameType, MakeTurn(t, b, f, q, x, v), NEW new, new = <<v>>, Moves(t, b, new), held' = held,
           body'[q].ref = 1, body'[q].nomem, ~body'[q].triggered
    PROVE  FrameOK(t, b + 1)' /\ Private(t, q)'
<1>1. /\ f.left[x] > 0 /\ q \in Quorums /\ b = 0 /\ held[t][q] > 0 /\ f.left \in [Bodies -> Nat]
      /\ \A z \in Bodies : f.left[z] > 0 => held[t][z] > 0 /\ z # q
      /\ v.op = "make" /\ v.on = q /\ ~v.drv /\ v.left = Dec(f.left, x)
  BY DEF MakeTurn, Popped
<1>2. new \in Seq(FrameType) /\ Len(new) = 1 /\ new[1] = v /\ 1 \in 1..Len(new)
  OBVIOUS
<1>3. stack' \in [Threads -> Seq(FrameType)] /\ Len(stack'[t]) = 1 /\ stack'[t][1] = v /\ b + 1 = 1
  BY <1>1, <1>2 DEF Moves, Onto
<1>4. stack'[t] # << >>
  <2>1. stack'[t] \in Seq(FrameType) /\ Len(stack'[t]) # 0
    BY <1>3
  <2> QED
    BY ONLY <2>1, EmptySeq
<1>5. Private(t, q)'
  BY <1>1, <1>3, <1>4 DEF Private, Is
<1>6. \A z \in Bodies : v.left[z] > 0 => held'[t][z] > 0 /\ z # q
  <2>1. \A z \in Bodies : v.left[z] > 0 => f.left[z] > 0
    BY <1>1, DecEmpty
  <2> QED
    BY <1>1, <2>1
<1>7. ShapeOK(t, 1)'
  BY <1>1, <1>3 DEF ShapeOK
<1>8. HandleOK(t, 1)'
  BY <1>1, <1>3, <1>6 DEF HandleOK
<1>9. OnceOK(stack[t][1])' /\ CullOK(t, 1)'
  BY <1>1, <1>3 DEF OnceOK, CullOK
<1>10. NomemOK(t, 1)'
  BY <1>1, <1>3, <1>5 DEF NomemOK
<1>11. FrameOK(t, 1)'
  BY <1>7, <1>8, <1>9, <1>10 DEF FrameOK
<1> QED
  BY <1>3, <1>5, <1>11

\* An argument that has triggered is counted.
LEMMA MakeCountsInv ==
    ASSUME Prompt, IInv, NEW t \in Threads, NEW b \in Nat, NEW f \in FrameType, NEW q \in Bodies, NEW x \in Bodies,
           NEW v \in FrameType, MakeTurn(t, b, f, q, x, v), body' = [body EXCEPT ![q] = Counted(body[q])],
           Replace(t, <<v>>), \A new \in Seq(FrameType) : Replace(t, new) => Moves(t, b, new),
           held' = held, queue' = queue, at' = at, coh' = coh
    PROVE  IInv'
<1>1. /\ Popped(t, b, f) /\ Runs(t) /\ f.op = "make" /\ q = f.on /\ q \in Quorums
      /\ b = 0 /\ body[q].lock /\ body[q].ref = 1 /\ body[q].nomem /\ ~body[q].triggered
      /\ body[q].life = "live" /\ PopsOwner(t, b, q) /\ PopWeight(t, b, q) = 0
      /\ v.op = "make" /\ v.on = q
  BY DEF MakeTurn
<1>2. /\ body[q] \in BodyType /\ BodyOK(q, body[q]) /\ body[q].members \in [Bodies -> Nat]
  BY LiveFacts
<1>3. PICK c : c = Counted(body[q]) /\ body' = [body EXCEPT ![q] = c]
  OBVIOUS
<1>4. /\ c \in BodyType /\ BodyOK(q, c) /\ c.life = "live" /\ c.lock /\ ~c.triggered
      /\ c.ref = 1 /\ c.nomem /\ c.quorums = body[q].quorums /\ c.coroutines = body[q].coroutines
      /\ c.members = body[q].members
  BY <1>1, <1>2, <1>3, CountedFacts, BodyOKFacts
<1>5. body' \in [Bodies -> BodyType] /\ body'[q] = c /\ \A y \in Bodies : y # q => body'[y] = body[y]
  BY <1>3, <1>4 DEF IInv, TypeOK
<1>6. PICK new : new = <<v>>
  OBVIOUS
<1>7. v.op \in Owners /\ ~Counts(v)
  BY <1>1 DEF Owners, Counts
<1>8. /\ new \in Seq(FrameType) /\ Len(new) = 1 /\ new[1] = v /\ 1..Len(new) = {1}
      /\ NewOwner(new, q)
      /\ Weight(new, 1, q) = 0 /\ Weight(new, 2, q) = 0 /\ Weight(new, 3, q) = 0
  BY <1>1, <1>6, <1>7, OneCall
<1>9. Moves(t, b, new) /\ Len(new) <= 3
  <2>1. Replace(t, new)
    BY <1>6
  <2> QED
    BY <1>8, <2>1
<1>10. FrameOK(t, b + 1)' /\ Private(t, q)'
  BY <1>4, <1>5, <1>6, <1>9, MakeGoesOn
<1>11. BodyStep(t, b, new, q)
  <2>1. \A z \in Bodies : body'[q].members[z] <= body[q].members[z]
    BY <1>2, <1>4, <1>5
  <2> QED
    BY <1>1, <1>4, <1>5, <1>8, <1>10, <2>1 DEF BodyStep, RefStep, PrivateStep, DeleteStep
<1>12. OneBodyStep(t, b, f, new, q)
  <2>1. \A j \in 1..Len(new) : /\ new[j].op \notin {"inform", "member"} /\ new[j].on = q
                               /\ FrameOK(t, b + j)'
    BY <1>1, <1>8, <1>10
  <2>2. \A i, j \in 1..Len(new) : new[i].op \in Owners /\ new[j].op \in Owners => i = j
    BY <1>8
  <2>3. body'[q].ref = body[q].ref - PopWeight(t, b, q)
                      + Weight(new, 1, q) + Weight(new, 2, q) + Weight(new, 3, q)
    BY <1>1, <1>4, <1>5, <1>8
  <2> QED
    BY <1>1, <1>4, <1>5, <1>9, <1>11, <2>1, <2>2, <2>3 DEF OneBodyStep
<1> QED
  BY <1>12, OneBody

\* An argument that has not becomes a member.
MakeAdds(t, b, f, q, x, v) ==
    /\ MakeTurn(t, b, f, q, x, v) /\ ~body[x].triggered /\ ~body[x].lock
    /\ body' = [body EXCEPT ![x] = With(Refs(body[x], 1), q),
                            ![q] = [body[q] EXCEPT !.members = Inc(body[q].members, x)]]
    /\ Replace(t, <<v>>)
    /\ \A new \in Seq(FrameType) : Replace(t, new) => Moves(t, b, new)
    /\ held' = held /\ queue' = queue /\ at' = at /\ coh' = coh

LEMMA MakeAddsInv ==
    ASSUME Prompt, IInv, NEW t \in Threads, NEW b \in Nat, NEW f \in FrameType, NEW q \in Bodies, NEW x \in Bodies,
           NEW v \in FrameType, MakeAdds(t, b, f, q, x, v)
    PROVE  IInv'
<1>0. /\ MakeTurn(t, b, f, q, x, v) /\ ~body[x].triggered /\ ~body[x].lock
      /\ Replace(t, <<v>>)
      /\ \A new \in Seq(FrameType) : Replace(t, new) => Moves(t, b, new)
      /\ held' = held /\ queue' = queue /\ at' = at /\ coh' = coh
  BY DEF MakeAdds
<1>1. /\ Popped(t, b, f) /\ Runs(t) /\ f.op = "make" /\ q = f.on /\ q \in Quorums
      /\ b = 0 /\ body[q].lock /\ x # q /\ held[t][x] > 0 /\ body[q].ref = 1
      /\ body[q].nomem /\ ~body[q].triggered
      /\ body[x].ref >= 1 /\ body[x].life = "live" /\ body[q].life = "live"
      /\ \A y \in Bodies : (PopsOwner(t, b, y) <=> y = q) /\ PopWeight(t, b, y) = 0
      /\ \A op, y : Pops(t, b, op, y) <=> f.op = op /\ f.on = y
      /\ \A y : Private(t, y) => y = q
      /\ v.op = "make" /\ v.on = q
  BY <1>0 DEF MakeTurn
<1>2. /\ body[x] \in BodyType /\ BodyOK(x, body[x]) /\ body[q] \in BodyType /\ BodyOK(q, body[q])
      /\ body[q].members \in [Bodies -> Nat] /\ body[x].members \in [Bodies -> Nat]
      /\ body[x].ref \in Nat /\ body[q].ref \in Nat /\ body[x].quorums \in [Bodies -> Nat]
  BY LiveFacts
<1>3. PICK r, c, d : /\ r = Refs(body[x], 1) /\ c = With(r, q)
                     /\ d = [body[q] EXCEPT !.members = Inc(body[q].members, x)]
                     /\ body' = [body EXCEPT ![x] = c, ![q] = d]
  BY DEF MakeAdds
<1>4. /\ c \in BodyType /\ BodyOK(x, c) /\ c.life = "live" /\ ~c.lock /\ ~c.triggered /\ c.ref = body[x].ref + 1
      /\ (c.nomem <=> c.members = Nobody) /\ c.members = body[x].members
      /\ c.coroutines = body[x].coroutines /\ c.quorums = Inc(body[x].quorums, q)
  <2>1. /\ r \in BodyType /\ r.life = body[x].life
        /\ (r.triggered <=> body[x].triggered) /\ r.ref = body[x].ref + 1
        /\ r.quorums = body[x].quorums /\ r.coroutines = body[x].coroutines
        /\ r.members = body[x].members
    <3>1. r = Refs(body[x], 1) /\ 1 \in Nat /\ body[x] \in BodyType
      BY <1>2, <1>3
    <3> QED
      BY ONLY <3>1, RefsFacts
  <2>2. BodyOK(x, r)
    BY <1>1, <1>2, <1>3, BodyOKFacts
  <2>3. /\ c \in BodyType /\ c.life = r.life /\ ~c.lock /\ (c.triggered <=> r.triggered)
        /\ c.ref = r.ref /\ (c.nomem <=> r.members = Nobody) /\ c.members = r.members
        /\ c.coroutines = r.coroutines /\ c.quorums = Inc(r.quorums, q)
    BY <1>3, <2>1, WithFacts
  <2>4. BodyOK(x, c)
    BY <1>0, <1>1, <1>3, <2>1, <2>2, BodyOKFacts
  <2> QED
    BY <1>0, <1>1, <2>1, <2>3, <2>4
<1>5. /\ d \in BodyType /\ BodyOK(q, d) /\ d.life = "live" /\ d.lock /\ ~d.triggered
      /\ d.ref = 1 /\ d.nomem /\ d.members = Inc(body[q].members, x)
      /\ d.coroutines = body[q].coroutines /\ d.quorums = body[q].quorums
  <2>1. PICK m \in [Bodies -> Nat] : m = Inc(body[q].members, x)
    BY <1>2, BagFacts
  <2>2. /\ d \in BodyType /\ d.life = "live" /\ d.lock /\ ~d.triggered
        /\ d.ref = 1 /\ d.nomem /\ d.members = m
        /\ d.coroutines = body[q].coroutines /\ d.quorums = body[q].quorums
    BY <1>1, <1>2, <1>3, <2>1 DEF BodyType
  <2>3. \A y \in Bodies : m[y] > 0 => y # q
    <3>1. \A y \in Bodies : m[y] = IF y # x THEN body[q].members[y] ELSE body[q].members[x] + 1
      BY <1>2, <2>1, BagFacts
    <3>2. \A y \in Bodies : body[q].members[y] > 0 => y # q
      BY <1>2 DEF BodyOK
    <3> QED
      BY <1>1, <3>1, <3>2
  <2>4. BodyOK(q, d)
    <3>1. q \notin Events
      BY <1>1, LiveFacts
    <3>2. \A y \in Bodies : body[q].quorums[y] > 0 => y \in Quorums
      BY <1>2 DEF BodyOK
    <3> QED
      BY <2>2, <2>3, <3>1, <3>2 DEF BodyOK
  <2> QED
    BY <2>1, <2>2, <2>4
<1>6. /\ body' \in [Bodies -> BodyType] /\ body'[x] = c /\ body'[q] = d
      /\ \A y \in Bodies : y # x /\ y # q => body'[y] = body[y]
  BY <1>1, <1>3, <1>4, <1>5 DEF IInv, TypeOK
<1>7. PICK new : new = <<v>>
  OBVIOUS
<1>8. v.op \in Owners /\ ~Counts(v)
  BY <1>1 DEF Owners, Counts
<1>9. /\ new \in Seq(FrameType) /\ Len(new) = 1 /\ new[1] = v /\ 1..Len(new) = {1}
      /\ \A y : NewOwner(new, y) <=> y = q
      /\ \A y : Weight(new, 1, y) = 0 /\ Weight(new, 2, y) = 0 /\ Weight(new, 3, y) = 0
  BY <1>1, <1>7, <1>8, OneCall
<1>10. Moves(t, b, new) /\ Len(new) <= 3
  <2>1. Replace(t, new)
    BY <1>0, <1>7
  <2> QED
    BY <1>0, <1>9, <2>1
<1>11. FrameOK(t, b + 1)' /\ Private(t, q)'
  BY <1>0, <1>5, <1>6, <1>7, <1>10, MakeGoesOn
<1>12. stack' \in [Threads -> Seq(FrameType)]
  BY <1>10 DEF Moves, Onto
<1>13. TypeOK'
  BY <1>0, <1>6, <1>12 DEF IInv, TypeOK
<1>14. ASSUME NEW y \in Bodies
       PROVE  /\ BodyOK(y, body'[y]) /\ BodyStep(t, b, new, y)
              /\ body'[y].members = (IF y = q THEN Inc(body[y].members, x) ELSE body[y].members)
              /\ body'[y].quorums = (IF y = x THEN Inc(body[y].quorums, q) ELSE body[y].quorums)
              /\ body'[y].coroutines \subseteq body[y].coroutines
              /\ body'[y].ref = body[y].ref + (IF x = y THEN 1 ELSE 0)
  <2>1. CASE y = q
    <3>1. RefStep(t, b, q) /\ PrivateStep(t, b, q) /\ DeleteStep(new, q)
      BY <1>1, <1>5, <1>6, <1>11 DEF RefStep, PrivateStep, DeleteStep
    <3>2. BodyStep(t, b, new, q)
      BY <1>1, <1>5, <1>6, <1>9, <3>1 DEF BodyStep
    <3> QED
      BY <1>1, <1>5, <1>6, <2>1, <3>2
  <2>2. CASE y = x
    <3>1. \A z \in Bodies : body'[x].members[z] <= body[x].members[z]
      BY <1>2, <1>4, <1>6
    <3>2. body'[x].ref # 0 /\ body[x].ref # 0
      BY <1>1, <1>2, <1>4, <1>6
    <3>3. RefStep(t, b, x) /\ PrivateStep(t, b, x) /\ DeleteStep(new, x)
      BY <1>1, <3>2 DEF RefStep, PrivateStep, DeleteStep
    <3>4. ~PopsOwner(t, b, x) /\ ~NewOwner(new, x)
      BY <1>1, <1>9
    <3>5. BodyStep(t, b, new, x)
      BY <1>0, <1>4, <1>6, <3>1, <3>2, <3>3, <3>4 DEF BodyStep
    <3> QED
      BY <1>1, <1>4, <1>6, <2>2, <3>5
  <2>3. CASE y # q /\ y # x
    <3>1. BodyStep(t, b, new, y)
      BY <1>1, <1>6, <1>9, <1>10, <2>3, SameBody DEF IInv
    <3>2. BodyOK(y, body[y]) /\ body[y].ref \in Nat
      BY LiveFacts
    <3> QED
      BY <1>6, <2>3, <3>1, <3>2
  <2> QED
    BY <2>1, <2>2, <2>3
<1>15. RefInv'
  <2>1. ASSUME NEW y \in Bodies
        PROVE  /\ IsFiniteSet(HeldRefs(y)') /\ IsFiniteSet(QueueRefs(y)')
               /\ IsFiniteSet(AtRefs(y)') /\ IsFiniteSet(MemRefs(y)')
               /\ body'[y].ref = HeldCount(y)' + QueueCount(y)' + AtCount(y)' + MemCount(y)'
                    + (CallCount(y) - PopWeight(t, b, y)
                       + Weight(new, 1, y) + Weight(new, 2, y) + Weight(new, 3, y))
    <3>1. /\ HeldCount(y) \in Nat /\ QueueCount(y) \in Nat /\ AtCount(y) \in Nat
          /\ MemCount(y) \in Nat /\ CallCount(y) \in Nat
          /\ body[y].ref = HeldCount(y) + QueueCount(y) + AtCount(y) + MemCount(y) + CallCount(y)
          /\ IsFiniteSet(MemRefs(y))
      BY FiniteRefs
    <3>2. /\ IsFiniteSet(AtRefs(y)') /\ AtCount(y)' = AtCount(y)
          /\ IsFiniteSet(HeldRefs(y)') /\ HeldCount(y)' = HeldCount(y)
          /\ IsFiniteSet(QueueRefs(y)') /\ QueueCount(y)' = QueueCount(y)
      BY <1>0, IdleKeeps
    <3>3. IsFiniteSet(MemRefs(y)') /\ MemCount(y)' = MemCount(y) + (IF x = y THEN 1 ELSE 0)
      <4>1. TypeOK
        BY DEF IInv
      <4>2. \A z \in Bodies : body'[z].members = IF z = q THEN Inc(body[z].members, x) ELSE body[z].members
        BY <1>14
      <4> QED
        BY <3>1, <4>1, <4>2, MemInc
    <3>4. PICK w \in {0, 1} : w = (IF x = y THEN 1 ELSE 0)
      OBVIOUS
    <3>5. PICK m : m = MemCount(y) + w
      OBVIOUS
    <3>6. (HeldCount(y) + QueueCount(y) + AtCount(y) + MemCount(y) + CallCount(y)) + w
            = HeldCount(y) + QueueCount(y) + AtCount(y) + m + (CallCount(y) - 0 + 0 + 0 + 0)
      BY <3>1, <3>5
    <3>7. /\ MemCount(y)' = m /\ body'[y].ref = body[y].ref + w /\ PopWeight(t, b, y) = 0
          /\ Weight(new, 1, y) = 0 /\ Weight(new, 2, y) = 0 /\ Weight(new, 3, y) = 0
      BY <1>1, <1>9, <1>14, <3>3, <3>4, <3>5
    <3>8. body'[y].ref = HeldCount(y)' + QueueCount(y)' + AtCount(y)' + MemCount(y)'
                    + (CallCount(y) - PopWeight(t, b, y)
                       + Weight(new, 1, y) + Weight(new, 2, y) + Weight(new, 3, y))
      BY <3>1, <3>2, <3>6, <3>7
    <3> QED
      BY <3>2, <3>3, <3>8
  <2> QED
    BY <1>10, <2>1, RefAfter
<1>16. CoroutineInv'
  <2>1. ~(Len(stack[t]) = 1 /\ b = 0 /\ stack[t][1].op = "claimed")
    <3>1. stack[t][b + 1] = f /\ b + 1 = 1
      BY <1>1 DEF Popped
    <3> QED
      BY <1>1, <3>1
  <2> QED
    BY <1>0, <1>10, <1>14, <2>1, CoroutineStep
<1>17. CullEnds(t, b, new) /\ NewFrames(t, b, new)
  BY <1>1, <1>9 DEF CullEnds, NewFrames
<1>18. LinkOK(x)'
  <2>1. ASSUME NEW u \in Threads, NEW k \in 1..Len(stack[u]) PROVE ~Is(u, k, "inform", x)
    BY <1>0 DEF IInv, OnceInv, OnceOK, Is
  <2>2. ASSUME NEW u \in Threads, NEW k \in 1..Len(stack'[u]) PROVE ~Is(u, k, "inform", x)'
    <3>1. \A u1 \in Threads : \A i \in 1..Len(stack'[u1]) :
             \/ /\ i \in 1..Len(stack[u1]) /\ stack'[u1][i] = stack[u1][i]
                /\ u1 = t => i <= b
             \/ /\ u1 = t /\ i - b \in 1..Len(new) /\ stack'[u1][i] = new[i - b] /\ i = b + (i - b)
      <4>1. TypeOK /\ Moves(t, b, new)
        BY <1>10 DEF IInv
      <4> QED
        BY ONLY <4>1, t \in Threads, MovesOrigin
    <3>2. \A j \in 1..Len(new) : new[j].op # "inform"
      BY <1>1, <1>9
    <3> QED
      BY <2>1, <3>1, <3>2, SMTT(60) DEF Is
  <2>3. ASSUME NEW y \in Bodies PROVE body'[y].members[x] = body'[x].quorums[y]
    <3>1. body[y].members[x] = body[x].quorums[y]
      <4>1. ~Informs(x)
        BY <2>1 DEF Informs
      <4> QED
        BY <4>1 DEF IInv, LinkInv
    <3>2. body'[x].quorums[y] = IF y # q THEN body[x].quorums[y] ELSE body[x].quorums[q] + 1
      <4>1. PICK m \in [Bodies -> Nat] : m = body[x].quorums
        BY <1>2
      <4>2. Inc(m, q)[y] = IF y # q THEN m[y] ELSE m[q] + 1
        BY BagFacts
      <4> QED
        BY <1>4, <1>6, <4>1, <4>2
    <3>3. CASE y = q
      <4>1. body'[q].members[x] = body[q].members[x] + 1
        BY <1>2, <1>5, <1>6, BagFacts, SMTT(60)
      <4> QED
        BY <3>1, <3>2, <3>3, <4>1
    <3>4. CASE y # q
      BY <1>14, <3>1, <3>2, <3>4
    <3> QED
      BY <3>3, <3>4
  <2> QED
    BY <2>2, <2>3 DEF LinkOK
<1>19. ASSUME NEW y \in Bodies, y # x PROVE LinkSame(t, b, new, y)
  <2>1. ~(Len(stack[t]) = b + 1 /\ stack[t][b + 1].op = "member" /\ stack[t][b + 1].src = y)
    BY <1>1 DEF Popped
  <2>2. \A j \in 1..Len(new) : /\ ~(new[j].op = "inform" /\ new[j].on = y)
                               /\ ~(new[j].op = "member" /\ new[j].src = y)
    BY <1>1, <1>9
  <2>3. ASSUME NEW z \in Bodies PROVE body'[z].members[y] = body[z].members[y]
    <3>1. PICK m \in [Bodies -> Nat] : m = body[z].members
      BY LiveFacts
    <3>2. Inc(m, x)[y] = m[y]
      <4>1. Inc(m, x)[y] = IF y # x THEN m[y] ELSE m[x] + 1
        BY BagFacts
      <4> QED
        BY <1>19, <4>1
    <3> QED
      BY <1>14, <3>1, <3>2
  <2> QED
    BY <1>1, <1>14, <1>19, <2>1, <2>2, <2>3 DEF LinkSame
<1>20. HeldStep(t, b) /\ QueueStep
  BY <1>0, HeldKept, QueueSame
<1>21. \A j \in 1..Len(new) : FrameOK(t, b + j)'
  BY <1>9, <1>11
<1>22. WholeStep(t, b, new)
  BY <1>1, <1>10, <1>13, <1>14, <1>15, <1>16, <1>17, <1>18, <1>19, <1>20, <1>21 DEF WholeStep
<1> QED
  BY <1>22, WholeInv

LEMMA MakeInv ==
    ASSUME Prompt, IInv, NEW t \in Threads, Make(t)
    PROVE  IInv'
<1>1. PICK b \in Nat, f \in FrameType :
         /\ Popped(t, b, f) /\ f = Top(t) /\ f.op = "make" /\ Runs(t)
         /\ \A new \in Seq(FrameType) : Replace(t, new) => Moves(t, b, new)
  BY InFacts DEF Make
<1>2. PICK q \in Bodies : q = f.on
  BY <1>1 DEF Popped
<1>3. held' = held /\ queue' = queue /\ at' = at /\ coh' = coh
  BY DEF Make
<1>4. \/ \E x \in Bodies :
            /\ f.left[x] > 0
            /\ \/ body[x].triggered /\ body' = [body EXCEPT ![q] = Counted(body[q])]
               \/ /\ ~body[x].triggered /\ ~body[x].lock
                  /\ body' = [body EXCEPT ![x] = With(Refs(body[x], 1), q),
                                          ![q] = [body[q] EXCEPT !.members = Inc(body[q].members, x)]]
            /\ Replace(t, <<Visited(f, x)>>)
      \/ /\ body' = [body EXCEPT ![q] = Referenced(body[q], q)]
         /\ Replace(t, TriggerUnlock(body[q], q, FALSE))
      \/ body' = [body EXCEPT ![q] = Unlocked(body[q])] /\ Replace(t, << >>)
  BY <1>1, <1>2 DEF Make
<1>5. ASSUME NEW x \in Bodies, f.left[x] > 0, Replace(t, <<Visited(f, x)>>),
             \/ body[x].triggered /\ body' = [body EXCEPT ![q] = Counted(body[q])]
             \/ /\ ~body[x].triggered /\ ~body[x].lock
                /\ body' = [body EXCEPT ![x] = With(Refs(body[x], 1), q),
                                        ![q] = [body[q] EXCEPT !.members = Inc(body[q].members, x)]]
      PROVE  IInv'
  <2>1. PICK p \in Bodies, v \in FrameType : MakeTurn(t, b, f, p, x, v)
    BY <1>1, <1>5, MakeTurnFacts
  <2>2. p = q /\ v = Visited(f, x)
    BY <1>2, <2>1 DEF MakeTurn
  <2>3. MakeTurn(t, b, f, q, x, v) /\ Replace(t, <<v>>)
    BY <1>5, <2>1, <2>2
  <2>4. CASE body[x].triggered
    BY <1>1, <1>3, <1>5, <2>3, <2>4, MakeCountsInv
  <2>5. CASE ~body[x].triggered
    <3>1. MakeAdds(t, b, f, q, x, v)
      BY <1>1, <1>3, <1>5, <2>3, <2>5 DEF MakeAdds
    <3> QED
      BY <3>1, MakeAddsInv
  <2> QED
    BY <2>4, <2>5
<1>6. ASSUME \/ /\ body' = [body EXCEPT ![q] = Referenced(body[q], q)]
                /\ Replace(t, TriggerUnlock(body[q], q, FALSE))
             \/ body' = [body EXCEPT ![q] = Unlocked(body[q])] /\ Replace(t, << >>)
      PROVE  IInv'
  BY <1>1, <1>2, <1>3, <1>6, SealInv
<1> QED
  BY <1>4, <1>5, <1>6

-----------------------------------------------------------------------------
(* The invariant holds initially, and every step keeps it. *)

\* The bodies of an initial state.
LEMMA InitBodies ==
    ASSUME Init, NEW x \in Bodies
    PROVE  /\ body[x] \in BodyType /\ ~body[x].lock /\ ~body[x].triggered /\ body[x].nomem
           /\ body[x].count = 0
           /\ body[x].quorums = Nobody /\ body[x].members = Nobody /\ body[x].coroutines = {}
           /\ x \in Quorums => body[x].life = "new" /\ body[x].ref = 0
           /\ x \notin Quorums => /\ body[x].life = "live"
                                  /\ body[x].ref = Cardinality({t \in Threads : x \in Given[t]})
                                  /\ body[x].ref > 0
           /\ IsFiniteSet({t \in Threads : x \in Given[t]})
           /\ x \in Quorums => {t \in Threads : x \in Given[t]} = {}
<1>1. PICK S : S = {t \in Threads : x \in Given[t]}
  OBVIOUS
<1>2. S \subseteq Threads /\ IsFiniteSet(S) /\ Cardinality(S) \in Nat
  <2>1. S \subseteq Threads
    BY <1>1
  <2>2. IsFiniteSet(S)
    BY <2>1, FS_Subset, QuorumAssumption
  <2> QED
    BY <2>1, <2>2, FS_CardinalityType
<1>3. x \in Quorums => S = {}
  BY <1>1, QuorumAssumption
<1>4. x \notin Quorums => Cardinality(S) > 0
  <2>1. ASSUME x \notin Quorums PROVE Cardinality(S) > 0
    <3>1. x \in Events
      BY <2>1 DEF Bodies
    <3>2. PICK t \in Threads : x \in Given[t]
      BY <3>1, QuorumAssumption
    <3>3. t \in S
      BY <1>1, <3>2
    <3>4. Cardinality(S) \in Nat \ {0}
      BY <1>2, <3>3, NonEmpty
    <3> QED
      BY <3>4
  <2> QED
    BY <2>1
<1>5. body[x] = IF x \in Quorums THEN Fresh ELSE [Fresh EXCEPT !.life = "live", !.ref = Cardinality(S)]
  BY <1>1 DEF Init
<1>6. CASE x \in Quorums
  BY <1>1, <1>2, <1>3, <1>5, <1>6, FreshType DEF Fresh
<1>7. CASE x \notin Quorums
  <2>1. PICK n \in Nat : n = Cardinality(S)
    BY <1>2
  <2>2. PICK r : r = [Fresh EXCEPT !.life = "live", !.ref = n]
    OBVIOUS
  <2>3. /\ r \in BodyType /\ r.life = "live" /\ r.ref = n /\ ~r.lock /\ ~r.triggered /\ r.nomem /\ r.count = 0
        /\ r.quorums = Nobody /\ r.members = Nobody /\ r.coroutines = {}
    BY <2>2, NobodyFacts DEF Fresh, BodyType
  <2>4. body[x] = r
    BY <1>5, <1>7, <2>1, <2>2
  <2> QED
    BY <1>1, <1>2, <1>4, <1>7, <2>1, <2>3, <2>4
<1> QED
  BY <1>6, <1>7

LEMMA InitInv ==
    ASSUME Init
    PROVE  IInv
<1>1. /\ held = [t \in Threads |-> [x \in Bodies |-> IF x \in Given[t] THEN 1 ELSE 0]]
      /\ queue = [t \in Threads |-> << >>] /\ at = [c \in Coroutines |-> None]
      /\ coh = [t \in Threads |-> None] /\ stack = [t \in Threads |-> << >>]
      /\ DOMAIN body = Bodies /\ body = [x \in Bodies |-> body[x]]
  BY DEF Init
<1>2. TypeOK
  <2>1. body \in [Bodies -> BodyType]
    BY <1>1, InitBodies
  <2>2. held \in [Threads -> [Bodies -> Nat]]
    BY <1>1
  <2>3. queue \in [Threads -> Seq(Bodies)] /\ stack \in [Threads -> Seq(FrameType)]
    BY <1>1
  <2>4. at \in [Coroutines -> Bodies \union {None}] /\ coh \in [Threads -> Coroutines \union {None}]
    BY <1>1
  <2> QED
    BY <2>1, <2>2, <2>3, <2>4 DEF TypeOK
<1>3. \A t \in Threads : /\ stack[t] = << >> /\ Len(stack[t]) = 0 /\ 1..Len(stack[t]) = {}
                         /\ queue[t] = << >> /\ Len(queue[t]) = 0 /\ 1..Len(queue[t]) = {}
  BY <1>1
<1>4. ShapeInv /\ HandleInv
  BY <1>3 DEF ShapeInv, HandleInv
<1>5. BodyInv
  <2>1. ASSUME NEW x \in Bodies PROVE BodyOK(x, body[x])
    <3>1. x \in Quorums <=> x \notin Events
      BY QuorumAssumption DEF Bodies
    <3>2. /\ ~body[x].lock /\ ~body[x].triggered /\ body[x].nomem /\ body[x].count = 0
          /\ body[x].quorums = Nobody /\ body[x].members = Nobody /\ body[x].coroutines = {}
          /\ x \in Quorums => body[x].life = "new" /\ body[x].ref = 0
          /\ x \notin Quorums => body[x].life = "live" /\ body[x].ref > 0
      BY InitBodies
    <3> QED
      BY <3>1, <3>2, NobodyFacts DEF BodyOK
  <2> QED
    BY <2>1 DEF BodyInv
<1>6. RefInv
  <2>1. ASSUME NEW x \in Bodies
        PROVE  /\ IsFiniteSet(HeldRefs(x)) /\ IsFiniteSet(QueueRefs(x)) /\ IsFiniteSet(AtRefs(x))
               /\ IsFiniteSet(MemRefs(x)) /\ IsFiniteSet(CallRefs(x))
               /\ body[x].ref = Cardinality(HeldRefs(x)) + Cardinality(QueueRefs(x))
                         + Cardinality(AtRefs(x)) + Cardinality(MemRefs(x))
                         + Cardinality(CallRefs(x))
    <3>1. QueueRefs(x) = {} /\ CallRefs(x) = {}
      BY <1>3 DEF QueueRefs, CallRefs
    <3>2. AtRefs(x) = {}
      BY <1>1, QuorumAssumption DEF AtRefs
    <3>3. MemRefs(x) = {}
      <4>1. ASSUME NEW z \in Bodies PROVE body[z].members[x] = 0
        <5>1. body[z].members = Nobody
          BY InitBodies
        <5> QED
          BY <5>1, NobodyFacts
      <4>2. \A z \in Bodies : 1..body[z].members[x] = {}
        BY <4>1
      <4> QED
        BY <4>2 DEF MemRefs
    <3>4. PICK S : S = {t \in Threads : x \in Given[t]}
      OBVIOUS
    <3>5. PICK H : H = HeldRefs(x)
      OBVIOUS
    <3>6. H = {p \in Threads \X Nat : p[2] \in 1..held[p[1]][x]}
      BY <3>5 DEF HeldRefs
    <3>7. \A t \in Threads, i \in Nat : <<t, i>> \in H <=> t \in S /\ i = 1
      <4>1. \A t \in Threads : held[t][x] = IF t \in S THEN 1 ELSE 0
        BY <1>1, <3>4
      <4> QED
        BY <3>6, <4>1
    <3>8. IsFiniteSet(H) /\ Cardinality(H) = Cardinality(S)
      <4> DEFINE f == [t \in S |-> <<t, 1>>]
      <4>1. S \subseteq Threads /\ H \subseteq Threads \X Nat
        BY <3>4, <3>6
      <4>2. f \in [S -> H] /\ \A a, c \in S : f[a] = f[c] => a = c
        BY <3>7, <4>1
      <4>3. \A r \in H : \E t \in S : f[t] = r
        <5>1. ASSUME NEW r \in H PROVE \E t \in S : f[t] = r
          <6>1. PICK t \in Threads, i \in Nat : r = <<t, i>>
            BY <4>1
          <6>2. t \in S /\ i = 1
            BY <3>7, <6>1
          <6> QED
            BY <6>1, <6>2
        <5> QED
          BY <5>1
      <4>4. f \in Bijection(S, H)
        BY <4>2, <4>3 DEF Bijection, Injection, Surjection, IsInjective
      <4>5. IsFiniteSet(S)
        BY <3>4, InitBodies
      <4> QED
        BY <4>4, <4>5, FS_Bijection DEF ExistsBijection
    <3>9. IsFiniteSet({}) /\ Cardinality({}) = 0
      BY FS_EmptySet
    <3>10. body[x].ref = Cardinality(S) /\ Cardinality(S) \in Nat
      <4>1. IsFiniteSet(S) /\ (x \in Quorums => S = {} /\ body[x].ref = 0)
            /\ (x \notin Quorums => body[x].ref = Cardinality(S))
        BY <3>4, InitBodies
      <4> QED
        BY <3>9, <4>1, FS_CardinalityType
    <3> QED
      BY <3>1, <3>2, <3>3, <3>5, <3>8, <3>9, <3>10
  <2> QED
    BY <2>1 DEF RefInv
<1>7. LockInv /\ OnceInv
  BY <1>3, InitBodies DEF LockInv, OnceInv
<1>8. LinkInv
  BY <1>3, InitBodies, NobodyFacts DEF LinkInv
<1>9. \A q \in Quorums : q \in Bodies
  BY DEF Bodies
<1>10. CullInv
  BY <1>3, <1>9, InitBodies DEF CullInv
<1>11. NomemInv /\ ZeroInv
  BY <1>3, <1>9, InitBodies DEF NomemInv, ZeroInv, Live
<1>12. CoroutineInv
  BY <1>1, InitBodies DEF CoroutineInv
<1> QED
  BY <1>2, <1>4, <1>5, <1>6, <1>7, <1>8, <1>10, <1>11, <1>12 DEF IInv

LEMMA StutterInv ==
    ASSUME IInv, UNCHANGED vars
    PROVE  IInv'
<1>1. body' = body /\ held' = held /\ queue' = queue /\ at' = at /\ coh' = coh /\ stack' = stack
  BY DEF vars
<1>2. TypeOK' /\ ShapeInv' /\ HandleInv'
  BY <1>1 DEF IInv, TypeOK, ShapeInv, ShapeOK, HandleInv, HandleOK, Secured, Is
<1>3. BodyInv' /\ LockInv'
  BY <1>1 DEF IInv, BodyInv, LockInv, Owns
<1>4. RefInv'
  <2>1. ASSUME NEW x \in Bodies
        PROVE  /\ HeldRefs(x)' = HeldRefs(x) /\ QueueRefs(x)' = QueueRefs(x) /\ AtRefs(x)' = AtRefs(x)
               /\ MemRefs(x)' = MemRefs(x) /\ CallRefs(x)' = CallRefs(x) /\ body'[x] = body[x]
    BY <1>1 DEF HeldRefs, QueueRefs, AtRefs, MemRefs, CallRefs
  <2> QED
    BY <2>1 DEF IInv, RefInv
<1>5. OnceInv' /\ LinkInv'
  BY <1>1, SMTT(60) DEF IInv, OnceInv, OnceOK, LinkInv, Informs, Is, Telling
<1>6. CullInv' /\ NomemInv'
  BY <1>1 DEF IInv, CullInv, CullOK, Settling, NomemInv, NomemOK, Private, Live, Is
<1>7. ZeroInv' /\ CoroutineInv'
  BY <1>1 DEF IInv, ZeroInv, Settling, Live, Is, CoroutineInv
<1> QED
  BY <1>2, <1>3, <1>4, <1>5, <1>6, <1>7 DEF IInv

LEMMA NextInv ==
    ASSUME Prompt, IInv, [Next]_vars
    PROVE  IInv'
<1>1. ASSUME NEW t \in Threads, Step(t) PROVE IInv'
  BY <1>1, DropInv, DerefInv, HardDerefInv, UnlockInv, HardEndInv, CullInvKept, TriggerInv, PublishInv,
     InformInv, PostInv, MemberInv, MemberEndInv, MakeInv, DriveInv, ResumeInv DEF Step
<1>2. ASSUME NEW t \in Threads, Use(t) PROVE IInv'
  BY <1>2, CallMakeInv, CopyInv, CallTriggerInv, AsapInv, CallDropInv DEF Use
<1>3. ASSUME NEW t \in Threads, RunAsap(t) PROVE IInv'
  BY <1>3, RunAsapInv
<1>4. ASSUME NEW c \in Coroutines, Destroy(c) \/ \E x \in Bodies : Await(c, x) PROVE IInv'
  BY <1>4, DestroyInv, AwaitInv
<1> QED
  BY <1>1, <1>2, <1>3, <1>4, StutterInv DEF Next

-----------------------------------------------------------------------------
(* What it says of the bodies in use. *)

LEMMA NoDanglingHolds ==
    ASSUME IInv
    PROVE  NoDangling
<1>0. TypeOK
  BY DEF IInv
<1>1. ASSUME NEW x \in Bodies, body[x].ref >= 1 \/ body[x].lock PROVE Live(x)
  BY <1>1, LiveFacts DEF Live
<1>2. ASSUME NEW q \in Bodies, NEW x \in Bodies, body[q].members[x] > 0
      PROVE  Live(x) /\ Live(q)
  <2>1. MemCount(x) >= 1
    BY <1>2, Referrers DEF IInv
  <2>2. body[x].ref >= 1
    BY <2>1, FiniteRefs
  <2> QED
    BY <1>1, <1>2, <2>2, LiveFacts DEF Live
<1>3. ASSUME NEW t \in Threads, NEW x \in Bodies, held[t][x] > 0
      PROVE  Live(x)
  <2>1. HeldCount(x) >= 1
    BY <1>3, Referrers DEF IInv
  <2>2. body[x].ref >= 1
    BY <2>1, FiniteRefs
  <2> QED
    BY <1>1, <2>2
<1>4. ASSUME NEW t \in Threads, NEW k \in 1..Len(stack[t]), Counts(stack[t][k])
      PROVE  Live(stack[t][k].on)
  <2>1. stack[t][k].on \in Bodies
    BY CallsOK
  <2>2. CallCount(stack[t][k].on) >= 1
    BY <1>4, <2>1, Referrers DEF IInv
  <2>3. body[stack[t][k].on].ref >= 1
    BY <2>1, <2>2, FiniteRefs, SMTT(60)
  <2> QED
    BY <1>1, <2>1, <2>3
<1>5. ASSUME NEW t \in Threads, NEW x \in Bodies, Secured(t, x), stack[t] # << >>
      PROVE  Live(x)
  <2>1. CASE held[t][x] > 0
    BY <1>3, <2>1
  <2>2. CASE Is(t, 1, "claimed", x)
    <3>1. 1 \in 1..Len(stack[t])
      <4>1. stack[t] \in Seq(FrameType)
        BY <1>0 DEF TypeOK
      <4>2. Len(stack[t]) # 0 /\ Len(stack[t]) \in Nat
        BY <1>5, <4>1, EmptySeq
      <4> QED
        BY <4>2
    <3>2. Counts(stack[t][1]) /\ stack[t][1].on = x
      BY <2>2 DEF Is, Counts
    <3> QED
      BY <1>4, <3>1, <3>2
  <2> QED
    BY <1>5, <2>1, <2>2 DEF Secured
<1>6. ASSUME NEW t \in Threads, NEW k \in 1..Len(stack[t])
      PROVE  Live(stack[t][k].on) /\ \A x \in Bodies : stack[t][k].left[x] > 0 => Live(x)
  <2>1. PICK f \in FrameType : f = stack[t][k] /\ f.on \in Bodies /\ f.op \in Ops /\ f.left \in [Bodies -> Nat]
    <3>1. stack[t][k] \in FrameType
      BY CallsOK
    <3>2. stack[t][k].on \in Bodies /\ stack[t][k].op \in Ops /\ stack[t][k].left \in [Bodies -> Nat]
      BY <3>1 DEF FrameType
    <3> QED
      BY <3>1, <3>2
  <2>2. FrameOK(t, k)
    BY CallsOK
  <2>3. /\ f.op \in OnQuorum => f.on \in Quorums
        /\ f.op = "trigger" => f.on \in Events
        /\ f.op = "member" => k > 1 /\ Is(t, k - 1, "inform", f.src)
        /\ f.op = "cull" => k > 1 /\ (Is(t, k - 1, "publish", f.on) \/ Is(t, k - 1, "hard_end", f.on))
        /\ f.op \notin {"make", "cull", "inform"} => f.left = Nobody
    BY <2>1, <2>2 DEF FrameOK, ShapeOK
  <2>4. stack[t] # << >>
    <3>1. Len(stack[t]) # 0
      BY CallsOK
    <3> QED
      BY <3>1
  <2>5. f.op \in Owners => Live(f.on)
    <3>1. f.op \in Owners => body[f.on].lock
      BY <2>1 DEF IInv, LockInv
    <3> QED
      BY <1>1, <2>1, <3>1
  <2>6. f.op = "inform" => \A x \in Bodies : f.left[x] > 0 => Live(x)
    <3>1. ASSUME f.op = "inform", NEW x \in Bodies, f.left[x] > 0 PROVE Live(x)
      <4>1. body[x].members[f.on] = Telling(t, k, x)
        BY <2>1, <3>1 DEF IInv, LinkInv
      <4>2. Telling(t, k, x) > 0
        BY <2>1, <3>1 DEF Telling
      <4>3. body[x].members[f.on] > 0
        BY <4>1, <4>2
      <4> QED
        BY <1>2, <2>1, <4>3
    <3> QED
      BY <3>1
  <2>7. f.op = "cull" => /\ \A x \in Bodies : f.left[x] > 0 => Live(x)
                         /\ Live(f.on)
    <3>1. ASSUME f.op = "cull", NEW x \in Bodies, f.left[x] > 0 PROVE Live(x)
      <4>1. f.left[x] <= body[f.on].members[x]
        BY <2>1, <2>2, <3>1 DEF FrameOK, CullOK
      <4>2. body[f.on].members[x] \in Nat /\ f.left[x] \in Nat
        BY <2>1, LiveFacts
      <4>3. body[f.on].members[x] > 0
        BY <3>1, <4>1, <4>2
      <4> QED
        BY <1>2, <2>1, <4>3
    <3>2. ASSUME f.op = "cull" PROVE Live(f.on)
      <4>1. Is(t, k, "cull", f.on) /\ ShapeInv
        BY <2>1, <3>2 DEF Is, IInv
      <4>2. k - 1 \in 1..Len(stack[t]) /\ Owns(t, k - 1, f.on)
        BY <1>0, <2>1, <4>1, CullOwner
      <4>3. body[f.on].lock
        BY <4>2 DEF IInv, LockInv, Owns
      <4> QED
        BY <1>1, <2>1, <4>3
    <3> QED
      BY <3>1, <3>2
  <2>8. f.op = "make" => \A x \in Bodies : f.left[x] > 0 => Live(x)
    <3>1. f.op = "make" => \A x \in Bodies : f.left[x] > 0 => held[t][x] > 0
      BY <2>1, <2>2 DEF FrameOK, HandleOK
    <3> QED
      BY <1>3, <3>1
  <2>9. f.op = "member" => Live(f.on)
    <3>1. ASSUME f.op = "member" PROVE Live(f.on)
      <4>1. PICK i : i = k - 1
        OBVIOUS
      <4>2. i \in 1..Len(stack[t]) /\ i + 1 = k /\ i < Len(stack[t]) /\ Is(t, i, "inform", f.src)
        <5>1. Len(stack[t]) \in Nat
          BY CallsOK
        <5> QED
          BY <2>3, <3>1, <4>1, <5>1
      <4>3. stack[t][i] \in FrameType /\ stack[t][i].on \in Bodies
        BY <4>2, CallsOK
      <4>4. PICK y \in Bodies : y = stack[t][i].on /\ stack[t][i].op = "inform"
        BY <4>2, <4>3 DEF Is
      <4>5. body[f.on].members[y] = Telling(t, i, f.on)
        BY <2>1, <4>2, <4>4 DEF IInv, LinkInv
      <4>6. Telling(t, i, f.on) > 0
        <5>1. Is(t, i + 1, "member", f.on)
          BY <2>1, <3>1, <4>2 DEF Is
        <5>2. stack[t][i].left[f.on] \in Nat
          BY <2>1, <4>3 DEF FrameType
        <5> QED
          BY <4>2, <5>1, <5>2 DEF Telling
      <4>7. body[f.on].members[y] > 0
        BY <4>5, <4>6
      <4> QED
        BY <1>2, <2>1, <4>7
    <3> QED
      BY <3>1
  <2>10. f.op \in {"trigger", "inform"} => Live(f.on)
    <3>1. ASSUME f.op \in {"trigger", "inform"} PROVE Live(f.on)
      <4>1. CASE f.on \in Events
        <5>1. Secured(t, f.on)
          BY <2>1, <2>2, <3>1, <4>1 DEF FrameOK, HandleOK
        <5> QED
          BY <1>5, <2>1, <2>4, <5>1
      <4>2. CASE f.on \in Quorums
        <5>1. f.op = "inform"
          BY <2>3, <3>1, <4>2, QuorumAssumption
        <5>2. Counts(f)
          BY <4>2, <5>1 DEF Counts
        <5> QED
          BY <1>4, <2>1, <5>2
      <4> QED
        BY <2>1, <4>1, <4>2 DEF Bodies
    <3> QED
      BY <3>1
  <2>11. f.op \in {"drop", "deref", "hard", "drive", "claimed"} => Live(f.on)
    BY <1>4, <2>1 DEF Counts
  <2>12. Live(f.on)
    BY <2>1, <2>5, <2>7, <2>9, <2>10, <2>11 DEF Ops, Owners
  <2>13. \A x \in Bodies : f.left[x] > 0 => Live(x)
    BY <2>3, <2>6, <2>7, <2>8, NobodyFacts
  <2> QED
    BY <2>1, <2>12, <2>13
<1>7. ASSUME NEW t \in Threads, NEW i \in 1..Len(queue[t])
      PROVE  Live(queue[t][i])
  <2>1. queue[t][i] \in Bodies
    BY <1>0, ElementOfSeq DEF TypeOK
  <2>2. QueueCount(queue[t][i]) >= 1
    BY <2>1, Referrers DEF IInv
  <2>3. body[queue[t][i]].ref >= 1
    BY <2>1, <2>2, FiniteRefs
  <2> QED
    BY <1>1, <2>1, <2>3
<1>8. ASSUME NEW c \in Coroutines, at[c] # None PROVE Live(at[c])
  <2>1. at[c] \in Bodies
    BY <1>0, <1>8 DEF TypeOK
  <2>2. AtCount(at[c]) >= 1
    BY <2>1, Referrers DEF IInv
  <2>3. body[at[c]].ref >= 1
    BY <2>1, <2>2, FiniteRefs
  <2> QED
    BY <1>1, <2>1, <2>3
<1>9. ASSUME NEW x \in Bodies, NEW y \in Bodies, body[x].quorums[y] > 0 PROVE Live(y)
  <2>1. ~body[x].triggered
    <3>1. BodyOK(x, body[x])
      BY LiveFacts
    <3> QED
      BY <1>9, <3>1, NobodyFacts DEF BodyOK
  <2>2. ~Informs(x)
    BY <2>1 DEF IInv, OnceInv, OnceOK, Informs, Is
  <2>3. body[y].members[x] > 0
    BY <1>9, <2>2 DEF IInv, LinkInv
  <2> QED
    BY <1>2, <2>3
<1>10. \A t \in Threads : DOMAIN stack[t] = 1..Len(stack[t]) /\ DOMAIN queue[t] = 1..Len(queue[t])
  BY <1>0 DEF TypeOK
<1> QED
  BY <1>2, <1>3, <1>6, <1>7, <1>8, <1>9, <1>10 DEF NoDangling, Frames

LEMMA NoLeakHolds ==
    ASSUME IInv
    PROVE  NoLeak
<1>0. TypeOK
  BY DEF IInv
<1>1. \A t \in Threads : DOMAIN stack[t] = 1..Len(stack[t]) /\ DOMAIN queue[t] = 1..Len(queue[t])
  BY <1>0 DEF TypeOK
<1> DEFINE Used(x) ==
      \/ \E t \in Threads : \/ held[t][x] > 0 \/ x \in Range(queue[t])
                            \/ \E f \in Frames(t) : f.on = x \/ f.left[x] > 0
      \/ \E c \in Coroutines : at[c] = x
      \/ \E q \in Quorums : Live(q) /\ body[q].members[x] > 0
<1>2. ASSUME NEW x \in Bodies, NEW t \in Threads, NEW k \in 1..Len(stack[t]),
             stack[t][k].on = x \/ stack[t][k].left[x] > 0
      PROVE  Used(x)
  <2>1. stack[t][k] \in Frames(t)
    BY <1>1 DEF Frames
  <2> QED
    BY <1>2, <2>1
<1>3. ASSUME NEW x \in Bodies, body[x].ref >= 1
      PROVE  Used(x)
  <2>1. /\ HeldCount(x) \in Nat /\ QueueCount(x) \in Nat /\ AtCount(x) \in Nat
        /\ MemCount(x) \in Nat /\ CallCount(x) \in Nat
        /\ body[x].ref = HeldCount(x) + QueueCount(x) + AtCount(x) + MemCount(x) + CallCount(x)
    BY FiniteRefs
  <2>2. HeldCount(x) # 0 \/ QueueCount(x) # 0 \/ AtCount(x) # 0 \/ MemCount(x) # 0 \/ CallCount(x) # 0
    BY <1>3, <2>1
  <2>3. Cardinality({}) = 0
    BY FS_EmptySet
  <2>4. CASE HeldCount(x) # 0
    <3>1. PICK p \in HeldRefs(x) : TRUE
      BY <2>3, <2>4 DEF HeldCount
    <3>2. p[1] \in Threads /\ p[2] \in 1..held[p[1]][x]
      BY <3>1 DEF HeldRefs
    <3>3. held[p[1]][x] \in Nat
      BY <1>0, <3>2 DEF TypeOK
    <3>4. held[p[1]][x] > 0
      BY <3>2, <3>3
    <3> QED
      BY <3>2, <3>4
  <2>5. CASE QueueCount(x) # 0
    <3>1. PICK p \in QueueRefs(x) : TRUE
      BY <2>3, <2>5 DEF QueueCount
    <3>2. p[1] \in Threads /\ p[2] \in 1..Len(queue[p[1]]) /\ queue[p[1]][p[2]] = x
      BY <3>1 DEF QueueRefs
    <3>3. x \in Range(queue[p[1]])
      BY <1>1, <3>2 DEF Range
    <3> QED
      BY <3>2, <3>3
  <2>6. CASE AtCount(x) # 0
    <3>1. PICK c \in AtRefs(x) : TRUE
      BY <2>3, <2>6 DEF AtCount
    <3>2. c \in Coroutines /\ at[c] = x
      BY <3>1 DEF AtRefs
    <3> QED
      BY <3>2
  <2>7. CASE MemCount(x) # 0
    <3>1. PICK p \in MemRefs(x) : TRUE
      BY <2>3, <2>7 DEF MemCount
    <3>2. PICK q \in Bodies : q = p[1] /\ p[2] \in 1..body[q].members[x]
      BY <3>1 DEF MemRefs
    <3>3. body[q].members \in [Bodies -> Nat] /\ BodyOK(q, body[q])
      BY LiveFacts
    <3>4. body[q].members[x] > 0
      BY <3>2, <3>3
    <3>5. q \in Quorums
      BY <3>3, <3>4, NobodyFacts DEF BodyOK, Bodies
    <3>6. Live(q)
      BY <3>4, LiveFacts DEF Live
    <3> QED
      BY <3>4, <3>5, <3>6
  <2>8. CASE CallCount(x) # 0
    <3>1. PICK p \in CallRefs(x) : TRUE
      BY <2>3, <2>8 DEF CallCount
    <3>2. p[1] \in Threads /\ p[2] \in 1..Len(stack[p[1]]) /\ stack[p[1]][p[2]].on = x
      BY <3>1 DEF CallRefs
    <3> QED
      BY <1>2, <3>2
  <2> QED
    BY <2>2, <2>4, <2>5, <2>6, <2>7, <2>8
<1>4. ASSUME NEW x \in Bodies, Live(x), body[x].ref = 0
      PROVE  Used(x)
  <2>1. x \in Quorums
    <3>1. BodyOK(x, body[x])
      BY LiveFacts
    <3>2. x \notin Events
      BY <1>4, <3>1 DEF BodyOK, Live
    <3> QED
      BY <3>2 DEF Bodies
  <2>2. CASE body[x].lock
    <3>0. PICK t \in Threads : \E k \in 1..Len(stack[t]) : Owns(t, k, x)
      BY <2>2 DEF IInv, LockInv
    <3>1. PICK k \in 1..Len(stack[t]) : Owns(t, k, x)
      BY <3>0
    <3>2. stack[t][k].on = x
      BY <3>1 DEF Owns
    <3> QED
      BY <1>2, <3>2
  <2>3. CASE \E t \in Threads : \E k \in 1..Len(stack[t]) : Is(t, k, "hard_end", x)
    BY <1>2, <2>3 DEF Is
  <2>4. CASE Settling(x) /\ ~body[x].lock
    <3>1. body[x].members # Nobody /\ body[x].members \in [Bodies -> Nat]
      BY <1>4, <2>1, <2>4, LiveFacts DEF IInv, ZeroInv
    <3>2. PICK y \in Bodies : body[x].members[y] # 0
      BY <3>1, BagEmpty
    <3>3. body[x].members[y] > 0 /\ body[y].triggered
      BY <2>4, <3>1, <3>2 DEF Settling
    <3>4. body[y].quorums = Nobody
      BY <3>3, LiveFacts DEF BodyOK
    <3>5. Informs(y)
      BY <3>2, <3>4, NobodyFacts DEF IInv, LinkInv
    <3>0. PICK t \in Threads : \E k \in 1..Len(stack[t]) : Is(t, k, "inform", y)
      BY <3>5 DEF Informs
    <3>6. PICK k \in 1..Len(stack[t]) : Is(t, k, "inform", y)
      BY <3>0
    <3>7. body[x].members[y] = Telling(t, k, x)
      BY <3>6 DEF IInv, LinkInv, Is
    <3>8. CASE k < Len(stack[t]) /\ Is(t, k + 1, "member", x)
      <4>1. k + 1 \in 1..Len(stack[t])
        <5>1. Len(stack[t]) \in Nat
          BY CallsOK
        <5> QED
          BY <3>8, <5>1
      <4> QED
        BY <1>2, <3>8, <4>1 DEF Is
    <3>9. CASE ~(k < Len(stack[t]) /\ Is(t, k + 1, "member", x))
      <4>1. stack[t][k].left[x] \in Nat
        BY CallsOK DEF FrameType
      <4>2. stack[t][k].left[x] > 0
        BY <3>3, <3>7, <3>9, <4>1 DEF Telling
      <4> QED
        BY <1>2, <4>2
    <3> QED
      BY <3>8, <3>9
  <2> QED
    BY <1>4, <2>1, <2>2, <2>3, <2>4 DEF IInv, ZeroInv
<1>5. ASSUME NEW x \in Bodies, Live(x) PROVE Used(x)
  <2>1. body[x].ref \in Nat
    BY LiveFacts
  <2>2. body[x].ref >= 1 \/ body[x].ref = 0
    BY <2>1
  <2> QED
    BY <1>3, <1>4, <1>5, <2>1, <2>2
<1> QED
  BY <1>5 DEF NoLeak

-----------------------------------------------------------------------------
(* The theorems. *)

LEMMA InvariantHolds ==
    ASSUME Prompt
    PROVE  Spec => []IInv
<1>1. Init => IInv
  BY InitInv
<1>2. IInv /\ [Next]_vars => IInv'
  BY NextInv
<1> QED
  BY <1>1, <1>2, PTL DEF Spec

\* Bodies, the calls on the stacks, queues, handles and coroutines keep their types
\* through every operation: counts stay natural numbers, so no decrement of refcount_
\* goes below zero, and a call made on the way has what its operation expects.
THEOREM QuorumTypeCorrect ==
    ASSUME Prompt
    PROVE  Spec => []TypeOK
<1>1. IInv => TypeOK
  BY DEF IInv
<1> QED
  BY <1>1, InvariantHolds, PTL

\* No handle, queue, coroutine, listener or call refers to a deleted body: deref and
\* hard_deref delete only what trigger_unlock, cull_members and trigger_member of the
\* other threads are done with, however they interleave and quorums are nested.
THEOREM QuorumNoDangling ==
    ASSUME Prompt
    PROVE  Spec => []NoDangling
<1>1. IInv => NoDangling
  BY NoDanglingHolds
<1> QED
  BY <1>1, InvariantHolds, PTL

\* A body lives only while something refers to it or a call that will delete it is
\* on the way: the last reference that goes, through deref, a cull or the end of a
\* trigger, takes the body along.
THEOREM QuorumNoLeak ==
    ASSUME Prompt
    PROVE  Spec => []NoLeak
<1>1. IInv => NoLeak
  BY NoLeakHolds
<1> QED
  BY <1>1, InvariantHolds, PTL

=============================================================================
