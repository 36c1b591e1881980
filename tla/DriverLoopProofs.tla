-------------------------- MODULE DriverLoopProofs --------------------------
(***************************************************************************)
(* Proofs about DriverLoop, for any set of events, any quota, delays and   *)
(* bounds: in virtual time the clock jumps only when every coroutine is    *)
(* blocked, and then to the time of the first timer, which somebody waits  *)
(* for; loop() returns only when no timer, keepalive or guard is left.     *)
(***************************************************************************)
EXTENDS DriverLoop, WellFoundedInduction, TLAPS

-----------------------------------------------------------------------------
(* What the operators of DriverLoop return. *)

\* A set of natural numbers has a least element.
LEMMA LeastNat ==
    ASSUME NEW S \in SUBSET Nat, S # {}
    PROVE  \E x \in S : \A y \in S : x <= y
<1>1. \E x \in S : \A y \in S : ~(<<y, x>> \in OpToRel(<, Nat))
  BY NatLessThanWellFounded, WFMin
<1>2. ASSUME NEW x \in S, NEW y \in S, ~(<<y, x>> \in OpToRel(<, Nat)) PROVE x <= y
  <2>1. ~(y < x)  BY <1>2, Zenon DEF OpToRel
  <2> QED  BY <2>1
<1> QED  BY <1>1, <1>2

\* A heap that is not empty has a top: an entry of it that no other precedes.
LEMMA TopIsFirst ==
    ASSUME NEW heap \in SUBSET [ev : Events, when : Nat, order : Nat], heap # {}
    PROVE  Top(heap) \in heap /\ \A y \in heap : ~Before(y, Top(heap))
<1>1. PICK t \in {x.when : x \in heap} : \A u \in {x.when : x \in heap} : t <= u
  <2> {x.when : x \in heap} \in SUBSET Nat /\ {x.when : x \in heap} # {}  OBVIOUS
  <2> QED  BY LeastNat
<1> PICK first : first = {x \in heap : x.when = t}  OBVIOUS
<1>2. PICK o \in {x.order : x \in first} : \A u \in {x.order : x \in first} : o <= u
  <2> {x.order : x \in first} \in SUBSET Nat /\ {x.order : x \in first} # {}  BY <1>1
  <2> QED  BY LeastNat
<1>3. PICK x \in first : x.order = o  BY <1>2
<1>4. x \in heap /\ x.when = t  BY <1>3
<1>5. ASSUME NEW y \in heap PROVE ~Before(y, x)
  <2>1. t <= y.when /\ (y.when = t => o <= y.order)
    <3>1. y.when \in {z.when : z \in heap}  OBVIOUS
    <3>2. ASSUME y.when = t PROVE y.order \in {z.order : z \in first}  BY <3>2
    <3> QED  BY <1>1, <1>2, <3>1, <3>2
  <2>2. y.when \in Nat /\ y.order \in Nat /\ t \in Nat /\ o \in Nat
    BY <1>1, <1>2
  <2> QED  BY <1>3, <1>4, <2>1, <2>2 DEF Before
<1> QED  BY <1>4, <1>5 DEF Top

\* cull() leaves an entry on top that somebody waits for.
LEMMA CullTop ==
    ASSUME NEW heap \in SUBSET [ev : Events, when : Nat, order : Nat], Cull(heap) # {}
    PROVE  ~Empty(Top(Cull(heap)).ev)
<1> PICK rest : rest = Cull(heap)  OBVIOUS
<1>1. rest \in SUBSET heap  BY DEF Cull
<1>2. Top(rest) \in rest /\ \A y \in rest : ~Before(y, Top(rest))  BY <1>1, TopIsFirst
<1>3. PICK y \in heap : ~Empty(y.ev) /\ (y = Top(rest) \/ Before(y, Top(rest)))
  BY <1>2 DEF Cull
<1>4. y \in rest  BY <1>3 DEF Cull
<1> QED  BY <1>2, <1>3, <1>4

\* cull() loses no entry that somebody waits for.
LEMMA CullKeeps ==
    ASSUME NEW heap, NEW x \in heap, ~Empty(x.ev)
    PROVE  x \in Cull(heap)
BY DEF Cull

\* Pruning keeps every keepalive that is not triggered.
LEMMA KeepalivesKept ==
    ASSUME keepalives_ \in Seq(Events)
    PROVE  /\ LiveKeepalives \in Seq(Events)
           /\ \A e \in Range(keepalives_) : st[e] = "triggered" \/ e \in Range(LiveKeepalives)
<1> DEFINE live == {i \in DOMAIN keepalives_ : st[keepalives_[i]] # "triggered"}
           last == CHOOSE i \in live \union {0} : \A j \in live : j <= i
<1>1. DOMAIN keepalives_ = 1 .. Len(keepalives_) /\ Len(keepalives_) \in Nat  OBVIOUS
<1>2. \E i \in live \union {0} : \A j \in live : j <= i
  <2> DEFINE room == {Len(keepalives_) - i : i \in live \union {0}}
  <2>1. room \in SUBSET Nat /\ room # {}  BY <1>1
  <2> HIDE DEF room
  <2>2. PICK r \in room : \A s \in room : r <= s  BY <2>1, LeastNat
  <2>3. PICK i \in live \union {0} : r = Len(keepalives_) - i  BY DEF room
  <2>4. \A j \in live : Len(keepalives_) - j \in room  BY DEF room
  <2> QED  BY <1>1, <2>2, <2>3, <2>4
<1>3. last \in live \union {0} /\ \A j \in live : j <= last
  <2> HIDE DEF live
  <2> QED  BY <1>2
<1>4. LiveKeepalives = SubSeq(keepalives_, 1, last)  BY DEF LiveKeepalives
<1>5. last \in 0 .. Len(keepalives_)  BY <1>1, <1>3
<1> HIDE DEF last
<1>6. /\ LiveKeepalives \in Seq(Events)
      /\ DOMAIN LiveKeepalives = 1 .. last
      /\ \A i \in 1 .. last : LiveKeepalives[i] = keepalives_[i]
  BY <1>1, <1>4, <1>5
<1>7. ASSUME NEW e \in Range(keepalives_), st[e] # "triggered" PROVE e \in Range(LiveKeepalives)
  <2>1. PICK i \in DOMAIN keepalives_ : keepalives_[i] = e  BY DEF Range
  <2>2. i \in 1 .. last  BY <1>1, <1>3, <1>5, <1>7, <2>1
  <2> QED  BY <1>6, <2>1, <2>2 DEF Range
<1> QED  BY <1>6, <1>7

-----------------------------------------------------------------------------
(* The invariant. *)

\* Whatever was given to keepalive() is triggered, or keepalives_ still has it.
KeptInv == \A e \in kept : st[e] = "triggered" \/ e \in Range(keepalives_)

\* guard_count_ counts the guards alive, except between clear() and the return.
GuardInv == GuardsSurvive \/ clearing_ \/ guard_count_ = guards

\* When the time is updated, the top of the heap is a timer somebody waits for.
TopInv == pc = "time" /\ timed_ # {} => ~Empty(Top(timed_).ev)

IInv == TypeOK /\ KeptInv /\ GuardInv /\ TopInv

LEMMA InitIInv == Init => IInv
<1> SUFFICES ASSUME Init PROVE IInv  OBVIOUS
<1>1. << >> \in Seq(Events)  OBVIOUS
<1>2. TypeOK
  <2>1. asap_ \in Seq(Events) /\ keepalives_ \in Seq(Events)  BY <1>1 DEF Init
  <2>2. /\ st \in [Events -> {"new", "pending", "scheduled", "dropped", "triggered"}]
        /\ waiting \in [Events -> BOOLEAN]
    BY DEF Init
  <2>3. /\ guard_count_ \in Int /\ guards \in Nat /\ order_ \in Nat /\ snow_ \in Nat /\ clock \in Nat
        /\ n \in 0 .. Quota
    BY LoopAssumption DEF Init
  <2>4. clearing_ \in BOOLEAN /\ real_time_ \in BOOLEAN /\ timed_ = {} /\ kept = {}  BY Zenon DEF Init
  <2>5. pc \in Labels /\ back \in {"asap", "clearing", "timers"} /\ lt \in {"complete", "poll"}
    BY DEF Init, Labels
  <2> QED  BY <2>1, <2>2, <2>3, <2>4, <2>5 DEF TypeOK
<1>3. KeptInv  BY DEF Init, KeptInv
<1>4. GuardInv  BY DEF Init, GuardInv
<1>5. TopInv  BY DEF Init, TopInv
<1> QED  BY <1>2, <1>3, <1>4, <1>5 DEF IInv

\* The program's calls and a coroutine's suspension.
LEMMA CallKeeps ==
    ASSUME IInv, Call
    PROVE  IInv'
<1> USE LoopAssumption DEF IInv
<1>1. Calling /\ UNCHANGED <<pc, lt, n, back, time>>
  BY DEF Call, Asap, At, Event, Trigger, Drop, Keepalive, NewGuard, DropGuard, Clear, control, time
<1>2. TopInv'  BY <1>1 DEF TopInv, Calling, TypeOK
<1>3. ASSUME NEW e \in Events, Asap(e) PROVE IInv'
  BY <1>1, <1>2, <1>3 DEF Asap, Create, timers, alive, TypeOK, KeptInv, GuardInv, time
<1>4. ASSUME NEW e \in Events, NEW d \in Delays, At(e, d) PROVE IInv'
  <2>1. timed_' = timed_ \union {[ev |-> e, when |-> steady_now + d, order |-> order_ + 1]}
    BY <1>4 DEF At
  <2>2. steady_now \in Nat  BY DEF steady_now, TypeOK
  <2> QED
    BY <1>1, <1>2, <1>4, <2>1, <2>2 DEF At, Create, alive, TypeOK, KeptInv, GuardInv, time
<1>5. ASSUME NEW e \in Events, NEW w \in BOOLEAN, Event(e, w) PROVE IInv'
  BY <1>1, <1>2, <1>5 DEF Event, Create, queues, timers, alive, TypeOK, KeptInv, GuardInv, time
<1>6. ASSUME NEW e \in Events, Trigger(e) PROVE IInv'
  BY <1>1, <1>2, <1>6 DEF Trigger, timers, alive, TypeOK, KeptInv, GuardInv, time
<1>7. ASSUME NEW e \in Events, Drop(e) PROVE IInv'
  BY <1>1, <1>2, <1>7 DEF Drop, Untriggered, queues, timers, alive, TypeOK, KeptInv, GuardInv, time
<1>8. ASSUME NEW e \in Events, Keepalive(e) PROVE IInv'
  <2>1. /\ keepalives_' = Append(keepalives_, e) /\ kept' = kept \union {e}
        /\ UNCHANGED <<asap_, timed_, order_, guard_count_, guards, clearing_, st, waiting>>
    BY <1>8 DEF Keepalive, queues, timers, events
  <2>2. keepalives_' \in Seq(Events)  BY <2>1 DEF TypeOK
  <2>3. Range(keepalives_') = Range(keepalives_) \union {e}
    <3>1. /\ DOMAIN keepalives_ = 1 .. Len(keepalives_) /\ Len(keepalives_) \in Nat
          /\ DOMAIN keepalives_' = 1 .. Len(keepalives_) + 1
          /\ \A i \in 1 .. Len(keepalives_) : keepalives_'[i] = keepalives_[i]
          /\ keepalives_'[Len(keepalives_) + 1] = e
      BY <2>1 DEF TypeOK
    <3> QED  BY <3>1 DEF Range
  <2>4. KeptInv'  BY <2>1, <2>3 DEF KeptInv
  <2> QED  BY <1>1, <1>2, <2>1, <2>2, <2>4 DEF TypeOK, GuardInv, time
<1>9. CASE NewGuard
  BY <1>1, <1>2, <1>9 DEF NewGuard, queues, timers, events, TypeOK, KeptInv, GuardInv, time
<1>10. CASE DropGuard
  BY <1>1, <1>2, <1>10 DEF DropGuard, queues, timers, events, TypeOK, KeptInv, GuardInv, time
<1>11. CASE Clear
  BY <1>1, <1>2, <1>11 DEF Clear, queues, timers, events, alive, TypeOK, KeptInv, GuardInv, time
<1> QED
  BY <1>3, <1>4, <1>5, <1>6, <1>7, <1>8, <1>9, <1>10, <1>11 DEF Call

\* An event that the loop triggers itself.
LEMMA TriggerKeeps ==
    ASSUME IInv, NEW e \in Events, NEW phase \in {"asap", "clearing", "timers"},
           DriverTrigger(e, phase), UNCHANGED <<alive, clearing_, time, lt>>,
           asap_' \in Seq(Events), timed_' \in SUBSET timed_, order_' = order_, n' \in 0 .. Quota
    PROVE  IInv'
<1> USE DEF IInv
<1>1. TypeOK'  BY DEF DriverTrigger, TypeOK, alive, time, Labels
<1>2. KeptInv' /\ GuardInv'  BY DEF DriverTrigger, TypeOK, KeptInv, GuardInv, alive
<1>3. TopInv'  BY DEF DriverTrigger, TopInv
<1> QED  BY <1>1, <1>2, <1>3

\* The loop's own steps.
LEMMA LoopKeeps ==
    ASSUME IInv, Loop
    PROVE  IInv'
<1> USE LoopAssumption DEF IInv
<1>1. CASE RunAsap
  <2>1. /\ Head(asap_) \in Events /\ Tail(asap_) \in Seq(Events) /\ n - 1 \in 0 .. Quota
    BY <1>1 DEF RunAsap, TypeOK
  <2> QED  BY <1>1, <2>1, TriggerKeeps DEF RunAsap, timers
<1>2. ASSUME NEW phase \in {"asap", "clearing", "timers"}, timed_ # {}, PopTimer(phase)
      PROVE  IInv'
  <2>1. timed_ \in SUBSET [ev : Events, when : Nat, order : Nat]  BY DEF TypeOK
  <2>2. Top(timed_) \in timed_  BY <1>2, <2>1, TopIsFirst
  <2>3. Top(timed_).ev \in Events  BY <2>1, <2>2
  <2>4. asap_' \in Seq(Events) /\ n' \in 0 .. Quota /\ order_' = order_ /\ timed_' \in SUBSET timed_
    BY <1>2 DEF PopTimer, TypeOK
  <2> QED  BY <1>2, <2>3, <2>4, TriggerKeeps DEF PopTimer
<1>3. CASE EndAsap
  <2>1. /\ pc' \in {"clearing", "check"} /\ n' = 0
        /\ UNCHANGED <<asap_, timed_, order_, guards, clearing_, snow_, real_time_, clock, st, waiting, lt, back>>
    BY <1>3 DEF EndAsap, queues, timers, time, events
  <2>2. TopInv'  BY <2>1 DEF TopInv
  <2>3. CASE clearing_
    <3>1. keepalives_' = << >> /\ kept' = {} /\ guard_count_' = 0  BY <1>3, <2>3 DEF EndAsap
    <3>2. << >> \in Seq(Events)  OBVIOUS
    <3> QED  BY <2>1, <2>2, <2>3, <3>1, <3>2 DEF TypeOK, KeptInv, GuardInv, Labels
  <2>4. CASE ~clearing_
    <3>1. keepalives_' = LiveKeepalives /\ UNCHANGED <<kept, guard_count_>>
      BY <1>3, <2>4 DEF EndAsap
    <3>2. keepalives_' \in Seq(Events)  BY <3>1, KeepalivesKept DEF TypeOK
    <3>3. \A e \in Range(keepalives_) : st[e] = "triggered" \/ e \in Range(keepalives_')
      BY <3>1, KeepalivesKept DEF TypeOK
    <3>4. KeptInv'  BY <2>1, <3>1, <3>3 DEF KeptInv
    <3> QED  BY <2>1, <2>2, <2>4, <3>1, <3>2, <3>4 DEF TypeOK, GuardInv, Labels
  <2> QED  BY <2>3, <2>4 DEF TypeOK
<1>4. CASE EndClearing
  BY <1>4 DEF EndClearing, queues, timers, alive, time, events, TypeOK, KeptInv, GuardInv, TopInv, Labels
<1>5. CASE Check
  <2>1. /\ timed_' = Cull(timed_) /\ pc' \in {"out", "time"}
        /\ UNCHANGED <<asap_, order_, keepalives_, guard_count_, kept, snow_, real_time_, clock, st, waiting, n, back>>
    BY <1>5 DEF Check, time, events
  <2>2. TypeOK'
    <3>1. timed_' \in SUBSET timed_  BY <2>1 DEF Cull
    <3>2. guards' \in Nat /\ lt' \in {"complete", "poll"}  BY <1>5 DEF Check, TypeOK
    <3>3. clearing_' \in BOOLEAN  BY <1>5, Zenon DEF Check, TypeOK
    <3> QED  BY <2>1, <3>1, <3>2, <3>3 DEF TypeOK, Labels
  <2>3. KeptInv'  BY <2>1 DEF KeptInv
  <2>4. GuardInv'  BY <1>5, <2>1 DEF Check, Idle, GuardInv, TypeOK
  <2>5. TopInv'
    <3>1. \A e : Empty(e)' <=> Empty(e)  BY <2>1 DEF Empty
    <3>2. timed_' # {} => ~Empty(Top(timed_').ev)  BY <2>1, CullTop DEF TypeOK
    <3> QED  BY <2>1, <3>1, <3>2 DEF TopInv, Top
  <2> QED  BY <2>2, <2>3, <2>4, <2>5
<1>6. CASE UpdateTime
  <2>1. snow_' \in Nat
    <3>1. ASSUME timed_ # {} PROVE Top(timed_).when \in Nat  BY <3>1, TopIsFirst DEF TypeOK
    <3> QED  BY <1>6, <3>1 DEF UpdateTime, TypeOK
  <2> QED
    BY <1>6, <2>1 DEF UpdateTime, queues, timers, alive, events, TypeOK, KeptInv, GuardInv, TopInv, Labels
<1>7. CASE EndTimers
  BY <1>7 DEF EndTimers, queues, timers, alive, time, events, TypeOK, KeptInv, GuardInv, TopInv, Labels
<1> QED
  BY <1>1, <1>2, <1>3, <1>4, <1>5, <1>6, <1>7 DEF Loop, ClearTimer, FireTimer, Due

\* Every step keeps the invariant.
LEMMA NextIInv == IInv /\ [Next]_vars => IInv'
<1> SUFFICES ASSUME IInv, [Next]_vars PROVE IInv'  OBVIOUS
<1> USE LoopAssumption DEF IInv
<1>1. CASE Suspend
  BY <1>1 DEF Suspend, queues, timers, alive, events, TypeOK, KeptInv, GuardInv, TopInv, Labels
<1>2. CASE Tick
  <2>1. UNCHANGED <<asap_, timed_, order_, keepalives_, guard_count_, guards, kept, clearing_, snow_,
                    real_time_, st, waiting, pc, lt, n, back>> /\ clock' = clock + 1
    BY <1>2 DEF Tick, queues, timers, alive, events, control
  <2>2. TopInv'  BY <2>1 DEF TopInv, Empty
  <2> QED  BY <2>1, <2>2 DEF TypeOK, KeptInv, GuardInv
<1>3. ASSUME NEW type \in {"complete", "poll"}, CallLoop(type) PROVE IInv'
  BY <1>3 DEF CallLoop, queues, timers, alive, time, events, TypeOK, KeptInv, GuardInv, TopInv, Labels
<1>4. CASE UNCHANGED vars
  <2>1. UNCHANGED <<asap_, timed_, order_, keepalives_, guard_count_, guards, kept, clearing_, snow_,
                    real_time_, clock, st, waiting, pc, lt, n, back>>
    BY <1>4 DEF vars, queues, timers, alive, time, events, control
  <2>2. TopInv'  BY <2>1 DEF TopInv, Empty
  <2> QED  BY <2>1, <2>2 DEF TypeOK, KeptInv, GuardInv
<1> QED  BY <1>1, <1>2, <1>3, <1>4, CallKeeps, LoopKeeps DEF Next

LEMMA Invariance == Spec => []IInv
BY InitIInv, NextIInv, PTL DEF Spec

-----------------------------------------------------------------------------
(* The theorems. *)

\* Every variable of the loop keeps its type.
THEOREM LoopTypeCorrect == Spec => []TypeOK
<1>1. IInv => TypeOK  BY DEF IInv
<1> QED  BY <1>1, Invariance, PTL

\* A step of virtual time by more than a tick finds every coroutine blocked
\* (asap_ is empty) and goes to the earliest timer, which somebody waits for:
\* the time update of driver::loop is the only one, after cull().
THEOREM LoopJumpOnlyWhenIdle == Spec => JumpOnlyWhenIdle
<1> DEFINE Jump == ~real_time_ /\ snow_' > snow_ + 1
                     => /\ asap_ = << >>
                        /\ \E x \in timed_ : ~Empty(x.ev) /\ x.when = snow_'
                        /\ \A x \in timed_ : x.when >= snow_'
<1>1. ASSUME IInv, [Next]_vars PROVE [Jump]_vars
  <2> SUFFICES ASSUME ~real_time_, snow_' > snow_ + 1
               PROVE  /\ asap_ = << >>
                      /\ \E x \in timed_ : ~Empty(x.ev) /\ x.when = snow_'
                      /\ \A x \in timed_ : x.when >= snow_'
    OBVIOUS
  <2>1. snow_ \in Nat  BY <1>1 DEF IInv, TypeOK
  <2>2. UpdateTime
    <3>1. ASSUME Call PROVE snow_' = snow_
      BY <3>1 DEF Call, Asap, At, Event, Trigger, Drop, Keepalive, NewGuard, DropGuard, Clear, time
    <3>2. ASSUME Suspend PROVE snow_' \in {snow_, snow_ + 1}  BY <3>2 DEF Suspend
    <3>3. ASSUME Loop, ~UpdateTime PROVE snow_' = snow_
      BY <3>3 DEF Loop, RunAsap, EndAsap, ClearTimer, EndClearing, Check, FireTimer, EndTimers, PopTimer, time
    <3>4. ASSUME Tick PROVE snow_' = snow_  BY <3>4 DEF Tick
    <3>5. ASSUME NEW type \in {"complete", "poll"}, CallLoop(type) PROVE snow_' = snow_
      BY <3>5 DEF CallLoop, time
    <3>6. ASSUME UNCHANGED vars PROVE snow_' = snow_  BY <3>6 DEF vars, time
    <3> QED  BY <1>1, <2>1, <3>1, <3>2, <3>3, <3>4, <3>5, <3>6 DEF Next
  <2>3. pc = "time" /\ timed_ # {} /\ asap_ = << >> /\ snow_' = Top(timed_).when
    BY <2>1, <2>2 DEF UpdateTime
  <2>4. timed_ \in SUBSET [ev : Events, when : Nat, order : Nat]  BY <1>1 DEF IInv, TypeOK
  <2>5. Top(timed_) \in timed_ /\ \A x \in timed_ : ~Before(x, Top(timed_))
    BY <2>3, <2>4, TopIsFirst
  <2>6. ~Empty(Top(timed_).ev)  BY <1>1, <2>3 DEF IInv, TopInv
  <2>7. \A x \in timed_ : x.when >= Top(timed_).when  BY <2>4, <2>5 DEF Before
  <2> QED  BY <2>3, <2>5, <2>6, <2>7
<1> QED  BY <1>1, Invariance, PTL DEF Spec, JumpOnlyWhenIdle

\* loop() returns, with no clear() on the way, only when every timer in the heap
\* is dead, every event given to keepalive() is triggered and no driver_guard
\* lives; provided that no guard outlives a loop that was cleared.
THEOREM LoopKeepsRunning ==
    ASSUME ~GuardsSurvive
    PROVE  Spec => KeepsRunning
<1> DEFINE Stay == Returns /\ ~clearing_
                     => /\ \A e \in Events : Armed(e) => Empty(e)
                        /\ \A e \in kept : st[e] = "triggered"
                        /\ guards = 0
<1>1. ASSUME IInv, [Next]_vars PROVE [Stay]_vars
  <2> SUFFICES ASSUME Returns, ~clearing_
               PROVE  /\ \A e \in Events : Armed(e) => Empty(e)
                      /\ \A e \in kept : st[e] = "triggered"
                      /\ guards = 0
    OBVIOUS
  <2>1. Check
    <3>1. ~Call  BY DEF Returns, Call, Asap, At, Event, Trigger, Drop, Keepalive, NewGuard, DropGuard, Clear, Calling
    <3>2. ~Suspend /\ ~Tick /\ ~UNCHANGED vars
      BY DEF Returns, Suspend, Tick, vars, control
    <3>3. \A type \in {"complete", "poll"} : ~CallLoop(type)  BY DEF Returns, CallLoop
    <3>4. ASSUME Loop PROVE Check
      BY <3>4 DEF Returns, Loop, RunAsap, EndAsap, ClearTimer, EndClearing, UpdateTime, FireTimer, EndTimers
    <3> QED  BY <1>1, <3>1, <3>2, <3>3, <3>4 DEF Next
  <2>2. Cull(timed_) = {} /\ guard_count_ = 0 /\ keepalives_ = << >>
    BY <2>1 DEF Check, Returns, Idle
  <2>3. ASSUME NEW e \in Events, Armed(e) PROVE Empty(e)  BY <2>2, <2>3, CullKeeps DEF Armed
  <2>4. \A e \in kept : st[e] = "triggered"
    <3>1. Range(keepalives_) = {}  BY <2>2 DEF Range
    <3> QED  BY <1>1, <3>1 DEF IInv, KeptInv
  <2>5. guards = 0  BY <1>1, <2>2 DEF IInv, GuardInv
  <2> QED  BY <2>3, <2>4, <2>5
<1> QED  BY <1>1, Invariance, PTL DEF Spec, KeepsRunning

=============================================================================
