-------------------------- MODULE DriverWakeProofs --------------------------
(***************************************************************************)
(* No wakeup is lost, for any number of posting threads and posts.         *)
(*                                                                         *)
(* The argument: whoever holds lock_ makes it non-zero from the            *)
(* compare-and-swap on, so a poster whose load of wakefd_ came too early   *)
(* to see the driver armed took the lock before that, and either still     *)
(* holds it or has left df_nonempty behind when the driver looks again.    *)
(* A poster that takes the lock after that look finds wakefd_ set.         *)
(***************************************************************************)
EXTENDS DriverWake, TLAPS

\* The lock bit has exactly one owner.
Holding(p) == ppc[p] \in {"append", "unlock", "overtook", "late"}

LockInv ==
    /\ lock_.lock <=> dpc = "unlock" \/ \E p \in Posters : Holding(p)
    /\ \A p, q \in Posters : Holding(p) /\ Holding(q) => p = q
    /\ dpc = "unlock" => \A p \in Posters : ~Holding(p)

\* A non-empty list is announced, or will be when its owner lets go; the driver
\* leaves the lists empty when it holds the lock.
ListInv ==
    /\ migrate_ # << >> \/ migrate_fd_close_ # << >> =>
         lock_.nonempty \/ \E p \in Posters : ppc[p] \in {"unlock", "overtook", "late"}
    /\ dpc = "unlock" => migrate_ = << >> /\ migrate_fd_close_ = << >>

\* What the driver has established when it blocks.
SleepInv ==
    /\ dpc \in {"recheck", "wait"} => wakefd_
    /\ dpc = "wait" /\ block => \A p \in Posters : ppc[p] # "late"
    /\ dpc = "wait" /\ block /\ lock_.nonempty /\ ~eventfd => \E p \in Posters : WillWrite(p)

\* A thread inside a post has begun one.
BegunInv == \A p \in Posters : ppc[p] # "idle" => posted[p] >= 1

IInv == TypeOK /\ LockInv /\ ListInv /\ SleepInv /\ BegunInv

-----------------------------------------------------------------------------
\* Initially nobody holds anything.
LEMMA InitIInv == Init => IInv
  <1> SUFFICES ASSUME Init PROVE IInv
    OBVIOUS
  <1>0. << >> \in Seq(Posts)
    OBVIOUS
  <1>b. batch \in [asap : Seq(Posts), close : Seq(Posts)]
    BY <1>0 DEF Init
  <1>l. lock_ \in [lock : BOOLEAN, nonempty : BOOLEAN]
    BY DEF Init, Free
  <1>p. posted \in [Posters -> 0 .. MaxPosts] /\ ppc \in [Posters -> PosterLabels]
    BY WakeAssumption DEF Init, PosterLabels
  <1>s. /\ migrate_ \in Seq(Posts) /\ migrate_fd_close_ \in Seq(Posts)
        /\ asap_ \in Seq(Posts) /\ ran \in Seq(Posts)
    BY <1>0 DEF Init
  <1>1. TypeOK
    BY <1>b, <1>l, <1>p, <1>s DEF Init, TypeOK, DriverLabels
  <1>2. LockInv /\ ListInv /\ SleepInv /\ BegunInv
    BY DEF Init, LockInv, ListInv, SleepInv, BegunInv, Holding, Free
  <1> QED
    BY <1>1, <1>2 DEF IInv

\* The goal property is what remains of SleepInv once the lists are considered.
LEMMA IInvNoLostWakeup == IInv => NoLostWakeup
  <1> SUFFICES ASSUME IInv, dpc = "wait", block, ~eventfd,
                      migrate_ # << >> \/ migrate_fd_close_ # << >>
               PROVE  \E p \in Posters : WillWrite(p)
    BY DEF NoLostWakeup
  <1> QED
    BY DEF IInv, ListInv, SleepInv, WillWrite

-----------------------------------------------------------------------------
(* Every action preserves the invariant. *)

\* The steps of a posting thread preserve the invariant.
LEMMA PosterInv ==
    ASSUME IInv, NEW p \in Posters, Post(p) \/ Poster(p)
    PROVE  IInv'
  <1> USE DEF IInv
  <1>1. CASE Post(p)
    <2> USE <1>1 DEF Post, Goto, driver_vars, lists
    <2>1. TypeOK'
      BY WakeAssumption DEF TypeOK, PosterLabels
    <2>2. LockInv' /\ ListInv' /\ SleepInv' /\ BegunInv'
      BY SMTT(60) DEF TypeOK, LockInv, ListInv, SleepInv, BegunInv, Holding, WillWrite
    <2> QED
      BY <2>1, <2>2
  <1>2. CASE Lock(p)
    <2> USE <1>2 DEF Lock, Goto, driver_vars, lists
    <2>1. TypeOK'
      BY DEF TypeOK, PosterLabels
    <2>2. LockInv' /\ ListInv' /\ SleepInv' /\ BegunInv'
      BY DEF TypeOK, LockInv, ListInv, SleepInv, BegunInv, Holding, WillWrite
    <2> QED
      BY <2>1, <2>2
  <1>3. CASE EmplaceBack(p)
    <2> USE <1>3 DEF EmplaceBack, Goto, driver_vars
    <2>0. <<p, posted[p]>> \in Posts
      BY WakeAssumption DEF TypeOK, Posts, BegunInv
    <2>3. \A s \in Seq(Posts) : Append(s, <<p, posted[p]>>) \in Seq(Posts)
      <3> DEFINE x == <<p, posted[p]>>
      <3>1. x \in Posts
        BY <2>0
      <3> HIDE DEF x
      <3>2. \A s \in Seq(Posts) : Append(s, x) \in Seq(Posts)
        BY <3>1
      <3> QED
        BY <3>2 DEF x
    <2>4. migrate_' \in Seq(Posts) /\ migrate_fd_close_' \in Seq(Posts)
      BY <2>3 DEF TypeOK
    <2>1. TypeOK'
      BY <2>4 DEF TypeOK, PosterLabels
    <2>2. LockInv' /\ ListInv' /\ SleepInv' /\ BegunInv'
      BY SMTT(60) DEF TypeOK, LockInv, ListInv, SleepInv, BegunInv, Holding, WillWrite
    <2> QED
      BY <2>1, <2>2
  <1>4. CASE Flush(p)
    <2> USE <1>4 DEF Flush, Goto, driver_vars, lists
    <2>1. TypeOK'
      BY DEF TypeOK, PosterLabels
    <2>2. LockInv' /\ ListInv' /\ SleepInv' /\ BegunInv'
      BY ZenonT(60) DEF TypeOK, LockInv, ListInv, SleepInv, BegunInv, Holding, WillWrite
    <2> QED
      BY <2>1, <2>2
  <1>5. CASE LoadWakefd(p)
    <2>0. /\ UNCHANGED <<lock_, migrate_, migrate_fd_close_, wakefd_, eventfd, posted>>
          /\ UNCHANGED <<asap_, ran, dpc, batch, block>>
          /\ \/ ppc[p] = "stored" /\ wakefd_ /\ ppc' = [ppc EXCEPT ![p] = "write"]
             \/ ppc[p] = "stored" /\ ~wakefd_ /\ ppc' = [ppc EXCEPT ![p] = "idle"]
             \/ ppc[p] = "unlock" /\ wakefd_ /\ ppc' = [ppc EXCEPT ![p] = "overtook"]
             \/ ppc[p] = "unlock" /\ ~wakefd_ /\ ppc' = [ppc EXCEPT ![p] = "late"]
      BY <1>5 DEF LoadWakefd, Goto, driver_vars, lists
    <2>1. TypeOK'
      BY <2>0 DEF TypeOK, PosterLabels
    <2>2. LockInv' /\ ListInv' /\ BegunInv'
      BY <2>0, ZenonT(60) DEF TypeOK, LockInv, ListInv, BegunInv, Holding
    <2>3. SleepInv'
      BY <2>0 DEF TypeOK, SleepInv, WillWrite
    <2> QED
      BY <2>1, <2>2, <2>3
  <1>6. CASE WriteEventfd(p)
    <2> USE <1>6 DEF WriteEventfd, Goto, driver_vars, lists
    <2>1. TypeOK'
      BY DEF TypeOK, PosterLabels
    <2>2. LockInv' /\ ListInv' /\ SleepInv' /\ BegunInv'
      BY DEF TypeOK, LockInv, ListInv, SleepInv, BegunInv, Holding, WillWrite
    <2> QED
      BY <2>1, <2>2
  <1> QED
    BY <1>1, <1>2, <1>3, <1>4, <1>5, <1>6 DEF Poster

\* The steps of the driver preserve the invariant.
LEMMA DriverInv ==
    ASSUME IInv, Driver \/ OtherReturn
    PROVE  IInv'
  <1> USE DEF IInv
  <1>1. CASE Swap
    <2> USE <1>1 DEF Swap, poster_vars
    <2>0. << >> \in Seq(Posts) /\ batch' \in [asap : Seq(Posts), close : Seq(Posts)]
      BY DEF TypeOK
    <2>1. TypeOK'
      BY <2>0 DEF TypeOK, DriverLabels
    <2>2. LockInv' /\ ListInv' /\ SleepInv' /\ BegunInv'
      BY DEF TypeOK, LockInv, ListInv, SleepInv, BegunInv, Holding
    <2> QED
      BY <2>1, <2>2
  <1>2. CASE FinishMigrate
    <2> /\ dpc = "unlock" /\ dpc' = "run" /\ lock_' = Free
        /\ asap_' = asap_ \o batch.asap /\ ran' = ran \o batch.close
        /\ batch' = [asap |-> << >>, close |-> << >>]
        /\ UNCHANGED <<migrate_, migrate_fd_close_, wakefd_, eventfd, block, ppc, posted>>
      BY <1>2 DEF FinishMigrate, poster_vars, lists
    <2>0. /\ batch.asap \in Seq(Posts) /\ batch.close \in Seq(Posts)
          /\ asap_ \in Seq(Posts) /\ ran \in Seq(Posts) /\ << >> \in Seq(Posts)
      BY DEF TypeOK
    <2>1. asap_' \in Seq(Posts) /\ ran' \in Seq(Posts)
      BY <2>0
    <2>3. batch' \in [asap : Seq(Posts), close : Seq(Posts)]
      BY <2>0
    <2>5. lock_' \in [lock : BOOLEAN, nonempty : BOOLEAN] /\ dpc' \in DriverLabels
      BY DEF DriverLabels, Free
    <2>4. TypeOK'
      <3> /\ UNCHANGED <<migrate_, migrate_fd_close_, wakefd_, eventfd, block, ppc, posted>>
        OBVIOUS
      <3> QED
        BY <2>1, <2>3, <2>5 DEF TypeOK
    <2>2. LockInv' /\ ListInv' /\ SleepInv' /\ BegunInv'
      BY DEF TypeOK, LockInv, ListInv, SleepInv, BegunInv, Holding, Free
    <2> QED
      BY <2>2, <2>4
  <1>3. CASE Recheck
    <2> USE <1>3 DEF Recheck, poster_vars, lists
    <2>0. block' \in BOOLEAN
      BY Zenon
    <2>1. TypeOK'
      BY <2>0 DEF TypeOK, DriverLabels
    <2>2. LockInv' /\ ListInv' /\ BegunInv'
      BY DEF LockInv, ListInv, BegunInv, Holding
    <2>3. ~Busy => ~lock_.nonempty /\ \A p \in Posters : ppc[p] # "late"
      BY DEF LockInv, Holding, Busy, Free
    <2>4. SleepInv'
      BY <2>3 DEF SleepInv
    <2> QED
      BY <2>1, <2>2, <2>4
  <1>4. CASE RunAsap
    <2> USE <1>4 DEF RunAsap, poster_vars, lists
    <2>1. TypeOK'
      BY DEF TypeOK
    <2>2. LockInv' /\ ListInv' /\ SleepInv' /\ BegunInv'
      BY DEF LockInv, ListInv, SleepInv, BegunInv, Holding, WillWrite
    <2> QED
      BY <2>1, <2>2
  <1>5. CASE Import \/ RanAsap \/ Timeout \/ Arm \/ EpollWait \/ OtherReturn \/ Disarm \/ Drain
    <2> USE <1>5 DEF Import, RanAsap, Timeout, Arm, EpollWait, OtherReturn, Disarm, Drain,
                     poster_vars, lists
    <2>1. TypeOK'
      BY DEF TypeOK, DriverLabels, Busy
    <2>2. LockInv' /\ ListInv' /\ BegunInv'
      BY DEF LockInv, ListInv, BegunInv, Holding
    <2>3. SleepInv'
      BY DEF SleepInv, WillWrite
    <2> QED
      BY <2>1, <2>2, <2>3
  <1> QED
    BY <1>1, <1>2, <1>3, <1>4, <1>5 DEF Driver

-----------------------------------------------------------------------------
(* Theorems. *)

\* The inductive invariant holds throughout.
LEMMA Invariance == Spec => []IInv
  <1>1. IInv /\ [Next]_vars => IInv'
    <2> SUFFICES ASSUME IInv, [Next]_vars PROVE IInv'
      OBVIOUS
    <2>1. CASE Next
      BY <2>1, PosterInv, DriverInv DEF Next
    <2>2. CASE UNCHANGED vars
      BY <2>2 DEF vars, driver_vars, poster_vars, lists, IInv, TypeOK, LockInv, ListInv,
                  SleepInv, BegunInv, Holding, WillWrite
    <2> QED
      BY <2>1, <2>2
  <1> QED
    BY <1>1, InitIInv, PTL DEF Spec

\* Every variable of the wakeup protocol keeps its type.
THEOREM WakeTypeCorrect == Spec => []TypeOK
  BY Invariance, PTL DEF IInv

\* Whatever the number of threads and posts, and even when a poster's unlocking
\* store becomes visible after its load of wakefd_: a driver blocked in
\* epoll_wait with work on its lists has its wakeup coming.
THEOREM WakeNoLostWakeup == Spec => []NoLostWakeup
  BY Invariance, IInvNoLostWakeup, PTL

=============================================================================
