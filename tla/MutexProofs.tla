---------------------------- MODULE MutexProofs ----------------------------
(***************************************************************************)
(* Mutual exclusion, the presence of a waker and the implementation of     *)
(* RWLock, for any number of coroutines, threads and queued requests,      *)
(* cancelled attempts included.                                            *)
(***************************************************************************)
EXTENDS Mutex, FiniteSetTheorems, SequenceTheorems, TLAPS

-----------------------------------------------------------------------------
(* The inductive invariant, one conjunct per idea. *)

\* A word w accounts for the exclusive grantees X and the shared grantees S.
Accounts(w, X, S) ==
    /\ w.excl <= 1
    /\ w.excl = 1 => w.shared = 0
    /\ X # {} => w.excl = 1
    /\ \A c, d \in X : c = d
    /\ IsFiniteSet(S) /\ Cardinality(S) <= w.shared

\* The latch bit stands for exactly one coroutine inside the slow path.
LatchInv ==
    /\ latch_.latch <=> \E c \in Coroutines : pc[c] \in Latched
    /\ \A c, d \in Coroutines : pc[c] \in Latched /\ pc[d] \in Latched => c = d

\* The current word, in memory or in the latch owner's hands, is accurate.
WordInv ==
    /\ ~latch_.latch => Accounts(latch_, Grantees("excl"), Grantees("shared"))
    /\ \A c \in Coroutines : pc[c] \in Latched =>
         ~reg[c].latch /\ Accounts(reg[c], Grantees("excl"), Grantees("shared"))

\* What the local copy of the word satisfies at each label.
RegInv ==
    \A c \in Coroutines :
        /\ pc[c] = "unlock_cas" => FastUnlock(mode[c], reg[c])
        /\ pc[c] = "try_cas" => FastTryShared(reg[c]) /\ mode[c] = "shared"
        /\ pc[c] \in {"trigger", "grant"} => waiters_ # << >>
        /\ pc[c] = "trigger" => allow(Head(waiters_).mode, reg[c])
        /\ pc[c] \in {"decide", "unlatch"} /\ waiters_ # << >> => reg[c].excl + reg[c].shared > 0

\* Which operation and which event a label goes with.
FlowInv ==
    \A c \in Coroutines :
        /\ pc[c] \in {"lock", "decide"} => op[c] = "lock"
        /\ pc[c] \in {"unlock", "unlock_cas"} => op[c] = "unlock"
        /\ event[c] = "triggered" => pc[c] \in {"wait", "timedout"}
        /\ event[c] = "pending" => pc[c] = "wait" \/ (pc[c] = "unlatch" /\ op[c] = "lock")
        /\ pc[c] = "timedout" => c \in Cancels

\* An entry that is not empty belongs to a waiting coroutine, one entry each.
\* The entry that was just triggered and not yet popped is past that.
Settled(i) == i > 1 \/ \A d \in Coroutines : pc[d] # "grant"

EntryInv ==
    /\ \A i \in DOMAIN waiters_ :
         Settled(i) /\ ~waiters_[i].empty =>
            /\ mode[waiters_[i].who] = waiters_[i].mode
            /\ event[waiters_[i].who] = "pending"
    /\ \A i, j \in DOMAIN waiters_ :
         /\ Settled(i) /\ ~waiters_[i].empty
         /\ Settled(j) /\ ~waiters_[j].empty
         /\ waiters_[i].who = waiters_[j].who
         => i = j

\* The next bits of a free latch describe the queue.
QueueInv ==
    ~latch_.latch =>
        /\ waiters_ = << >> <=> latch_.next = "none"
        /\ waiters_ # << >> => latch_.next = Head(waiters_).mode
                                 /\ latch_.excl + latch_.shared > 0

\* A guard that waits owns nothing before its event has triggered, and the
\* flag about to be written is that of a coroutine the lock is accounted to.
OwnedInv ==
    \A c \in Coroutines :
        /\ pc[c] = "wait" /\ owned_[c] => event[c] = "triggered"
        /\ \/ pc[c] = "lock"
           \/ op[c] = "lock" /\ pc[c] \in {"notify", "trigger", "grant", "decide"}
           \/ pc[c] = "unlatch" /\ event[c] = "pending"
           => ~owned_[c]
        /\ pc[c] = "grant" /\ pc[Head(waiters_).who] \in {"wait", "timedout"}
             => event[Head(waiters_).who] = "triggered"

IInv == TypeOK /\ LatchInv /\ WordInv /\ RegInv /\ FlowInv /\ EntryInv /\ QueueInv
          /\ OwnedInv

-----------------------------------------------------------------------------
(* Arithmetic of words. *)

\* Adding a lock to a word leaves a word; so does subtracting one that is there.
LEMMA PlusMinusType ==
    ASSUME NEW w \in Words, NEW m \in Modes
    PROVE  /\ Plus(w, m) \in Words
           /\ Plus(w, m).latch = w.latch /\ Plus(w, m).next = w.next
           /\ Minus(w, m).latch = w.latch /\ Minus(w, m).next = w.next
           /\ m = "shared" => Plus(w, m).excl = w.excl /\ Plus(w, m).shared = w.shared + 1
           /\ m = "excl" => Plus(w, m).excl = w.excl + 1 /\ Plus(w, m).shared = w.shared
           /\ m = "shared" => Minus(w, m).excl = w.excl /\ Minus(w, m).shared = w.shared - 1
           /\ m = "excl" => Minus(w, m).excl = w.excl - 1 /\ Minus(w, m).shared = w.shared
           /\ (m = "shared" /\ w.shared > 0) \/ (m = "excl" /\ w.excl > 0) => Minus(w, m) \in Words
  BY DEF Plus, Minus, Words, Modes

\* Fewer grantees are still accounted for.
LEMMA AccountsFewer ==
    ASSUME NEW w \in Words, NEW X, NEW S, NEW X1 \in SUBSET X, NEW S1 \in SUBSET S,
           Accounts(w, X, S)
    PROVE  Accounts(w, X1, S1)
  <1>1. IsFiniteSet(S1) /\ Cardinality(S1) <= Cardinality(S)
    BY FS_Subset DEF Accounts
  <1>2. Cardinality(S1) \in Nat /\ Cardinality(S) \in Nat
    BY <1>1, FS_CardinalityType DEF Accounts
  <1>3. Cardinality(S1) <= w.shared
    BY <1>1, <1>2 DEF Accounts, Words
  <1>4. (X1 # {} => X # {}) /\ \A c, d \in X1 : c = d
    BY DEF Accounts
  <1> QED
    BY <1>1, <1>3, <1>4 DEF Accounts

\* A grant that allow() permits adds its grantee.
LEMMA AccountsPlus ==
    ASSUME NEW w \in Words, NEW X, NEW S, NEW m \in Modes, NEW c,
           Accounts(w, X, S), allow(m, w),
           NEW X1 \in SUBSET (IF m = "excl" THEN X \cup {c} ELSE X),
           NEW S1 \in SUBSET (IF m = "shared" THEN S \cup {c} ELSE S)
    PROVE  Accounts(Plus(w, m), X1, S1)
  <1>1. /\ IsFiniteSet(S \cup {c}) /\ Cardinality(S \cup {c}) <= Cardinality(S) + 1
        /\ Cardinality(S) \in Nat /\ Cardinality(S \cup {c}) \in Nat
    <2>1. IsFiniteSet(S) /\ IsFiniteSet(S \cup {c})
      BY FS_AddElement DEF Accounts
    <2>2. Cardinality(S) \in Nat /\ Cardinality(S \cup {c}) \in Nat
      BY <2>1, FS_CardinalityType
    <2>3. Cardinality(S \cup {c}) = IF c \in S THEN Cardinality(S) ELSE Cardinality(S) + 1
      BY <2>1, FS_AddElement
    <2> QED
      BY <2>1, <2>2, <2>3
  <1>2. /\ IsFiniteSet(S1) /\ Cardinality(S1) \in Nat
        /\ m = "shared" => Cardinality(S1) <= Cardinality(S) + 1
        /\ m = "excl" => Cardinality(S1) <= Cardinality(S)
    <2>1. CASE m = "shared"
      BY <2>1, <1>1, FS_Subset, FS_CardinalityType DEF Accounts
    <2>2. CASE m = "excl"
      BY <2>2, <1>1, FS_Subset, FS_CardinalityType DEF Accounts
    <2> QED
      BY <2>1, <2>2 DEF Modes
  <1>3. w.excl = 0 /\ X = {} /\ (m = "excl" => w.shared = 0)
    BY DEF allow, Accounts, Words, Modes
  <1>4. X1 \subseteq {c} /\ (m = "shared" => X1 = {})
    BY <1>3 DEF Modes
  <1>5. CASE m = "shared"
    BY <1>1, <1>2, <1>3, <1>4, <1>5, PlusMinusType DEF Accounts, Words
  <1>6. CASE m = "excl"
    <2>1. Plus(w, m).excl = 1 /\ Plus(w, m).shared = 0
      BY <1>3, <1>6, PlusMinusType
    <2>2. Cardinality(S1) <= 0
      BY <1>1, <1>2, <1>3, <1>6 DEF Accounts
    <2>3. \A a, b \in X1 : a = b
      BY <1>4
    <2> QED
      BY <1>2, <2>1, <2>2, <2>3 DEF Accounts
  <1> QED
    BY <1>5, <1>6 DEF Modes

\* A release takes its grantee out, and the count never goes below zero.
LEMMA AccountsMinus ==
    ASSUME NEW w \in Words, NEW X, NEW S, NEW m \in Modes,
           NEW c \in (IF m = "excl" THEN X ELSE S),
           Accounts(w, X, S),
           NEW X1 \in SUBSET (IF m = "excl" THEN X \ {c} ELSE X),
           NEW S1 \in SUBSET (IF m = "shared" THEN S \ {c} ELSE S)
    PROVE  Minus(w, m) \in Words /\ Accounts(Minus(w, m), X1, S1)
  <1>1. /\ IsFiniteSet(S \ {c}) /\ Cardinality(S) \in Nat /\ Cardinality(S \ {c}) \in Nat
        /\ c \in S => Cardinality(S \ {c}) = Cardinality(S) - 1
    BY FS_RemoveElement, FS_CardinalityType DEF Accounts
  <1>2. CASE m = "excl"
    <2>1. w.excl = 1 /\ w.shared = 0 /\ X1 = {} /\ S1 \subseteq S
      BY <1>2 DEF Accounts, Words
    <2>2. IsFiniteSet(S1) /\ Cardinality(S1) <= Cardinality(S) /\ Cardinality(S1) \in Nat
      BY <2>1, FS_Subset, FS_CardinalityType DEF Accounts
    <2> QED
      BY <1>1, <1>2, <2>1, <2>2, PlusMinusType DEF Accounts, Words
  <1>3. CASE m = "shared"
    <2>1. c \in S /\ X1 \subseteq X /\ S1 \subseteq S \ {c}
      BY <1>3
    <2>2. IsFiniteSet(S1) /\ Cardinality(S1) <= Cardinality(S \ {c}) /\ Cardinality(S1) \in Nat
      BY <2>1, <1>1, FS_Subset, FS_CardinalityType
    <2>3. w.shared > 0 /\ w.shared \in Nat /\ w.excl \in Nat
      BY <1>1, <2>1 DEF Accounts, Words
    <2>4. Minus(w, m) \in Words /\ Minus(w, m).excl = w.excl /\ Minus(w, m).shared = w.shared - 1
      BY <1>3, <2>3, PlusMinusType
    <2>5. Cardinality(S1) <= w.shared - 1
      BY <1>1, <2>1, <2>2, <2>3 DEF Accounts
    <2>6. X = {}
      BY <2>3 DEF Accounts
    <2> QED
      BY <2>1, <2>2, <2>3, <2>4, <2>5, <2>6 DEF Accounts
  <1> QED
    BY <1>2, <1>3 DEF Modes

-----------------------------------------------------------------------------
(* The invariant holds initially, and implies the properties. *)

\* An unlocked mutex that nobody uses satisfies the invariant.
LEMMA InitIInv == ASSUME MutexAssumption, Init PROVE IInv
  <1>1. Grantees("excl") = {} /\ Grantees("shared") = {}
    BY DEF Init, Grantees, Granted
  <1>2. Accounts(Unlocked, {}, {})
    BY FS_EmptySet DEF Accounts, Unlocked
  <1>3. TypeOK
    BY DEF Init, TypeOK, Words, Unlocked, Modes, Labels, Resting
  <1>4. LatchInv /\ WordInv
    BY <1>1, <1>2 DEF Init, LatchInv, WordInv, Latched, Unlocked
  <1>5. RegInv /\ FlowInv /\ QueueInv /\ OwnedInv
    BY DEF Init, RegInv, FlowInv, QueueInv, OwnedInv, Unlocked, Resting
  <1>6. EntryInv
    BY DEF Init, EntryInv
  <1> QED
    BY <1>3, <1>4, <1>5, <1>6 DEF IInv

\* The invariant implies the two safety properties.
LEMMA IInvSafe == ASSUME MutexAssumption, IInv PROVE MutualExclusion /\ WaitersHaveWaker
  <1>1. PICK w \in Words : Accounts(w, Grantees("excl"), Grantees("shared"))
    BY DEF IInv, TypeOK, LatchInv, WordInv
  <1>2. ASSUME NEW c \in Coroutines, NEW d \in Coroutines, c # d,
               Inside(c), Inside(d), mode[c] = "excl"
        PROVE  FALSE
    <2>1. c \in Grantees("excl") /\ w.excl = 1 /\ w.shared = 0
      BY <1>1, <1>2 DEF Grantees, Granted, Accounts, Inside
    <2>2. d \in Grantees("shared")
      BY <1>1, <1>2, <2>1 DEF Grantees, Granted, Accounts, Inside, IInv, TypeOK, Modes
    <2>3. Cardinality(Grantees("shared")) = 0
      BY <1>1, <2>1, FS_CardinalityType DEF Accounts
    <2> QED
      BY <1>1, <2>2, <2>3, FS_EmptySet DEF Accounts
  <1>3. MutualExclusion
    BY <1>2 DEF MutualExclusion, IInv, TypeOK, Modes
  <1>4. WaitersHaveWaker
    BY DEF IInv, QueueInv, WaitersHaveWaker
  <1> QED
    BY <1>3, <1>4

-----------------------------------------------------------------------------
(* Every action preserves the invariant. *)

\* A step that changes no word, no entry of the queue and makes nobody a
\* grantee keeps the accounts.
LEMMA WordFrame ==
    ASSUME TypeOK, WordInv, UNCHANGED latch_,
           \A d \in Coroutines : Granted(d)' => Granted(d) /\ mode'[d] = mode[d],
           \A d \in Coroutines : pc'[d] \in Latched => pc[d] \in Latched /\ reg'[d] = reg[d]
    PROVE  WordInv'
  <1>1. Grantees("excl")' \subseteq Grantees("excl") /\ Grantees("shared")' \subseteq Grantees("shared")
    BY DEF Grantees
  <1>2. ASSUME NEW w \in Words, Accounts(w, Grantees("excl"), Grantees("shared"))
        PROVE  Accounts(w, Grantees("excl")', Grantees("shared")')
    BY <1>1, <1>2, AccountsFewer
  <1> QED
    BY <1>2 DEF TypeOK, WordInv

\* What dropping the first entry of a queue does to its length and entries.
LEMMA TailFacts ==
    ASSUME NEW s \in Seq(Waiters), s # << >>
    PROVE  /\ Tail(s) \in Seq(Waiters) /\ Head(s) = s[1] /\ 1 \in DOMAIN s
           /\ \A i \in DOMAIN Tail(s) : i \in Nat /\ i >= 1 /\ i + 1 \in DOMAIN s
                                         /\ Tail(s)[i] = s[i + 1]
  BY HeadTailProperties, LenProperties

\* Every entry of the queue is a waiter.
LEMMA EntryType ==
    ASSUME NEW s \in Seq(Waiters), NEW i \in DOMAIN s
    PROVE  /\ i \in Nat /\ i >= 1 /\ s[i] \in Waiters
           /\ s[i].who \in Coroutines /\ s[i].mode \in Modes /\ s[i].empty \in BOOLEAN
  <1>1. i \in 1..Len(s) /\ Len(s) \in Nat
    BY LenProperties
  <1>2. s[i] \in Waiters
    BY <1>1, ElementOfSeq
  <1> QED
    BY <1>1, <1>2 DEF Waiters

\* The head of the queue, when somebody is about to grant it the lock.
LEMMA HeadWho ==
    ASSUME TypeOK, RegInv
    PROVE  \A d \in Coroutines : pc[d] \in {"trigger", "grant"} =>
             /\ waiters_ # << >> /\ 1 \in DOMAIN waiters_ /\ Head(waiters_) = waiters_[1]
             /\ Head(waiters_).who \in Coroutines /\ Head(waiters_).mode \in Modes
             /\ Head(waiters_).empty \in BOOLEAN /\ Head(waiters_) \in Waiters
  <1>1. waiters_ # << >> => Head(waiters_) = waiters_[1] /\ 1 \in DOMAIN waiters_
    BY TailFacts DEF TypeOK
  <1>2. waiters_ # << >> => Head(waiters_) \in Waiters
    BY <1>1, ElementOfSeq DEF TypeOK
  <1> QED
    BY <1>1, <1>2 DEF RegInv, Waiters

\* lock() begins: the attempt reserves its place in the bound of the queue.
LEMMA StartLockInv ==
    ASSUME MutexAssumption, IInv,
           NEW c \in Coroutines, NEW m \in Modes, CanRun(c), StartLock(c, m)
    PROVE  IInv'
  <1> USE DEF IInv
  <1> /\ pc[c] = "idle" /\ pc' = [pc EXCEPT ![c] = "lock"]
      /\ mode' = [mode EXCEPT ![c] = m] /\ op' = [op EXCEPT ![c] = "lock"]
      /\ owned_' = [owned_ EXCEPT ![c] = FALSE]
      /\ UNCHANGED <<latch_, waiters_, reg, event>>
    BY DEF StartLock, Goto
  <1>1. TypeOK'
    BY DEF TypeOK, Labels
  <1>2. LatchInv'
    BY DEF LatchInv, TypeOK, Latched
  <1>3. WordInv'
    BY WordFrame DEF TypeOK, Granted, Latched
  <1>4. RegInv'
    BY DEF RegInv, TypeOK
  <1>5. FlowInv'
    BY DEF FlowInv, TypeOK
  <1>6. EntryInv'
    BY DEF EntryInv, Settled, TypeOK, FlowInv
  <1>7. QueueInv'
    BY DEF QueueInv
  <1>8. OwnedInv'
    BY DEF OwnedInv, TypeOK, Resting
  <1> QED
    BY <1>1, <1>2, <1>3, <1>4, <1>5, <1>6, <1>7, <1>8

\* The same for a step that gives the lock to c with one CAS on a free latch.
LEMMA WordCasPlus ==
    ASSUME TypeOK, LatchInv, WordInv, NEW c \in Coroutines, NEW m \in Modes,
           ~latch_.latch, allow(m, latch_), latch_' = Plus(latch_, m),
           \A d \in Coroutines \ {c} : Granted(d)' => Granted(d) /\ mode'[d] = mode[d],
           \A d \in Coroutines : pc'[d] \notin Latched \/ pc[d] \in Latched,
           Granted(c)' => mode'[c] = m
    PROVE  WordInv'
  <1> DEFINE X == Grantees("excl") S == Grantees("shared")
  <1>1. /\ Grantees("excl")' \in SUBSET (IF m = "excl" THEN X \cup {c} ELSE X)
        /\ Grantees("shared")' \in SUBSET (IF m = "shared" THEN S \cup {c} ELSE S)
    BY DEF Grantees, Modes
  <1>2. Accounts(latch_, X, S)
    BY DEF WordInv
  <1>3. latch_ \in Words
    BY DEF TypeOK
  <1>4. Accounts(Plus(latch_, m), Grantees("excl")', Grantees("shared")')
    <2> HIDE DEF X, S
    <2> QED BY <1>1, <1>2, <1>3, AccountsPlus
  <1>5. \A d \in Coroutines : pc'[d] \notin Latched
    BY DEF LatchInv
  <1> QED
    BY <1>4, <1>5 DEF WordInv

\* try_lock(): a CAS from the all-zero word finds nobody accounted for.
LEMMA TryLockInv ==
    ASSUME MutexAssumption, IInv,
           NEW c \in Coroutines, CanRun(c), TryLock(c)
    PROVE  IInv'
  <1> USE DEF IInv
  <1> /\ pc[c] = "idle" /\ pc' = [pc EXCEPT ![c] = "cs"]
      /\ latch_ = Unlocked /\ latch_' = Plus(latch_, "excl")
      /\ mode' = [mode EXCEPT ![c] = "excl"]
      /\ owned_' = [owned_ EXCEPT ![c] = c \in Guarded]
      /\ UNCHANGED <<waiters_, op, reg, event>>
    BY DEF TryLock, Goto
  <1> "excl" \in Modes
    BY DEF Modes
  <1>0. /\ latch_' \in Words /\ ~latch_.latch /\ ~latch_'.latch /\ latch_'.next = latch_.next
        /\ latch_'.excl = 1 /\ latch_'.shared = 0
    BY PlusMinusType DEF TypeOK, Unlocked
  <1>1. TypeOK'
    BY <1>0 DEF TypeOK, Labels, Resting
  <1>2. LatchInv'
    BY <1>0 DEF LatchInv, TypeOK, Latched
  <1>3. WordInv'
    <2>1. allow("excl", latch_)
      BY DEF allow, Unlocked
    <2> QED
      BY <1>0, <2>1, WordCasPlus DEF TypeOK, Granted, Latched
  <1>4. RegInv'
    BY DEF RegInv, TypeOK
  <1>5. FlowInv'
    BY DEF FlowInv, TypeOK
  <1>6. EntryInv'
    BY DEF EntryInv, Settled, TypeOK, FlowInv
  <1>7. QueueInv'
    BY <1>0 DEF QueueInv, Unlocked
  <1>8. OwnedInv'
    BY DEF OwnedInv, TypeOK, Resting
  <1> QED
    BY <1>1, <1>2, <1>3, <1>4, <1>5, <1>6, <1>7, <1>8

\* try_lock_shared() loads the word.
LEMMA TrySharedInv ==
    ASSUME MutexAssumption, IInv,
           NEW c \in Coroutines, CanRun(c), TryShared(c)
    PROVE  IInv'
  <1> USE DEF IInv
  <1> /\ pc[c] = "idle" /\ pc' = [pc EXCEPT ![c] = "try_cas"]
      /\ FastTryShared(latch_) /\ reg' = [reg EXCEPT ![c] = latch_]
      /\ mode' = [mode EXCEPT ![c] = "shared"]
      /\ UNCHANGED <<latch_, waiters_, op, event, owned_>>
    BY DEF TryShared, Goto
  <1>1. TypeOK'
    BY DEF TypeOK, Labels, Modes
  <1>2. LatchInv'
    BY DEF LatchInv, TypeOK, Latched
  <1>3. WordInv'
    BY WordFrame DEF TypeOK, Granted, Latched
  <1>4. RegInv'
    BY DEF RegInv, TypeOK
  <1>5. FlowInv'
    BY DEF FlowInv, TypeOK
  <1>6. EntryInv'
    BY DEF EntryInv, Settled, TypeOK, FlowInv
  <1>7. QueueInv'
    BY DEF QueueInv
  <1>8. OwnedInv'
    BY DEF OwnedInv, TypeOK, Resting
  <1> QED
    BY <1>1, <1>2, <1>3, <1>4, <1>5, <1>6, <1>7, <1>8

\* try_lock_shared(): the CAS succeeds only on the word it loaded.
LEMMA TrySharedCasInv ==
    ASSUME MutexAssumption, IInv,
           NEW c \in Coroutines, CanRun(c), TrySharedCas(c)
    PROVE  IInv'
  <1> USE DEF IInv
  <1> /\ pc[c] = "try_cas" /\ reg' = [reg EXCEPT ![c] = Unlocked]
      /\ UNCHANGED <<waiters_, op, mode, event>>
    BY DEF TrySharedCas, EndScope
  <1>r. Unlocked \in Words
    BY DEF Unlocked, Words
  <1>1. CASE latch_ # reg[c]
    <2> pc' = [pc EXCEPT ![c] = "idle"] /\ UNCHANGED <<latch_, owned_>>
      BY <1>1 DEF TrySharedCas, Goto
    <2>1. TypeOK'
      BY <1>r DEF TypeOK, Labels, Resting
    <2>2. LatchInv'
      BY DEF LatchInv, TypeOK, Latched
    <2>3. WordInv'
      BY WordFrame DEF TypeOK, Granted, Latched
    <2>4. RegInv' /\ FlowInv'
      BY DEF RegInv, FlowInv, TypeOK
    <2>5. EntryInv'
      BY DEF EntryInv, Settled, TypeOK, FlowInv
    <2>6. QueueInv'
      BY DEF QueueInv
    <2>7. OwnedInv'
      BY DEF OwnedInv, TypeOK, Resting
    <2> QED
      BY <2>1, <2>2, <2>3, <2>4, <2>5, <2>6, <2>7
  <1>2. CASE latch_ = reg[c]
    <2> /\ pc' = [pc EXCEPT ![c] = "cs"] /\ latch_' = Plus(latch_, "shared")
        /\ owned_' = [owned_ EXCEPT ![c] = c \in Guarded]
      BY <1>2 DEF TrySharedCas, Goto
    <2> "shared" \in Modes
      BY DEF Modes
    <2>0. /\ latch_' \in Words /\ ~latch_.latch /\ ~latch_'.latch /\ latch_'.next = latch_.next
          /\ latch_.excl = 0 /\ latch_.next = "none"
      BY <1>2, PlusMinusType DEF TypeOK, RegInv, FastTryShared
    <2>3. mode[c] = "shared"
      BY <1>2 DEF RegInv
    <2>1. TypeOK'
      BY <1>r, <2>0 DEF TypeOK, Labels, Resting
    <2>2. LatchInv'
      BY <2>0 DEF LatchInv, TypeOK, Latched
    <2>4. WordInv'
      <3>1. allow("shared", latch_)
        BY <2>0 DEF allow
      <3> QED
        BY <2>0, <2>3, <3>1, WordCasPlus DEF TypeOK, Granted, Latched
    <2>5. RegInv' /\ FlowInv'
      BY DEF RegInv, FlowInv, TypeOK
    <2>6. EntryInv'
      BY DEF EntryInv, Settled, TypeOK, FlowInv
    <2>7. QueueInv'
      BY <2>0 DEF QueueInv
    <2>8. OwnedInv'
      BY DEF OwnedInv, TypeOK, Resting
    <2> QED
      BY <2>1, <2>2, <2>4, <2>5, <2>6, <2>7, <2>8
  <1> QED
    BY <1>1, <1>2

\* unlock() loads the word and chooses its path.
LEMMA UnlockInv ==
    ASSUME MutexAssumption, IInv,
           NEW c \in Coroutines, CanRun(c), Unlock(c)
    PROVE  IInv'
  <1> USE DEF IInv
  <1> /\ pc[c] = "cs" /\ op' = [op EXCEPT ![c] = "unlock"]
      /\ UNCHANGED <<latch_, waiters_, mode, event, owned_>>
    BY DEF Unlock
  <1>0. \/ /\ pc' = [pc EXCEPT ![c] = "unlock_cas"] /\ reg' = [reg EXCEPT ![c] = latch_]
           /\ FastUnlock(mode[c], latch_)
        \/ pc' = [pc EXCEPT ![c] = "unlock"] /\ UNCHANGED reg
    BY DEF Unlock, Goto
  <1>1. TypeOK'
    BY <1>0 DEF TypeOK, Labels
  <1>2. LatchInv'
    BY <1>0 DEF LatchInv, TypeOK, Latched
  <1>3. WordInv'
    BY <1>0, WordFrame DEF TypeOK, Granted, Latched
  <1>4. RegInv'
    BY <1>0 DEF RegInv, TypeOK
  <1>5. FlowInv'
    BY <1>0 DEF FlowInv, TypeOK
  <1>6. EntryInv'
    BY <1>0 DEF EntryInv, Settled, TypeOK, FlowInv
  <1>7. QueueInv'
    BY DEF QueueInv
  <1>8. OwnedInv'
    <2>1. \A d \in Coroutines : pc[d] = "grant" => Head(waiters_).who \in Coroutines
      BY HeadWho
    <2> QED
      BY <1>0, <2>1 DEF OwnedInv, TypeOK
  <1> QED
    BY <1>1, <1>2, <1>3, <1>4, <1>5, <1>6, <1>7, <1>8

\* A release by a grantee c, on a free latch.
LEMMA ReleaseAccounts ==
    ASSUME TypeOK, WordInv, NEW c \in Coroutines, ~latch_.latch, Granted(c),
           \A d \in Coroutines : Granted(d)' => Granted(d) /\ mode'[d] = mode[d],
           ~Granted(c)'
    PROVE  /\ Minus(latch_, mode[c]) \in Words
           /\ Accounts(Minus(latch_, mode[c]), Grantees("excl")', Grantees("shared")')
  <1> DEFINE X == Grantees("excl") S == Grantees("shared") m == mode[c]
  <1>1. m \in Modes /\ latch_ \in Words
    BY DEF TypeOK
  <1>2. /\ c \in (IF m = "excl" THEN X ELSE S)
        /\ Grantees("excl")' \in SUBSET (IF m = "excl" THEN X \ {c} ELSE X)
        /\ Grantees("shared")' \in SUBSET (IF m = "shared" THEN S \ {c} ELSE S)
    BY <1>1 DEF Grantees, Modes
  <1>3. Accounts(latch_, X, S)
    BY DEF WordInv
  <1> HIDE DEF X, S, m
  <1>4. Minus(latch_, m) \in Words /\ Accounts(Minus(latch_, m), Grantees("excl")', Grantees("shared")')
    BY <1>1, <1>2, <1>3, AccountsMinus
  <1> QED
    BY <1>4 DEF m

\* unlock() by one CAS: the next bits it saw say that nobody must be woken.
LEMMA UnlockCasInv ==
    ASSUME MutexAssumption, IInv,
           NEW c \in Coroutines, CanRun(c), UnlockCas(c)
    PROVE  IInv'
  <1> USE DEF IInv
  <1> /\ pc[c] = "unlock_cas" /\ reg' = [reg EXCEPT ![c] = Unlocked]
      /\ UNCHANGED <<waiters_, op, mode, event>>
    BY DEF UnlockCas, EndScope
  <1>r. Unlocked \in Words
    BY DEF Unlocked, Words
  <1>1. CASE latch_ # reg[c]
    <2> pc' = [pc EXCEPT ![c] = "unlock"] /\ UNCHANGED <<latch_, owned_>>
      BY <1>1 DEF UnlockCas, Goto
    <2>1. TypeOK'
      BY <1>r DEF TypeOK, Labels
    <2>2. LatchInv'
      BY DEF LatchInv, TypeOK, Latched
    <2>3. WordInv'
      BY WordFrame DEF TypeOK, Granted, Latched
    <2>4. RegInv' /\ FlowInv'
      BY DEF RegInv, FlowInv, TypeOK
    <2>5. EntryInv'
      BY DEF EntryInv, Settled, TypeOK, FlowInv
    <2>6. QueueInv'
      BY DEF QueueInv
    <2>7. OwnedInv'
      BY DEF OwnedInv, TypeOK, Resting
    <2> QED
      BY <2>1, <2>2, <2>3, <2>4, <2>5, <2>6, <2>7
  <1>2. CASE latch_ = reg[c]
    <2> /\ pc' = [pc EXCEPT ![c] = "idle"] /\ latch_' = Minus(latch_, mode[c])
        /\ owned_' = [owned_ EXCEPT ![c] = FALSE]
      BY <1>2 DEF UnlockCas, Goto
    <2>0. ~latch_.latch /\ FastUnlock(mode[c], latch_)
      BY <1>2 DEF RegInv, FastUnlock
    <2>1. /\ latch_' \in Words
          /\ Accounts(latch_', Grantees("excl")', Grantees("shared")')
      BY <2>0, ReleaseAccounts DEF TypeOK, Granted
    <2>2. /\ latch_'.latch = latch_.latch /\ latch_'.next = latch_.next
          /\ mode[c] = "shared" => latch_'.shared = latch_.shared - 1 /\ latch_'.excl = latch_.excl
      BY PlusMinusType DEF TypeOK
    <2>3. TypeOK'
      BY <1>r, <2>1 DEF TypeOK, Labels, Resting
    <2>4. LatchInv'
      BY <2>0, <2>2 DEF LatchInv, TypeOK, Latched
    <2>5. WordInv'
      BY <2>1, <2>4, <2>0, <2>2 DEF WordInv, LatchInv
    <2>6. RegInv' /\ FlowInv'
      BY DEF RegInv, FlowInv, TypeOK
    <2>7. EntryInv'
      BY DEF EntryInv, Settled, TypeOK, FlowInv
    <2>8. QueueInv'
      BY <2>0, <2>1, <2>2 DEF QueueInv, FastUnlock, TypeOK, Words, Modes
    <2>9. OwnedInv'
      BY DEF OwnedInv, TypeOK, Resting
    <2> QED
      BY <2>3, <2>4, <2>5, <2>6, <2>7, <2>8, <2>9
  <1> QED
    BY <1>1, <1>2

\* latch(): one coroutine owns the queue; unlock_impl subtracts its lock.
LEMMA LatchStepInv ==
    ASSUME MutexAssumption, IInv,
           NEW c \in Coroutines, CanRun(c), Latch(c)
    PROVE  IInv'
  <1> USE DEF IInv
  <1> DEFINE l == [latch_ EXCEPT !.next = "none"]
  <1> /\ pc[c] \in {"lock", "unlock"} /\ pc' = [pc EXCEPT ![c] = "notify"]
      /\ ~latch_.latch /\ latch_' = [latch_ EXCEPT !.latch = TRUE]
      /\ reg' = [reg EXCEPT ![c] = IF op[c] = "unlock" THEN Minus(l, mode[c]) ELSE l]
      /\ UNCHANGED <<waiters_, op, mode, event, owned_>>
    BY DEF Latch, Goto
  <1>l. /\ l \in Words /\ latch_' \in Words /\ latch_'.latch /\ ~l.latch
        /\ l.excl = latch_.excl /\ l.shared = latch_.shared
    BY DEF TypeOK, Words
  <1>0. /\ reg'[c] \in Words /\ ~reg'[c].latch
        /\ Accounts(reg'[c], Grantees("excl")', Grantees("shared")')
    <2>1. CASE op[c] = "unlock"
      <3>1. pc[c] = "unlock"
        BY <2>1 DEF FlowInv
      <3>2. /\ Minus(latch_, mode[c]) \in Words
            /\ Accounts(Minus(latch_, mode[c]), Grantees("excl")', Grantees("shared")')
        BY <3>1, <2>1, ReleaseAccounts DEF TypeOK, Granted
      <3>3. /\ Minus(l, mode[c]).excl = Minus(latch_, mode[c]).excl
            /\ Minus(l, mode[c]).shared = Minus(latch_, mode[c]).shared
            /\ Minus(l, mode[c]).latch = l.latch
        <4>1. mode[c] \in Modes /\ latch_ \in Words
          BY DEF TypeOK
        <4> HIDE DEF l, IInv
        <4>2. mode[c] = "excl" \/ mode[c] = "shared"
          BY <4>1 DEF Modes
        <4> QED
          BY <4>1, <4>2, <1>l, PlusMinusType
      <3>4. Minus(l, mode[c]) \in Words
        BY <3>2, <1>l DEF Minus, Words, TypeOK, Modes
      <3> QED
        BY <2>1, <3>2, <3>3, <3>4, <1>l DEF TypeOK, Accounts
    <2>2. CASE op[c] = "lock"
      <3>1. Grantees("excl")' \subseteq Grantees("excl") /\ Grantees("shared")' \subseteq Grantees("shared")
        BY <2>2 DEF Grantees, Granted, TypeOK
      <3>2. Accounts(latch_, Grantees("excl")', Grantees("shared")')
        BY <3>1, AccountsFewer DEF WordInv, TypeOK
      <3> QED
        BY <2>2, <3>2, <1>l DEF TypeOK, Accounts
    <2> QED
      BY <2>1, <2>2 DEF TypeOK
  <1> HIDE DEF l
  <1>1. TypeOK'
    BY <1>l, <1>0 DEF TypeOK, Labels, Latched
  <1>2. LatchInv'
    BY <1>l DEF LatchInv, TypeOK, Latched
  <1>3. WordInv'
    BY <1>0, <1>l, <1>2 DEF WordInv, LatchInv, TypeOK, Latched
  <1>4. RegInv'
    BY DEF RegInv, TypeOK
  <1>5. FlowInv'
    BY DEF FlowInv, TypeOK
  <1>6. EntryInv'
    BY DEF EntryInv, Settled, TypeOK, FlowInv
  <1>7. QueueInv'
    BY <1>l DEF QueueInv
  <1>8. OwnedInv'
    BY DEF OwnedInv, TypeOK, Resting, FlowInv
  <1> QED
    BY <1>1, <1>2, <1>3, <1>4, <1>5, <1>6, <1>7, <1>8

-----------------------------------------------------------------------------
(* The slow path: c owns the latch, so nobody else is at a latched label. *)

\* The latch owner drops the head of the queue.
LEMMA PopInv ==
    ASSUME IInv, NEW c \in Coroutines, pc[c] \in {"notify", "trigger"},
           waiters_ # << >>, Head(waiters_).empty,
           waiters_' = Tail(waiters_), pc' = [pc EXCEPT ![c] = "notify"],
           UNCHANGED <<latch_, op, mode, reg, event, owned_>>
    PROVE  IInv'
  <1> USE DEF IInv
  <1>o. \A d \in Coroutines : d # c => pc[d] \notin Latched
    BY DEF LatchInv, Latched
  <1>1. TypeOK'
    BY TailFacts DEF TypeOK, Labels, Latched
  <1>2. LatchInv'
    BY DEF LatchInv, TypeOK, Latched
  <1>3. WordInv'
    BY WordFrame DEF TypeOK, Granted, Latched
  <1>4. RegInv'
    BY <1>o DEF RegInv, TypeOK, Latched
  <1>5. FlowInv'
    BY DEF FlowInv, TypeOK
  <1>6. EntryInv'
    <2>1. (\A i \in DOMAIN waiters_ : Settled(i)) /\ \A i \in DOMAIN waiters_' : Settled(i)'
      BY <1>o DEF Settled, Latched, TypeOK
    <2> QED
      BY <2>1, TailFacts DEF TypeOK, EntryInv
  <1>7. QueueInv'
    BY DEF QueueInv, LatchInv, Latched
  <1>8. OwnedInv'
    BY <1>o DEF OwnedInv, TypeOK, Latched
  <1> QED
    BY <1>1, <1>2, <1>3, <1>4, <1>5, <1>6, <1>7, <1>8

\* A turn of the loop of notify_locked.
LEMMA NotifyInv ==
    ASSUME MutexAssumption, IInv,
           NEW c \in Coroutines, CanRun(c), Notify(c)
    PROVE  IInv'
  <1> USE DEF IInv
  <1> pc[c] = "notify" /\ UNCHANGED <<latch_, op, mode, reg, event, owned_>>
    BY DEF Notify
  <1>o. \A d \in Coroutines : d # c => pc[d] \notin Latched
    BY DEF LatchInv, Latched
  <1>1. CASE waiters_ # << >> /\ Head(waiters_).empty
    <2>1. waiters_' = Tail(waiters_) /\ UNCHANGED pc
      BY <1>1 DEF Notify
    <2>2. pc' = [pc EXCEPT ![c] = "notify"]
      BY <2>1 DEF TypeOK
    <2> QED
      BY <1>1, <2>1, <2>2, PopInv
  <1>2. CASE waiters_ # << >> /\ ~Head(waiters_).empty /\ allow(Head(waiters_).mode, reg[c])
    <2> pc' = [pc EXCEPT ![c] = "trigger"] /\ UNCHANGED waiters_
      BY <1>2 DEF Notify, Goto
    <2>1. TypeOK'
      BY DEF TypeOK, Labels, Latched
    <2>2. LatchInv'
      BY DEF LatchInv, TypeOK, Latched
    <2>3. WordInv'
      BY WordFrame DEF TypeOK, Granted, Latched
    <2>4. RegInv' /\ FlowInv'
      BY <1>2 DEF RegInv, FlowInv, TypeOK
    <2>5. EntryInv'
      BY DEF EntryInv, Settled, TypeOK
    <2>6. QueueInv'
      BY DEF QueueInv
    <2>7. OwnedInv'
      BY <1>2 DEF OwnedInv, TypeOK, Resting
    <2> QED
      BY <2>1, <2>2, <2>3, <2>4, <2>5, <2>6, <2>7
  <1>3. CASE waiters_ = << >> \/ (~Head(waiters_).empty /\ ~allow(Head(waiters_).mode, reg[c]))
    <2>0. /\ \/ op[c] = "lock" /\ pc' = [pc EXCEPT ![c] = "decide"]
             \/ op[c] = "unlock" /\ pc' = [pc EXCEPT ![c] = "unlatch"]
          /\ UNCHANGED waiters_
      BY <1>3 DEF Notify, Goto, AfterNotify, TypeOK
    <2>1. TypeOK'
      BY <2>0 DEF TypeOK, Labels, Latched
    <2>2. LatchInv'
      BY <2>0 DEF LatchInv, TypeOK, Latched
    <2>3. WordInv'
      BY <2>0, WordFrame DEF TypeOK, Granted, Latched
    <2>4. RegInv' /\ FlowInv'
      <3>1. waiters_ # << >> => reg[c].excl + reg[c].shared > 0
        BY <1>3, TailFacts DEF allow, TypeOK, Words, Waiters, Modes
      <3> QED
        BY <2>0, <3>1 DEF RegInv, FlowInv, TypeOK
    <2>5. EntryInv'
      BY <2>0 DEF EntryInv, Settled, TypeOK
    <2>6. QueueInv'
      BY <2>0 DEF QueueInv
    <2>7. OwnedInv'
      <3>1. CASE op[c] = "lock" /\ pc' = [pc EXCEPT ![c] = "decide"]
        BY <1>o, <2>0, <3>1 DEF OwnedInv, TypeOK, Latched
      <3>2. CASE op[c] = "unlock" /\ pc' = [pc EXCEPT ![c] = "unlatch"]
        <4>1. event[c] = "none"
          BY DEF FlowInv, TypeOK
        <4> QED
          BY <1>o, <2>0, <3>2, <4>1 DEF OwnedInv, TypeOK, Latched
      <3> QED
        BY <2>0, <3>1, <3>2
    <2> QED
      BY <2>1, <2>2, <2>3, <2>4, <2>5, <2>6, <2>7
  <1> QED
    BY <1>1, <1>2, <1>3

\* The latch owner c counts a grant of mode m to `who` in its local word.
LEMMA WordRegPlus ==
    ASSUME TypeOK, LatchInv, WordInv, NEW c \in Coroutines, NEW who, NEW m \in Modes,
           pc[c] \in Latched, allow(m, reg[c]), UNCHANGED latch_,
           reg' = [reg EXCEPT ![c] = Plus(reg[c], m)],
           \A d \in Coroutines : d # who /\ Granted(d)' => Granted(d) /\ mode'[d] = mode[d],
           \A d \in Coroutines : pc'[d] \in Latched => pc[d] \in Latched,
           who \in Coroutines /\ Granted(who)' => mode'[who] = m
    PROVE  WordInv'
  <1> DEFINE X == Grantees("excl") S == Grantees("shared") w == reg[c]
  <1>1. /\ Grantees("excl")' \in SUBSET (IF m = "excl" THEN X \cup {who} ELSE X)
        /\ Grantees("shared")' \in SUBSET (IF m = "shared" THEN S \cup {who} ELSE S)
    BY DEF Grantees, Modes
  <1>2. Accounts(w, X, S) /\ ~w.latch
    BY DEF WordInv
  <1>3. w \in Words /\ allow(m, w)
    BY DEF TypeOK
  <1>4. Accounts(Plus(w, m), Grantees("excl")', Grantees("shared")') /\ ~Plus(w, m).latch
    <2> HIDE DEF X, S, w
    <2> QED BY <1>1, <1>2, <1>3, AccountsPlus, PlusMinusType, SMTT(60)
  <1>5. latch_.latch /\ \A d \in Coroutines : pc'[d] \in Latched => d = c
    BY DEF LatchInv
  <1> QED
    BY <1>4, <1>5 DEF WordInv, TypeOK

\* notify_locked triggers the first waiter and counts the lock to it.
LEMMA TriggerInv ==
    ASSUME MutexAssumption, IInv,
           NEW c \in Coroutines, CanRun(c), Trigger(c)
    PROVE  IInv'
  <1> USE DEF IInv
  <1> DEFINE fw == Head(waiters_)
  <1> pc[c] = "trigger" /\ UNCHANGED <<latch_, op, mode, owned_>>
    BY DEF Trigger
  <1>o. \A d \in Coroutines : d # c => pc[d] \notin Latched
    BY DEF LatchInv, Latched
  <1>w. waiters_ # << >> /\ fw = waiters_[1] /\ 1 \in DOMAIN waiters_ /\ allow(fw.mode, reg[c])
    BY HeadWho DEF RegInv
  <1>t. fw.who \in Coroutines /\ fw.mode \in Modes /\ fw.empty \in BOOLEAN
    BY HeadWho
  <1>a. CASE fw.empty
    <2>1. waiters_' = Tail(waiters_) /\ pc' = [pc EXCEPT ![c] = "notify"] /\ UNCHANGED <<event, reg>>
      BY <1>a DEF Trigger, Goto
    <2> QED
      BY <1>a, <1>w, <2>1, PopInv
  <1>b. CASE ~fw.empty
    <2> /\ pc' = [pc EXCEPT ![c] = "grant"]
        /\ event' = [event EXCEPT ![fw.who] = "triggered"]
        /\ reg' = [reg EXCEPT ![c] = Plus(reg[c], fw.mode)]
        /\ UNCHANGED waiters_
      BY <1>b DEF Trigger, Goto
    <2>e. mode[fw.who] = fw.mode /\ event[fw.who] = "pending" /\ pc[fw.who] = "wait"
      <3>1. Settled(1)
        BY <1>o DEF Settled, Latched
      <3>2. mode[fw.who] = fw.mode /\ event[fw.who] = "pending"
        BY <1>b, <1>w, <3>1 DEF EntryInv
      <3> QED
        BY <1>t, <1>o, <3>2 DEF FlowInv, Latched
    <2>h. Head(waiters_) = fw
      OBVIOUS
    <2> HIDE DEF fw
    <2>1. TypeOK'
      BY <1>t, PlusMinusType DEF TypeOK, Labels, Latched
    <2>2. LatchInv'
      BY DEF LatchInv, TypeOK, Latched
    <2>3. WordInv'
      <3>1. ASSUME NEW d \in Coroutines, d # fw.who, Granted(d)'
            PROVE  Granted(d) /\ mode'[d] = mode[d]
        <4>1. event'[d] = event[d]
          BY <1>t, <3>1 DEF TypeOK
        <4> QED
          BY <4>1, <3>1 DEF Granted, TypeOK
      <3> QED
        BY <1>w, <1>t, <2>e, <3>1, WordRegPlus DEF TypeOK, Latched
    <2>4. RegInv'
      BY <1>o, <1>w DEF RegInv, TypeOK, Latched
    <2>5. FlowInv'
      BY <2>e, <1>t DEF FlowInv, TypeOK
    <2>6. EntryInv'
      <3>1. \A i \in DOMAIN waiters_ : Settled(i) /\ (Settled(i)' => i # 1)
        BY <1>o DEF Settled, Latched, TypeOK
      <3>2. \A i \in DOMAIN waiters_ : i # 1 /\ ~waiters_[i].empty => waiters_[i].who # fw.who
        BY <1>b, <3>1, <1>w DEF EntryInv
      <3>3. \A i \in DOMAIN waiters_ : waiters_[i].who \in Coroutines
        BY EntryType DEF TypeOK
      <3> QED
        BY <3>1, <3>2, <3>3, <1>t DEF EntryInv, TypeOK
    <2>7. QueueInv'
      BY DEF QueueInv
    <2>8. OwnedInv'
      BY <1>o, <1>t, <2>e, <2>h DEF OwnedInv, TypeOK, Latched
    <2> QED
      BY <2>1, <2>2, <2>3, <2>4, <2>5, <2>6, <2>7, <2>8
  <1> QED
    BY <1>a, <1>b, <1>t

\* notify_locked tells the guard and drops the entry.
LEMMA GrantInv ==
    ASSUME MutexAssumption, IInv,
           NEW c \in Coroutines, CanRun(c), Grant(c)
    PROVE  IInv'
  <1> USE DEF IInv
  <1> DEFINE fw == Head(waiters_)
  <1> /\ pc[c] = "grant" /\ pc' = [pc EXCEPT ![c] = "notify"]
      /\ owned_' = IF fw.who \in Guarded /\ pc[fw.who] \in {"wait", "resumed", "timedout"}
                   THEN [owned_ EXCEPT ![fw.who] = TRUE] ELSE owned_
      /\ waiters_' = Tail(waiters_)
      /\ UNCHANGED <<latch_, op, mode, reg, event>>
    BY DEF Grant, Goto
  <1>o. \A d \in Coroutines : d # c => pc[d] \notin Latched
    BY DEF LatchInv, Latched
  <1>w. waiters_ # << >> /\ fw = waiters_[1] /\ 1 \in DOMAIN waiters_
    BY TailFacts DEF RegInv, TypeOK
  <1>t. fw.who \in Coroutines /\ fw.mode \in Modes
    BY <1>w, EntryType DEF TypeOK
  <1>1. TypeOK'
    BY <1>w, <1>t, TailFacts DEF TypeOK, Labels, Latched
  <1>2. LatchInv'
    BY DEF LatchInv, TypeOK, Latched
  <1>3. WordInv'
    <2>1. pc[fw.who] = "timedout" => Granted(fw.who)
      BY DEF OwnedInv, Granted
    <2>2. \A d \in Coroutines : Granted(d)' => Granted(d) /\ mode'[d] = mode[d]
      BY <1>t, <2>1 DEF Granted, TypeOK
    <2> QED
      BY <2>2, WordFrame DEF TypeOK, Latched
  <1>4. RegInv'
    BY <1>o DEF RegInv, TypeOK, Latched
  <1>5. FlowInv'
    BY DEF FlowInv, TypeOK
  <1>6. EntryInv'
    <2>1. ASSUME NEW i \in DOMAIN waiters_'
          PROVE  /\ i + 1 \in DOMAIN waiters_ /\ waiters_'[i] = waiters_[i + 1]
                 /\ Settled(i + 1) /\ i \in Nat
      BY <1>w, <2>1, TailFacts DEF Settled, TypeOK
    <2>2. ASSUME NEW i \in DOMAIN waiters_', ~waiters_'[i].empty
          PROVE  mode[waiters_'[i].who] = waiters_'[i].mode /\ event[waiters_'[i].who] = "pending"
      BY <2>1, <2>2 DEF EntryInv
    <2>3. ASSUME NEW i \in DOMAIN waiters_', NEW j \in DOMAIN waiters_',
                 ~waiters_'[i].empty, ~waiters_'[j].empty, waiters_'[i].who = waiters_'[j].who
          PROVE  i = j
      <3>1. i + 1 = j + 1 /\ i \in Nat /\ j \in Nat
        BY <2>1, <2>3 DEF EntryInv
      <3> QED BY <3>1
    <2> QED
      BY <2>2, <2>3 DEF EntryInv
  <1>7. QueueInv'
    BY DEF QueueInv, LatchInv, Latched
  <1>8. OwnedInv'
    <2>1. pc[fw.who] = "wait" => event[fw.who] = "triggered"
      BY DEF OwnedInv
    <2> QED
      BY <1>o, <1>t, <2>1 DEF OwnedInv, TypeOK, Resting, Latched
  <1> QED
    BY <1>1, <1>2, <1>3, <1>4, <1>5, <1>6, <1>7, <1>8

\* What appending an entry does to the length and the entries of a queue.
LEMMA AppendFacts ==
    ASSUME NEW s \in Seq(Waiters), NEW e \in Waiters
    PROVE  /\ Append(s, e) \in Seq(Waiters) /\ Append(s, e) # << >>
           /\ s # << >> => Head(Append(s, e)) = Head(s)
           /\ s = << >> => Head(Append(s, e)) = e
           /\ \A i \in DOMAIN Append(s, e) :
                \/ i \in DOMAIN s /\ Append(s, e)[i] = s[i]
                \/ i = Len(s) + 1 /\ Append(s, e)[i] = e
  BY AppendProperties, LenProperties

\* lock_impl takes the lock or joins the queue.
LEMMA DecideInv ==
    ASSUME MutexAssumption, IInv,
           NEW c \in Coroutines, CanRun(c), Decide(c)
    PROVE  IInv'
  <1> USE DEF IInv
  <1> /\ pc[c] = "decide" /\ pc' = [pc EXCEPT ![c] = "unlatch"]
      /\ UNCHANGED <<latch_, op, mode>>
    BY DEF Decide, Goto
  <1>o. \A d \in Coroutines : d # c => pc[d] \notin Latched
    BY DEF LatchInv, Latched
  <1>m. mode[c] \in Modes /\ reg[c] \in Words
    BY DEF TypeOK
  <1>1. CASE waiters_ = << >> /\ allow(mode[c], reg[c])
    <2> /\ reg' = [reg EXCEPT ![c] = Plus(reg[c], mode[c])]
        /\ owned_' = [owned_ EXCEPT ![c] = c \in Guarded]
        /\ UNCHANGED <<waiters_, event>>
      BY <1>1 DEF Decide
    <2>1. TypeOK'
      BY <1>m, PlusMinusType DEF TypeOK, Labels, Latched
    <2>2. LatchInv'
      BY DEF LatchInv, TypeOK, Latched
    <2>3. WordInv'
      BY <1>1, <1>m, WordRegPlus DEF TypeOK, Granted, Latched
    <2>4. RegInv' /\ FlowInv'
      BY <1>1 DEF RegInv, FlowInv, TypeOK
    <2>5. EntryInv' /\ QueueInv'
      BY <1>1 DEF EntryInv, QueueInv, LatchInv, Latched
    <2>6. OwnedInv'
      BY DEF OwnedInv, TypeOK, Resting, FlowInv
    <2> QED
      BY <2>1, <2>2, <2>3, <2>4, <2>5, <2>6
  <1>2. CASE ~(waiters_ = << >> /\ allow(mode[c], reg[c]))
    <2> DEFINE e == [who |-> c, mode |-> mode[c], empty |-> FALSE]
    <2> /\ waiters_' = Append(waiters_, e)
        /\ event' = [event EXCEPT ![c] = "pending"]
        /\ UNCHANGED <<reg, owned_>>
      BY <1>2 DEF Decide
    <2>e. e \in Waiters /\ e.who = c /\ e.mode = mode[c] /\ ~e.empty
      BY <1>m DEF Waiters
    <2> HIDE DEF e
    <2>1. TypeOK'
      BY <2>e, AppendFacts DEF TypeOK, Labels, Latched
    <2>2. LatchInv'
      BY DEF LatchInv, TypeOK, Latched
    <2>3. WordInv'
      BY WordFrame DEF TypeOK, Granted, Latched
    <2>4. RegInv'
      <3>1. reg[c].excl + reg[c].shared > 0
        BY <1>2, <1>m DEF RegInv, allow, Words
      <3> QED
        BY <1>o, <3>1 DEF RegInv, TypeOK, Latched
    <2>5. FlowInv'
      BY DEF FlowInv, TypeOK
    <2>6. EntryInv'
      <3>1. \A i \in DOMAIN waiters_ : Settled(i) /\ waiters_[i].who \in Coroutines
        BY <1>o, EntryType DEF Settled, Latched, TypeOK
      <3>2. \A i \in DOMAIN waiters_ : ~waiters_[i].empty => waiters_[i].who # c
        BY <3>1 DEF EntryInv, FlowInv
      <3> QED
        BY <2>e, <3>1, <3>2, AppendFacts, SMTT(60) DEF EntryInv, TypeOK
    <2>7. QueueInv'
      BY DEF QueueInv, LatchInv, Latched
    <2>8. OwnedInv'
      BY <1>o DEF OwnedInv, TypeOK, Resting, Latched, FlowInv
    <2> QED
      BY <2>1, <2>2, <2>3, <2>4, <2>5, <2>6, <2>7, <2>8
  <1> QED
    BY <1>1, <1>2

\* unlatch() publishes the word with the next bits of the queue it leaves.
LEMMA UnlatchInv ==
    ASSUME MutexAssumption, IInv,
           NEW c \in Coroutines, CanRun(c), Unlatch(c)
    PROVE  IInv'
  <1> USE DEF IInv
  <1> DEFINE nx == IF waiters_ = << >> THEN "none" ELSE Head(waiters_).mode
  <1> /\ pc[c] = "unlatch" /\ latch_' = [reg[c] EXCEPT !.next = nx]
      /\ reg' = [reg EXCEPT ![c] = Unlocked]
      /\ UNCHANGED <<waiters_, op, mode, event>>
    BY DEF Unlatch, EndScope
  <1>0. \/ /\ op[c] = "unlock" /\ pc' = [pc EXCEPT ![c] = "idle"]
           /\ owned_' = [owned_ EXCEPT ![c] = FALSE]
        \/ op[c] = "lock" /\ event[c] = "none" /\ pc' = [pc EXCEPT ![c] = "cs"] /\ UNCHANGED owned_
        \/ op[c] = "lock" /\ event[c] = "pending" /\ pc' = [pc EXCEPT ![c] = "wait"] /\ UNCHANGED owned_
    BY DEF Unlatch, Goto, TypeOK, FlowInv
  <1>o. \A d \in Coroutines : d # c => pc[d] \notin Latched
    BY DEF LatchInv, Latched
  <1>n. nx \in {"none"} \cup Modes /\ (waiters_ = << >> <=> nx = "none")
    <2>1. CASE waiters_ = << >>
      BY <2>1
    <2>2. CASE waiters_ # << >>
      <3>1. Head(waiters_).mode \in Modes
        BY <2>2, TailFacts, EntryType DEF TypeOK
      <3> QED BY <2>2, <3>1 DEF Modes
    <2> QED BY <2>1, <2>2
  <1>r. Unlocked \in Words
    BY DEF Unlocked, Words
  <1>w. /\ latch_' \in Words /\ ~latch_'.latch /\ latch_'.next = nx
        /\ latch_'.excl = reg[c].excl /\ latch_'.shared = reg[c].shared
    BY <1>n DEF TypeOK, Words, WordInv, Latched
  <1>q. waiters_ # << >> => nx = Head(waiters_).mode
    OBVIOUS
  <1> HIDE DEF nx
  <1>1. TypeOK'
    BY <1>0, <1>w, <1>r DEF TypeOK, Labels, Resting
  <1>2. LatchInv'
    BY <1>0, <1>o, <1>w DEF LatchInv, TypeOK, Latched
  <1>3. WordInv'
    <2>1. \A d \in Coroutines : Granted(d)' => Granted(d) /\ mode'[d] = mode[d]
      BY <1>0 DEF Granted, TypeOK
    <2>2. Grantees("excl")' \subseteq Grantees("excl") /\ Grantees("shared")' \subseteq Grantees("shared")
      BY <2>1 DEF Grantees
    <2>3. Accounts(reg[c], Grantees("excl")', Grantees("shared")')
      BY <2>2, AccountsFewer DEF WordInv, TypeOK, Latched
    <2>4. Accounts(latch_', Grantees("excl")', Grantees("shared")')
      BY <2>3, <1>w DEF Accounts
    <2> QED
      BY <2>4, <1>2, <1>w DEF WordInv, LatchInv
  <1>4. RegInv'
    BY <1>0, <1>o DEF RegInv, TypeOK, Latched
  <1>5. FlowInv'
    BY <1>0 DEF FlowInv, TypeOK
  <1>6. EntryInv'
    BY <1>0, SMTT(60) DEF EntryInv, Settled, TypeOK
  <1>7. QueueInv'
    BY <1>n, <1>w, <1>q DEF QueueInv, RegInv
  <1>8. OwnedInv'
    BY <1>0, <1>o DEF OwnedInv, TypeOK, Resting, Latched
  <1> QED
    BY <1>1, <1>2, <1>3, <1>4, <1>5, <1>6, <1>7, <1>8

-----------------------------------------------------------------------------
(* The waiting coroutine. *)

\* A triggered waiter resumes.
LEMMA ResumeInv ==
    ASSUME MutexAssumption, IInv,
           NEW c \in Coroutines, CanRun(c), Resume(c)
    PROVE  IInv'
  <1> USE DEF IInv
  <1> /\ pc[c] = "wait" /\ event[c] = "triggered"
      /\ event' = [event EXCEPT ![c] = "none"]
      /\ UNCHANGED <<latch_, waiters_, op, mode, reg, owned_>>
    BY DEF Resume
  <1>0. \/ c \in Guarded /\ pc' = [pc EXCEPT ![c] = "resumed"]
        \/ c \notin Guarded /\ pc' = [pc EXCEPT ![c] = "cs"]
    BY DEF Resume, Goto
  <1>1. TypeOK'
    BY <1>0 DEF TypeOK, Labels, Resting
  <1>2. LatchInv'
    BY <1>0 DEF LatchInv, TypeOK, Latched
  <1>3. WordInv'
    BY <1>0, WordFrame DEF TypeOK, Granted, Latched
  <1>4. RegInv'
    BY <1>0 DEF RegInv, TypeOK
  <1>5. FlowInv'
    BY <1>0 DEF FlowInv, TypeOK
  <1>6. EntryInv'
    BY <1>0 DEF EntryInv, Settled, TypeOK
  <1>7. QueueInv'
    BY DEF QueueInv
  <1>8. OwnedInv'
    <2>1. \A d \in Coroutines : pc[d] = "grant" => Head(waiters_).who \in Coroutines
      BY HeadWho
    <2> QED
      BY <1>0, <2>1 DEF OwnedInv, TypeOK
  <1> QED
    BY <1>1, <1>2, <1>3, <1>4, <1>5, <1>6, <1>7, <1>8

\* Cancelling marks entries empty and changes nothing else in the queue.
Emptied(s, c) ==
    [i \in DOMAIN s |-> IF s[i].who = c THEN [s[i] EXCEPT !.empty = TRUE] ELSE s[i]]

\* Marking the entries of one coroutine empty changes nothing else of the queue.
LEMMA CancelFacts ==
    ASSUME NEW s \in Seq(Waiters), NEW c
    PROVE  /\ Emptied(s, c) \in Seq(Waiters) /\ DOMAIN Emptied(s, c) = DOMAIN s
           /\ Emptied(s, c) = << >> <=> s = << >>
           /\ \A i \in DOMAIN s :
                /\ Emptied(s, c)[i].who = s[i].who /\ Emptied(s, c)[i].mode = s[i].mode
                /\ Emptied(s, c)[i].empty <=> s[i].empty \/ s[i].who = c
           /\ s # << >> => /\ Head(Emptied(s, c)) = Emptied(s, c)[1] /\ Head(s) = s[1]
                           /\ 1 \in DOMAIN s
  <1> DEFINE t == Emptied(s, c)
  <1>0. t = [i \in DOMAIN s |-> IF s[i].who = c THEN [s[i] EXCEPT !.empty = TRUE] ELSE s[i]]
    BY DEF Emptied
  <1> HIDE DEF t
  <1>1. \A i \in DOMAIN s : t[i] \in Waiters
    BY <1>0, EntryType DEF Waiters
  <1>2. DOMAIN s = 1..Len(s) /\ Len(s) \in Nat
    BY LenProperties
  <1>3. t \in Seq(Waiters) /\ Len(t) = Len(s)
    <2>1. t = [i \in 1..Len(s) |-> t[i]]
      BY <1>0, <1>2
    <2> QED
      BY <1>1, <1>2, <2>1, IsASeq
  <1>4. \A i \in DOMAIN s : /\ t[i].who = s[i].who /\ t[i].mode = s[i].mode
                            /\ t[i].empty <=> s[i].empty \/ s[i].who = c
    BY <1>0, EntryType DEF Waiters
  <1>5. (t = << >> <=> s = << >>) /\ (s # << >> => Head(t) = t[1] /\ Head(s) = s[1] /\ 1 \in DOMAIN s)
    BY <1>2, <1>3, TailFacts, EmptySeq
  <1>6. DOMAIN t = DOMAIN s
    BY <1>0
  <1> QED
    BY <1>3, <1>4, <1>5, <1>6 DEF t

\* A waiter gives up, before or after it was granted the lock.
LEMMA CancelInv ==
    ASSUME MutexAssumption, IInv,
           NEW c \in Coroutines, CanRun(c), Cancel(c)
    PROVE  IInv'
  <1> USE DEF IInv
  <1> /\ pc[c] = "wait" /\ c \in Cancels /\ pc' = [pc EXCEPT ![c] = "timedout"]
      /\ event' = [event EXCEPT ![c] = IF event[c] = "pending" THEN "none" ELSE event[c]]
      /\ waiters_' = [i \in DOMAIN waiters_ |->
                        IF waiters_[i].who = c THEN [waiters_[i] EXCEPT !.empty = TRUE]
                        ELSE waiters_[i]]
      /\ UNCHANGED <<latch_, op, mode, reg, owned_>>
    BY DEF Cancel, Goto
  <1>w. /\ waiters_' \in Seq(Waiters) /\ DOMAIN waiters_' = DOMAIN waiters_
        /\ waiters_' = << >> <=> waiters_ = << >>
        /\ \A i \in DOMAIN waiters_ :
             /\ waiters_'[i].who = waiters_[i].who /\ waiters_'[i].mode = waiters_[i].mode
             /\ waiters_'[i].empty <=> waiters_[i].empty \/ waiters_[i].who = c
        /\ waiters_ # << >> => /\ Head(waiters_') = waiters_'[1] /\ Head(waiters_) = waiters_[1]
                               /\ 1 \in DOMAIN waiters_
    <2>1. waiters_ \in Seq(Waiters) /\ waiters_' = Emptied(waiters_, c)
      BY DEF TypeOK, Emptied
    <2> DEFINE t == Emptied(waiters_, c)
    <2>2. /\ t \in Seq(Waiters) /\ DOMAIN t = DOMAIN waiters_
          /\ t = << >> <=> waiters_ = << >>
          /\ \A i \in DOMAIN waiters_ :
               /\ t[i].who = waiters_[i].who /\ t[i].mode = waiters_[i].mode
               /\ t[i].empty <=> waiters_[i].empty \/ waiters_[i].who = c
          /\ waiters_ # << >> => Head(t) = t[1] /\ Head(waiters_) = waiters_[1] /\ 1 \in DOMAIN waiters_
      BY <2>1, CancelFacts, ZenonT(30)
    <2>3. waiters_' = t
      BY <2>1
    <2> HIDE DEF t
    <2> QED
      BY <2>2, <2>3, ZenonT(30)
  <1>h. waiters_ # << >> => Head(waiters_').mode = Head(waiters_).mode
    BY <1>w
  <1>1. TypeOK'
    BY <1>w DEF TypeOK, Labels
  <1>2. LatchInv'
    BY DEF LatchInv, TypeOK, Latched
  <1>3. WordInv'
    <2>1. owned_[c] => event[c] = "triggered"
      BY DEF OwnedInv
    <2> QED
      BY <2>1, WordFrame DEF TypeOK, Granted, Latched
  <1>4. RegInv'
    BY <1>w, <1>h DEF RegInv, TypeOK
  <1>5. FlowInv'
    BY DEF FlowInv, TypeOK
  <1>6. EntryInv'
    <2>1. \A i \in DOMAIN waiters_ : (Settled(i)' <=> Settled(i)) /\ waiters_[i].who \in Coroutines
      BY EntryType DEF Settled, TypeOK
    <2> QED
      BY <1>w, <2>1 DEF EntryInv, TypeOK
  <1>7. QueueInv'
    BY <1>w, <1>h DEF QueueInv
  <1>8. OwnedInv'
    <2>1. waiters_ # << >> => Head(waiters_').who = Head(waiters_).who
      BY <1>w
    <2>2. \A d \in Coroutines : pc[d] = "grant" =>
            waiters_ # << >> /\ Head(waiters_).who \in Coroutines
      BY HeadWho
    <2> QED
      BY <2>1, <2>2, SMTT(60) DEF OwnedInv, TypeOK
  <1> QED
    BY <1>1, <1>2, <1>3, <1>4, <1>5, <1>6, <1>7, <1>8

\* The guard decides whether there is a lock to release.
LEMMA CheckInv ==
    ASSUME MutexAssumption, IInv,
           NEW c \in Coroutines, CanRun(c), Check(c)
    PROVE  IInv'
  <1> USE DEF IInv
  <1> /\ pc[c] \in {"resumed", "timedout"} /\ event' = [event EXCEPT ![c] = "none"]
      /\ UNCHANGED <<latch_, waiters_, op, mode, reg, owned_>>
    BY DEF Check
  <1>0. \/ owned_[c] /\ pc' = [pc EXCEPT ![c] = "cs"]
        \/ ~owned_[c] /\ pc' = [pc EXCEPT ![c] = "idle"]
    BY DEF Check, Goto
  <1>1. TypeOK'
    BY <1>0 DEF TypeOK, Labels, Resting
  <1>2. LatchInv'
    BY <1>0 DEF LatchInv, TypeOK, Latched
  <1>3. WordInv'
    BY <1>0, WordFrame DEF TypeOK, Granted, Latched
  <1>4. RegInv'
    BY <1>0 DEF RegInv, TypeOK
  <1>5. FlowInv'
    BY <1>0 DEF FlowInv, TypeOK
  <1>6. EntryInv'
    <2>1. \A i \in DOMAIN waiters_ : (Settled(i)' <=> Settled(i)) /\ waiters_[i].who \in Coroutines
      BY <1>0, EntryType DEF Settled, TypeOK
    <2>2. event[c] # "pending"
      BY DEF FlowInv
    <2> QED
      BY <2>1, <2>2 DEF EntryInv, TypeOK
  <1>7. QueueInv'
    BY DEF QueueInv
  <1>8. OwnedInv'
    <2>1. \A d \in Coroutines : pc[d] = "grant" => Head(waiters_).who \in Coroutines
      BY HeadWho
    <2> QED
      BY <1>0, <2>1 DEF OwnedInv, TypeOK
  <1> QED
    BY <1>1, <1>2, <1>3, <1>4, <1>5, <1>6, <1>7, <1>8

-----------------------------------------------------------------------------
(* Theorems. *)

\* Every step preserves the invariant.
LEMMA NextIInv == ASSUME MutexAssumption, IInv, [Next]_vars PROVE IInv'
  <1>1. ASSUME NEW c \in Coroutines, CanRun(c), Step(c)
        PROVE  IInv'
    BY <1>1, TrySharedCasInv, UnlockInv, UnlockCasInv, LatchStepInv, NotifyInv, TriggerInv,
       GrantInv, DecideInv, UnlatchInv, ResumeInv, CheckInv DEF Step
  <1>2. ASSUME NEW c \in Coroutines, CanRun(c), Call(c)
        PROVE  IInv'
    BY <1>2, StartLockInv, TryLockInv, TrySharedInv, CancelInv DEF Call
  <1>3. CASE UNCHANGED vars
    <2> /\ latch_' = latch_ /\ waiters_' = waiters_ /\ pc' = pc /\ op' = op
        /\ mode' = mode /\ reg' = reg /\ event' = event /\ owned_' = owned_
      BY <1>3 DEF vars
    <2>1. TypeOK' /\ LatchInv' /\ RegInv' /\ FlowInv' /\ QueueInv' /\ OwnedInv'
      BY DEF IInv, TypeOK, LatchInv, RegInv, FlowInv, QueueInv, OwnedInv
    <2>2. WordInv'
      BY SMTT(60) DEF IInv, WordInv, Grantees, Granted
    <2>3. EntryInv'
      BY DEF IInv, EntryInv, Settled
    <2> QED
      BY <2>1, <2>2, <2>3 DEF IInv
  <1> QED
    BY <1>1, <1>2, <1>3 DEF Next

\* The inductive invariant holds throughout.
LEMMA Invariance == Spec => []IInv
  <1>1. Init => IInv
    BY InitIInv, MutexAssumption
  <1>2. IInv /\ [Next]_vars => IInv'
    BY NextIInv, MutexAssumption
  <1> QED
    BY <1>1, <1>2, PTL DEF Spec

\* The word's two counts never leave the naturals (unlock never subtracts a lock
\* that is not counted) and every other variable keeps its type.
THEOREM MutexTypeCorrect == Spec => []TypeOK
  <1>1. IInv => TypeOK
    BY DEF IInv
  <1> QED
    BY <1>1, Invariance, PTL

\* For any number of coroutines and threads, cancelled attempts included: no
\* two coroutines are inside unless both share.
THEOREM MutexMutualExclusion == Spec => []MutualExclusion
  <1>1. IInv => MutualExclusion
    BY IInvSafe, MutexAssumption
  <1> QED
    BY <1>1, Invariance, PTL

\* And no queue is ever left behind by the last holder: while somebody queues
\* the lock is held and the next bits force its holder onto the slow path.
THEOREM MutexWaitersHaveWaker == Spec => []WaitersHaveWaker
  <1>1. IInv => WaitersHaveWaker
    BY IInvSafe, MutexAssumption
  <1> QED
    BY <1>1, Invariance, PTL

-----------------------------------------------------------------------------
(* Guards.  As long as all coroutines run on one thread, the owned_ flag is *)
(* written before the coroutine that was triggered can look at it.          *)

\* On one thread at most one coroutine is between two suspension points.
AloneInv ==
    \A c, d \in Coroutines : pc[c] \notin Resting /\ pc[d] \notin Resting => c = d

\* Only the guard being told at this moment waits for its flag.
GuardInv ==
    \A c \in Coroutines :
        /\ pc[c] = "resumed" => owned_[c]
        /\ c \in Guarded /\ pc[c] = "wait" /\ event[c] = "triggered" =>
              owned_[c] \/ \E d \in Coroutines : pc[d] = "grant" /\ Head(waiters_).who = c

\* A step that neither triggers nor pops, and clears no flag that counts.
LEMMA GuardFrame ==
    ASSUME TypeOK, RegInv, GuardInv, UNCHANGED waiters_,
           \A d \in Coroutines :
              /\ pc'[d] = "resumed" => pc[d] = "resumed" /\ owned_'[d] = owned_[d]
              /\ d \in Guarded /\ pc'[d] = "wait" /\ event'[d] = "triggered"
                   => pc[d] = "wait" /\ event[d] = "triggered" /\ owned_'[d] = owned_[d]
              /\ pc[d] = "grant" => pc'[d] = "grant"
    PROVE  GuardInv'
  BY DEF GuardInv

\* On one thread the step that pops the entry is the next one to run.
LEMMA GuardStep ==
    ASSUME \A c, d \in Coroutines : Home[c] = Home[d],
           IInv, AloneInv, GuardInv, NEW c \in Coroutines, CanRun(c), Step(c) \/ Call(c)
    PROVE  AloneInv' /\ GuardInv'
  <1> USE DEF IInv, TypeOK
  <1>1. \A d \in Coroutines \ {c} : pc[d] \in Resting
    BY DEF CanRun
  <1>2. AloneInv'
    <2>1. \A d \in Coroutines \ {c} : pc'[d] = pc[d]
      BY DEF Step, Call, StartLock, TryLock, TryShared, TrySharedCas, Unlock, UnlockCas, Latch,
           Notify, Trigger, Grant, Decide, Unlatch, Resume, Cancel, Check, Goto
    <2> QED BY <1>1, <2>1 DEF AloneInv
  <1> SUFFICES GuardInv' BY <1>2
  <1>3. ASSUME NEW m \in Modes, StartLock(c, m) PROVE GuardInv'
    BY <1>3, GuardFrame DEF StartLock, Goto
  <1>4. CASE TryLock(c) BY <1>4, GuardFrame DEF TryLock, Goto
  <1>5. CASE TryShared(c) BY <1>5, GuardFrame DEF TryShared, Goto
  <1>6. CASE TrySharedCas(c) BY <1>6, GuardFrame DEF TrySharedCas, Goto
  <1>7. CASE Unlock(c) BY <1>7, GuardFrame DEF Unlock, Goto
  <1>8. CASE UnlockCas(c) BY <1>8, GuardFrame DEF UnlockCas, Goto
  <1>9. CASE Latch(c) BY <1>9, GuardFrame DEF Latch, Goto
  <1>10. CASE Decide(c)
    <2>1. \A d \in Coroutines : pc[d] # "grant" BY <1>1, <1>10 DEF Decide, Resting
    <2>2. \A d \in Coroutines \ {c} :
             pc'[d] = pc[d] /\ event'[d] = event[d] /\ owned_'[d] = owned_[d]
      BY <1>10 DEF Decide, Goto
    <2>3. pc'[c] = "unlatch" BY <1>10 DEF Decide, Goto
    <2> QED BY <2>1, <2>2, <2>3 DEF GuardInv
  <1>11. CASE Unlatch(c)
    <2>1. pc[c] = "unlatch" /\ event[c] # "triggered" BY <1>11 DEF Unlatch, FlowInv
    <2> QED BY <1>11, <2>1, GuardFrame DEF Unlatch, Goto
  <1>12. CASE Notify(c)
    <2>1. \A d \in Coroutines : pc[d] # "grant" BY <1>1, <1>12 DEF Notify, Resting
    <2>2. \A d \in Coroutines \ {c} : pc'[d] = pc[d] BY <1>12 DEF Notify, Goto
    <2>3. pc'[c] \notin {"resumed", "wait"} BY <1>12 DEF Notify, Goto, AfterNotify
    <2>4. UNCHANGED <<event, owned_>> BY <1>12 DEF Notify
    <2> QED BY <2>1, <2>2, <2>3, <2>4 DEF GuardInv
  <1>13. CASE Trigger(c)
    <2>1. /\ \A d \in Coroutines : pc[d] # "grant"
          /\ pc[c] = "trigger" /\ UNCHANGED owned_
      BY <1>1, <1>13 DEF Trigger, Resting
    <2>2. CASE UNCHANGED event /\ pc' = [pc EXCEPT ![c] = "notify"]
      BY <2>1, <2>2 DEF GuardInv
    <2>3. CASE /\ UNCHANGED waiters_ /\ pc' = [pc EXCEPT ![c] = "grant"]
               /\ event' = [event EXCEPT ![Head(waiters_).who] = "triggered"]
      BY <2>1, <2>3, HeadWho DEF GuardInv
    <2> QED BY <1>13, <2>2, <2>3 DEF Trigger, Goto
  <1>14. CASE Grant(c)
    <2>1. /\ pc[c] = "grant" /\ pc' = [pc EXCEPT ![c] = "notify"] /\ UNCHANGED event
          /\ \A d \in Coroutines : owned_[d] => owned_'[d]
          /\ LET w == Head(waiters_).who
             IN w \in Guarded /\ pc[w] = "wait" => owned_'[w]
      BY <1>14, HeadWho DEF Grant, Goto
    <2>2. \A d \in Coroutines : pc[d] = "grant" => d = c BY <1>1, <2>1 DEF Resting
    <2> QED BY <2>1, <2>2 DEF GuardInv
  <1>15. CASE Resume(c)
    <2>1. \A d \in Coroutines : pc[d] # "grant" BY <1>1, <1>15 DEF Resume, Resting
    <2>2. pc[c] = "wait" /\ event[c] = "triggered" /\ UNCHANGED <<waiters_, owned_>>
      BY <1>15 DEF Resume
    <2>3. c \in Guarded => owned_[c] BY <2>1, <2>2 DEF GuardInv
    <2> QED BY <1>15, <2>1, <2>2, <2>3 DEF GuardInv, Resume, Goto
  <1>16. CASE Cancel(c)
    <2>1. \A d \in Coroutines : pc[d] # "grant" BY <1>1, <1>16 DEF Cancel, Resting
    <2> QED BY <1>16, <2>1 DEF GuardInv, Cancel, Goto
  <1>17. CASE Check(c) BY <1>17, GuardFrame DEF Check, Goto
  <1> QED
    BY <1>3, <1>4, <1>5, <1>6, <1>7, <1>8, <1>9, <1>10, <1>11, <1>12, <1>13, <1>14, <1>15, <1>16,
       <1>17 DEF Step, Call

\* For any number of coroutines of one thread, cancelled attempts included: when
\* co_await guard.lock() returns, the guard owns the lock.  With coroutines on
\* two threads this fails, see MCMutex_guard_threads.cfg.
THEOREM MutexGuardOwns ==
    ASSUME \A c, d \in Coroutines : Home[c] = Home[d]
    PROVE  Spec => []GuardOwnsAfterLock
  <1>1. Init => AloneInv /\ GuardInv
    BY DEF Init, AloneInv, GuardInv, Resting
  <1>2. IInv /\ AloneInv /\ GuardInv /\ [Next]_vars => AloneInv' /\ GuardInv'
    <2> SUFFICES ASSUME IInv, AloneInv, GuardInv, [Next]_vars PROVE AloneInv' /\ GuardInv'
      OBVIOUS
    <2>1. CASE Next BY <2>1, GuardStep DEF Next
    <2>2. CASE UNCHANGED vars BY <2>2 DEF vars, AloneInv, GuardInv
    <2> QED BY <2>1, <2>2
  <1>3. GuardInv => GuardOwnsAfterLock
    BY DEF GuardInv, GuardOwnsAfterLock
  <1> QED
    BY <1>1, <1>2, <1>3, Invariance, PTL DEF Spec

-----------------------------------------------------------------------------
(***************************************************************************)
(* The mutex implements the readers-writer lock of RWLock, step by step.   *)
(*                                                                         *)
(* What an action does to the lock is one of three things (SameGrants,     *)
(* Gains, Loses), and so is what it does to the queue (SameQueue, Joins,   *)
(* Leaves).  The lemmas about the actions say which, and both the rest of  *)
(* the invariant and the abstract step follow from that.                   *)
(***************************************************************************)

\* The entry that was just triggered waits no longer.
TriggeredInv ==
    \A c \in Coroutines : pc[c] = "grant" => event[Head(waiters_).who] # "pending"

\* Without guards nobody gives up, and no entry is empty.
PatientInv ==
    Guarded = {} =>
        /\ \A c \in Coroutines : pc[c] \notin {"resumed", "timedout"}
        /\ \A i \in DOMAIN waiters_ : ~waiters_[i].empty

\* The word w counts nobody but the grantees X and S.
Exact(w, X, S) == (w.excl > 0 => X # {}) /\ w.shared = Cardinality(S)

ExactInv ==
    Guarded = {} =>
        /\ ~latch_.latch => Exact(latch_, Grantees("excl"), Grantees("shared"))
        /\ \A c \in Coroutines :
              pc[c] \in Latched => Exact(reg[c], Grantees("excl"), Grantees("shared"))

JInv == IInv /\ TriggeredInv /\ PatientInv /\ ExactInv

-----------------------------------------------------------------------------
(* What a step does to the lock and to the queue. *)

SameGrants ==
    \A d \in Coroutines : /\ Granted(d)' <=> Granted(d)
                          /\ Granted(d) => mode'[d] = mode[d]

\* Only c changes, and it gets the lock in mode m, or gives it up.
Others(c) ==
    \A d \in Coroutines \ {c} : /\ Granted(d)' <=> Granted(d)
                                /\ Granted(d) => mode'[d] = mode[d]

Gains(c, m) == ~Granted(c) /\ Granted(c)' /\ mode'[c] = m /\ Others(c)

Loses(c) == Granted(c) /\ ~Granted(c)' /\ Others(c)

SameQueue == UNCHANGED <<Wanted, Order>>

Leaves(c) == RW!Leave(c)

Joins(c, m) ==
    /\ ~Waits(c)
    /\ Wanted' = [Wanted EXCEPT ![c] = m]
    /\ Order' = Order \cup (RW!Waiting \X {c})

\* The abstract lock's view of them.
LEMMA HeldChanges ==
    /\ SameGrants => UNCHANGED Held
    /\ \A c \in Coroutines, m \in Modes : Gains(c, m) =>
          Held[c] = "none" /\ Held' = [Held EXCEPT ![c] = m]
    /\ TypeOK => \A c \in Coroutines : Loses(c) =>
          Held[c] # "none" /\ Held' = [Held EXCEPT ![c] = "none"]
  BY DEF SameGrants, Gains, Loses, Others, Held, TypeOK, Modes

\* The grantees that the word counts.
LEMMA GranteesChange ==
    /\ SameGrants => UNCHANGED <<Grantees("excl"), Grantees("shared")>>
    /\ \A c \in Coroutines, m \in Modes : Gains(c, m) =>
          /\ c \notin Grantees("excl") /\ c \notin Grantees("shared")
          /\ Grantees("excl")' = (IF m = "excl" THEN Grantees("excl") \cup {c} ELSE Grantees("excl"))
          /\ Grantees("shared")' = (IF m = "shared" THEN Grantees("shared") \cup {c} ELSE Grantees("shared"))
    /\ TypeOK => \A c \in Coroutines : Loses(c) =>
          /\ c \in Grantees(mode[c])
          /\ Grantees("excl")' = Grantees("excl") \ {c}
          /\ Grantees("shared")' = Grantees("shared") \ {c}
  <1>1. SameGrants => UNCHANGED <<Grantees("excl"), Grantees("shared")>>
    BY DEF SameGrants, Grantees
  <1>2. ASSUME NEW c \in Coroutines, NEW m \in Modes, Gains(c, m)
        PROVE  /\ c \notin Grantees("excl") /\ c \notin Grantees("shared")
               /\ Grantees("excl")' = (IF m = "excl" THEN Grantees("excl") \cup {c} ELSE Grantees("excl"))
               /\ Grantees("shared")' = (IF m = "shared" THEN Grantees("shared") \cup {c} ELSE Grantees("shared"))
    BY <1>2 DEF Gains, Others, Grantees, Modes
  <1>3. ASSUME TypeOK, NEW c \in Coroutines, Loses(c)
        PROVE  /\ c \in Grantees(mode[c])
               /\ Grantees("excl")' = Grantees("excl") \ {c}
               /\ Grantees("shared")' = Grantees("shared") \ {c}
    BY <1>3 DEF Loses, Others, Grantees
  <1> QED BY <1>1, <1>2, <1>3

\* A word that allow() finds free is free for the abstract lock.
LEMMA AllowFree ==
    ASSUME TypeOK, NEW w \in Words, Accounts(w, Grantees("excl"), Grantees("shared")),
           NEW m \in Modes, allow(m, w)
    PROVE  RW!Free(m)
  <1>1. Grantees("excl") = {} BY DEF Accounts, allow, Modes
  <1>2. m = "excl" => Grantees("shared") = {}
    <2> SUFFICES ASSUME m = "excl" PROVE Grantees("shared") = {} OBVIOUS
    <2>1. Cardinality(Grantees("shared")) = 0
      BY FS_CardinalityType DEF Accounts, allow, Words
    <2> QED BY <2>1, FS_EmptySet DEF Accounts
  <1> QED BY <1>1, <1>2 DEF RW!Free, Held, Grantees, TypeOK, Modes

\* If the word counts nobody else, what allow() refuses is not free.
LEMMA RefuseTaken ==
    ASSUME TypeOK, NEW w \in Words, Exact(w, Grantees("excl"), Grantees("shared")),
           NEW m \in Modes, ~allow(m, w)
    PROVE  ~RW!Free(m)
  <1>1. CASE w.excl > 0
    <2>1. PICK c \in Coroutines : Granted(c) /\ mode[c] = "excl"
      BY <1>1 DEF Exact, Grantees
    <2> QED BY <2>1 DEF RW!Free, Held
  <1>2. CASE w.excl = 0
    <2>1. m = "excl" /\ w.shared > 0 BY <1>2 DEF allow, Modes, Words
    <2>2. Grantees("shared") # {} BY <2>1, FS_EmptySet DEF Exact
    <2>3. PICK c \in Coroutines : Granted(c) /\ mode[c] = "shared"
      BY <2>2 DEF Grantees
    <2> QED BY <2>1, <2>3 DEF RW!Free, Held
  <1> QED BY <1>1, <1>2 DEF Words

\* Counting one grantee more, or one less, keeps the count exact.
LEMMA ExactPlus ==
    ASSUME NEW w \in Words, NEW X, NEW S, NEW m \in Modes, NEW c, c \notin S,
           IsFiniteSet(S), Exact(w, X, S)
    PROVE  Exact(Plus(w, m), IF m = "excl" THEN X \cup {c} ELSE X,
                             IF m = "shared" THEN S \cup {c} ELSE S)
  <1>1. Cardinality(S \cup {c}) = Cardinality(S) + 1 BY FS_AddElement
  <1>2. CASE m = "shared" BY <1>1, <1>2, PlusMinusType DEF Exact, Words
  <1>3. CASE m = "excl" BY <1>3, PlusMinusType DEF Exact, Words
  <1> QED BY <1>2, <1>3 DEF Modes

LEMMA ExactMinus ==
    ASSUME NEW w \in Words, NEW X, NEW S, NEW m \in Modes, NEW c, X \cap S = {},
           c \in (IF m = "excl" THEN X ELSE S), Accounts(w, X, S), Exact(w, X, S)
    PROVE  Exact(Minus(w, m), X \ {c}, S \ {c})
  <1>1. /\ IsFiniteSet(S) /\ Cardinality(S) \in Nat
        /\ c \in S => Cardinality(S \ {c}) = Cardinality(S) - 1
    BY FS_RemoveElement, FS_CardinalityType DEF Accounts
  <1>2. CASE m = "shared"
    <2>1. w.excl = 0 BY <1>1, <1>2, FS_EmptySet DEF Accounts, Exact, Words
    <2> QED BY <1>1, <1>2, <2>1, PlusMinusType DEF Exact, Words
  <1>3. CASE m = "excl"
    <2>1. c \in X /\ S \ {c} = S BY <1>3
    <2>2. w.excl = 1 BY <2>1 DEF Accounts
    <2>3. Minus(w, m).excl = 0 /\ Minus(w, m).shared = w.shared BY <1>3, <2>2, PlusMinusType
    <2> QED BY <2>1, <2>3 DEF Exact
  <1> QED BY <1>2, <1>3 DEF Modes

-----------------------------------------------------------------------------
(* The queue. *)

\* Nobody who waits has been granted the lock.
LEMMA WaitingFacts ==
    ASSUME JInv
    PROVE  /\ \A c \in Coroutines : Waits(c) =>
                 event[c] = "pending" /\ ~Granted(c) /\ Held[c] = "none" /\ Wanted[c] = mode[c]
           /\ \A c \in Coroutines : ~Waits(c) <=> Wanted[c] = "none"
           /\ RW!Waiting = {c \in Coroutines : Waits(c)}
  BY SMTT(60) DEF JInv, IInv, TypeOK, FlowInv, Waits, Pending, Granted, Held, Wanted, RW!Waiting, Modes

\* Nothing happened to the entries that count.
LEMMA QueueSame ==
    ASSUME TypeOK, UNCHANGED waiters_,
           \A i \in DOMAIN waiters_ : Pending(waiters_[i])' <=> Pending(waiters_[i]),
           \A c \in Coroutines : Waits(c) => mode'[c] = mode[c]
    PROVE  SameQueue
  <1>1. \A c \in Coroutines : Waits(c)' <=> Waits(c)
    BY DEF Waits
  <1>2. \A c, d \in Coroutines : AskedBefore(c, d)' <=> AskedBefore(c, d)
    BY DEF AskedBefore
  <1> QED BY <1>1, <1>2 DEF SameQueue, Wanted, Order

\* The first entry, if it does not count, may be dropped.
LEMMA QueuePop ==
    ASSUME TypeOK, waiters_ # << >>, ~Pending(Head(waiters_)), waiters_' = Tail(waiters_),
           UNCHANGED <<event, mode>>
    PROVE  SameQueue
  <1>1. /\ Head(waiters_) = waiters_[1] /\ 1 \in DOMAIN waiters_
        /\ \A i \in DOMAIN waiters_' : i \in Nat /\ i >= 1 /\ i + 1 \in DOMAIN waiters_
                                       /\ waiters_'[i] = waiters_[i + 1]
    BY TailFacts DEF TypeOK
  <1>2. \A i \in DOMAIN waiters_ : i = 1 \/ (i - 1 \in DOMAIN waiters_' /\ i \in Nat /\ i >= 1
                                            /\ waiters_'[i - 1] = waiters_[i])
    BY HeadTailProperties, LenProperties DEF TypeOK
  <1>3. \A fw : Pending(fw)' <=> Pending(fw') BY DEF Pending
  <1>4. \A i \in DOMAIN waiters_' : Pending(waiters_[i])' <=> Pending(waiters_[i + 1])
    BY <1>1 DEF Pending
  <1>5. \A i \in DOMAIN waiters_ : Pending(waiters_[i]) =>
           /\ i \in Nat /\ i - 1 \in DOMAIN waiters_' /\ (i - 1) + 1 = i
           /\ waiters_'[i - 1] = waiters_[i] /\ Pending(waiters_[i - 1])'
    <2> SUFFICES ASSUME NEW i \in DOMAIN waiters_, Pending(waiters_[i])
                 PROVE  /\ i \in Nat /\ i - 1 \in DOMAIN waiters_' /\ (i - 1) + 1 = i
                        /\ waiters_'[i - 1] = waiters_[i] /\ Pending(waiters_[i - 1])'
      OBVIOUS
    <2>1. i \in Nat /\ i - 1 \in DOMAIN waiters_' /\ (i - 1) + 1 = i BY <1>1, <1>2
    <2> QED BY <1>1, <1>2, <1>4, <2>1
  <1>6. ASSUME NEW c \in Coroutines PROVE Waits(c)' <=> Waits(c)
    <2>1. Waits(c)' => Waits(c) BY <1>1, <1>4 DEF Waits
    <2>2. ASSUME Waits(c) PROVE Waits(c)'
      <3>1. PICK i \in DOMAIN waiters_ : waiters_[i].who = c /\ Pending(waiters_[i])
        BY <2>2 DEF Waits
      <3> QED BY <3>1, <1>5 DEF Waits
    <2> QED BY <2>1, <2>2
  <1>7. ASSUME NEW c \in Coroutines, NEW d \in Coroutines
        PROVE  AskedBefore(c, d)' <=> AskedBefore(c, d)
    <2>1. ASSUME AskedBefore(c, d)' PROVE AskedBefore(c, d)
      <3>1. PICK i, j \in DOMAIN waiters_' :
               /\ i < j
               /\ waiters_'[i].who = c /\ Pending(waiters_[i])'
               /\ waiters_'[j].who = d /\ Pending(waiters_[j])'
        BY <2>1 DEF AskedBefore
      <3>2. i + 1 < j + 1 BY <3>1, <1>1
      <3> QED BY <3>1, <3>2, <1>1, <1>4 DEF AskedBefore
    <2>2. ASSUME AskedBefore(c, d) PROVE AskedBefore(c, d)'
      <3>1. PICK i, j \in DOMAIN waiters_ :
               /\ i < j
               /\ waiters_[i].who = c /\ Pending(waiters_[i])
               /\ waiters_[j].who = d /\ Pending(waiters_[j])
        BY <2>2 DEF AskedBefore
      <3>2. i - 1 < j - 1 BY <3>1, <1>5
      <3> QED BY <3>1, <3>2, <1>5 DEF AskedBefore
    <2> QED BY <2>1, <2>2
  <1> QED BY <1>6, <1>7 DEF SameQueue, Wanted, Order

\* The entry of c stops counting.
LEMMA QueueLeave ==
    ASSUME TypeOK, NEW c \in Coroutines,
           DOMAIN waiters_' = DOMAIN waiters_, UNCHANGED mode,
           \A i \in DOMAIN waiters_ :
              /\ waiters_'[i].who = waiters_[i].who
              /\ Pending(waiters_[i])' <=> Pending(waiters_[i]) /\ waiters_[i].who # c
    PROVE  Leaves(c)
  <1>1. \A d \in Coroutines : Waits(d)' <=> Waits(d) /\ d # c
    BY DEF Waits
  <1>2. \A d, e \in Coroutines : AskedBefore(d, e)' <=> AskedBefore(d, e) /\ d # c /\ e # c
    BY DEF AskedBefore
  <1> QED BY <1>1, <1>2 DEF Leaves, RW!Leave, Wanted, Order

\* If it did not count, nothing happened.
LEMMA LeaveNobody ==
    ASSUME JInv, NEW c \in Coroutines, ~Waits(c), Leaves(c)
    PROVE  SameQueue
  <1>1. \A d \in Coroutines : ~AskedBefore(c, d) /\ ~AskedBefore(d, c)
    BY DEF AskedBefore, Waits
  <1>2. UNCHANGED Wanted BY DEF Leaves, RW!Leave, Wanted
  <1>3. UNCHANGED Order BY <1>1 DEF Leaves, RW!Leave, Order
  <1> QED BY <1>2, <1>3 DEF SameQueue

\* A new entry at the end counts behind all others.
LEMMA QueueJoin ==
    ASSUME JInv, NEW c \in Coroutines, event[c] # "pending",
           \A i \in DOMAIN waiters_ : waiters_[i].who = c => waiters_[i].empty,
           waiters_' = Append(waiters_, [who |-> c, mode |-> mode[c], empty |-> FALSE]),
           event' = [event EXCEPT ![c] = "pending"], UNCHANGED mode
    PROVE  Joins(c, mode[c])
  <1> USE DEF JInv, IInv
  <1>0. PICK n \in Nat : n = Len(waiters_) + 1
    BY LenProperties DEF TypeOK
  <1>1. /\ [who |-> c, mode |-> mode[c], empty |-> FALSE] \in Waiters
        /\ DOMAIN waiters_ = 1..(n - 1)
        /\ waiters_ \in Seq(Waiters)
    BY <1>0, LenProperties DEF TypeOK, Waiters
  <1>2. /\ DOMAIN waiters_' = 1..n
        /\ waiters_'[n] = [who |-> c, mode |-> mode[c], empty |-> FALSE]
        /\ \A i \in DOMAIN waiters_ : waiters_'[i] = waiters_[i]
    BY <1>0, <1>1, AppendProperties
  <1>3. DOMAIN waiters_' = DOMAIN waiters_ \cup {n} /\ \A i \in DOMAIN waiters_ : i \in Nat /\ i < n
    BY <1>1, <1>2
  <1>4. Pending(waiters_[n])' BY <1>2 DEF Pending, TypeOK
  <1>5. \A i \in DOMAIN waiters_ :
           /\ Pending(waiters_[i])' <=> Pending(waiters_[i])
           /\ Pending(waiters_[i]) => waiters_[i].who # c
    BY <1>2 DEF Pending, TypeOK
  <1>6. ~Waits(c) BY <1>5 DEF Waits
  <1>7. \A d \in Coroutines : Waits(d)' <=> Waits(d) \/ d = c
    BY <1>2, <1>3, <1>4, <1>5 DEF Waits
  <1>8. \A d, e \in Coroutines : AskedBefore(d, e)' <=> AskedBefore(d, e) \/ (Waits(d) /\ e = c)
    <2> TAKE d \in Coroutines, e \in Coroutines
    <2>1. ASSUME AskedBefore(d, e)' PROVE AskedBefore(d, e) \/ (Waits(d) /\ e = c)
      <3>1. PICK i, j \in DOMAIN waiters_' :
               /\ i < j
               /\ waiters_'[i].who = d /\ Pending(waiters_[i])'
               /\ waiters_'[j].who = e /\ Pending(waiters_[j])'
        BY <2>1 DEF AskedBefore
      <3>2. i \in DOMAIN waiters_ BY <3>1, <1>1, <1>2
      <3>3. CASE j = n BY <3>1, <3>2, <3>3, <1>2, <1>5 DEF Waits
      <3>4. CASE j # n BY <3>1, <3>2, <3>4, <1>2, <1>3, <1>5 DEF AskedBefore
      <3> QED BY <3>3, <3>4
    <2>2. AskedBefore(d, e) => AskedBefore(d, e)'
      BY <1>2, <1>3, <1>5 DEF AskedBefore
    <2>3. ASSUME Waits(d), e = c PROVE AskedBefore(d, e)'
      <3>1. PICK i \in DOMAIN waiters_ : waiters_[i].who = d /\ Pending(waiters_[i])
        BY <2>3 DEF Waits
      <3> QED BY <2>3, <3>1, <1>2, <1>3, <1>4, <1>5 DEF AskedBefore
    <2> QED BY <2>1, <2>2, <2>3
  <1>9. Wanted' = [Wanted EXCEPT ![c] = mode[c]]
    BY <1>6, <1>7 DEF Wanted
  <1>10. Order' = Order \cup (RW!Waiting \X {c})
    BY <1>8, WaitingFacts DEF Order
  <1> QED BY <1>6, <1>9, <1>10 DEF Joins

-----------------------------------------------------------------------------
(* What each action does to the lock and to the queue. *)

\* lock() begins.
LEMMA StartLockEffect ==
    ASSUME JInv, NEW c \in Coroutines, NEW m \in Modes, StartLock(c, m)
    PROVE  SameGrants /\ SameQueue
  <1> USE DEF JInv, IInv
  <1>1. SameGrants BY DEF StartLock, Goto, SameGrants, Granted, TypeOK
  <1>2. ~Waits(c) BY WaitingFacts DEF StartLock, FlowInv
  <1>3. \A d \in Coroutines : Waits(d) => mode'[d] = mode[d]
    BY <1>2 DEF StartLock, TypeOK
  <1>4. SameQueue BY <1>3, QueueSame DEF StartLock, Pending
  <1> QED BY <1>1, <1>4

\* try_lock() succeeds on a free lock that nobody waits for.
LEMMA TryLockEffect ==
    ASSUME JInv, NEW c \in Coroutines, TryLock(c)
    PROVE  Gains(c, "excl") /\ SameQueue /\ RW!Waiting = {} /\ RW!Free("excl")
  <1> USE DEF JInv, IInv
  <1>1. Gains(c, "excl")
    BY DEF TryLock, Goto, Gains, Others, Granted, TypeOK
  <1>2. waiters_ = << >> BY DEF TryLock, QueueInv, Unlocked
  <1>3. RW!Waiting = {} BY <1>2, WaitingFacts DEF Waits
  <1>4. SameQueue BY <1>2, QueueSame DEF TryLock, Pending, Waits
  <1>5. RW!Free("excl")
    BY AllowFree DEF TryLock, TypeOK, WordInv, allow, Unlocked, Modes
  <1> QED BY <1>1, <1>3, <1>4, <1>5

\* try_lock_shared() loads the word.
LEMMA TrySharedEffect ==
    ASSUME JInv, NEW c \in Coroutines, TryShared(c)
    PROVE  SameGrants /\ SameQueue
  <1> USE DEF JInv, IInv
  <1>1. SameGrants BY DEF TryShared, Goto, SameGrants, Granted, TypeOK
  <1>2. ~Waits(c) BY WaitingFacts DEF TryShared, FlowInv
  <1>3. \A d \in Coroutines : Waits(d) => mode'[d] = mode[d]
    BY <1>2 DEF TryShared, TypeOK
  <1>4. SameQueue BY <1>3, QueueSame DEF TryShared, Pending
  <1> QED BY <1>1, <1>4

\* Its CAS succeeds on a word that shows no writer and nobody waiting.
LEMMA TrySharedCasEffect ==
    ASSUME JInv, NEW c \in Coroutines, TrySharedCas(c)
    PROVE  /\ SameQueue
           /\ \/ latch_ # reg[c] /\ SameGrants
              \/ /\ latch_ = reg[c] /\ Gains(c, "shared")
                 /\ RW!Waiting = {} /\ RW!Free("shared")
  <1> USE DEF JInv, IInv
  <1>1. SameQueue BY QueueSame DEF TrySharedCas, Pending
  <1>2. CASE latch_ # reg[c]
    <2>1. SameGrants BY <1>2 DEF TrySharedCas, Goto, SameGrants, Granted, TypeOK
    <2> QED BY <1>1, <1>2, <2>1
  <1>3. CASE latch_ = reg[c]
    <2>1. Gains(c, "shared")
      BY <1>3 DEF TrySharedCas, Goto, Gains, Others, Granted, TypeOK, RegInv
    <2>2. FastTryShared(latch_) BY <1>3 DEF TrySharedCas, RegInv
    <2>3. waiters_ = << >> BY <2>2 DEF FastTryShared, QueueInv
    <2>4. RW!Waiting = {} BY <2>3, WaitingFacts DEF Waits
    <2>5. RW!Free("shared")
      BY <2>2, AllowFree DEF TypeOK, WordInv, allow, FastTryShared, Modes
    <2> QED BY <1>1, <1>3, <2>1, <2>4, <2>5
  <1> QED BY <1>2, <1>3

\* unlock() chooses its path.
LEMMA UnlockEffect ==
    ASSUME JInv, NEW c \in Coroutines, Unlock(c)
    PROVE  SameGrants /\ SameQueue
  <1> USE DEF JInv, IInv
  <1>1. SameGrants BY DEF Unlock, Goto, SameGrants, Granted, TypeOK
  <1>2. SameQueue BY QueueSame DEF Unlock, Pending
  <1> QED BY <1>1, <1>2

\* The CAS of unlock() gives the lock up.
LEMMA UnlockCasEffect ==
    ASSUME JInv, NEW c \in Coroutines, UnlockCas(c)
    PROVE  /\ SameQueue
           /\ (latch_ # reg[c] /\ SameGrants) \/ (latch_ = reg[c] /\ Loses(c))
  <1> USE DEF JInv, IInv
  <1>1. SameQueue BY QueueSame DEF UnlockCas, Pending
  <1>2. CASE latch_ # reg[c]
    <2>1. SameGrants BY <1>2 DEF UnlockCas, Goto, SameGrants, Granted, TypeOK
    <2> QED BY <1>1, <1>2, <2>1
  <1>3. CASE latch_ = reg[c]
    <2>1. Loses(c) BY <1>3 DEF UnlockCas, Goto, Loses, Others, Granted, TypeOK
    <2> QED BY <1>1, <1>3, <2>1
  <1> QED BY <1>2, <1>3

\* unlock_impl gives the lock up when it has the latch.
LEMMA LatchEffect ==
    ASSUME JInv, NEW c \in Coroutines, Latch(c)
    PROVE  /\ SameQueue
           /\ (op[c] = "lock" /\ SameGrants) \/ (op[c] = "unlock" /\ Loses(c))
  <1> USE DEF JInv, IInv
  <1>1. SameQueue BY QueueSame DEF Latch, Pending
  <1>2. CASE op[c] = "lock"
    <2>1. SameGrants BY <1>2 DEF Latch, Goto, SameGrants, Granted, TypeOK, FlowInv
    <2> QED BY <1>1, <1>2, <2>1
  <1>3. CASE op[c] = "unlock"
    <2>1. Loses(c) BY <1>3 DEF Latch, Goto, Loses, Others, Granted, TypeOK, FlowInv
    <2> QED BY <1>1, <1>3, <2>1
  <1> QED BY <1>2, <1>3 DEF TypeOK

\* notify_locked drops empty entries only.
LEMMA NotifyEffect ==
    ASSUME JInv, NEW c \in Coroutines, Notify(c)
    PROVE  SameGrants /\ SameQueue
  <1> USE DEF JInv, IInv
  <1>1. SameGrants
    <2>1. pc' = pc \/ \E l \in {"trigger", "decide", "unlatch"} :
             pc' = [pc EXCEPT ![c] = l] /\ (l = "unlatch" => op[c] = "unlock")
      BY DEF Notify, Goto, AfterNotify, TypeOK
    <2>2. pc[c] = "notify" /\ UNCHANGED <<op, mode, event, owned_>> BY DEF Notify
    <2> QED BY <2>1, <2>2 DEF SameGrants, Granted, TypeOK
  <1>2. CASE UNCHANGED waiters_
    <2>1. SameQueue BY <1>2, QueueSame DEF Notify, Pending
    <2> QED BY <1>1, <2>1
  <1>3. CASE waiters_ # << >> /\ Head(waiters_).empty /\ waiters_' = Tail(waiters_)
    <2>1. SameQueue BY <1>3, QueuePop DEF Notify, Pending
    <2> QED BY <1>1, <2>1
  <1> QED BY <1>2, <1>3 DEF Notify

\* The trigger hands the lock to whoever waits longest.
LEMMA TriggerEffect ==
    ASSUME JInv, NEW c \in Coroutines, Trigger(c)
    PROVE  \/ /\ Head(waiters_).empty /\ waiters_' = Tail(waiters_) /\ pc' = [pc EXCEPT ![c] = "notify"]
              /\ SameGrants /\ SameQueue
           \/ /\ ~Head(waiters_).empty /\ UNCHANGED waiters_
              /\ event' = [event EXCEPT ![Head(waiters_).who] = "triggered"]
              /\ pc' = [pc EXCEPT ![c] = "grant"]
              /\ reg' = [reg EXCEPT ![c] = Plus(@, Head(waiters_).mode)]
              /\ Gains(Head(waiters_).who, Head(waiters_).mode)
              /\ Leaves(Head(waiters_).who)
              /\ RW!First(Head(waiters_).who)
              /\ Head(waiters_).mode = Wanted[Head(waiters_).who]
              /\ RW!Free(Head(waiters_).mode)
  <1> USE DEF JInv, IInv
  <1>1. /\ pc[c] = "trigger" /\ waiters_ # << >> /\ 1 \in DOMAIN waiters_
        /\ Head(waiters_) = waiters_[1]
        /\ Head(waiters_).who \in Coroutines /\ Head(waiters_).mode \in Modes
    BY HeadWho DEF Trigger
  <1>2. CASE Head(waiters_).empty
    <2>1. /\ waiters_' = Tail(waiters_) /\ pc' = [pc EXCEPT ![c] = "notify"]
          /\ UNCHANGED <<event, mode, op, owned_>>
      BY <1>2 DEF Trigger, Goto
    <2>2. SameGrants BY <1>1, <2>1 DEF SameGrants, Granted, TypeOK
    <2>3. SameQueue BY <1>1, <1>2, <2>1, QueuePop DEF Pending
    <2> QED BY <1>2, <2>1, <2>2, <2>3
  <1>3. CASE ~Head(waiters_).empty
    <2> DEFINE w == Head(waiters_).who
    <2>1. /\ event' = [event EXCEPT ![w] = "triggered"]
          /\ pc' = [pc EXCEPT ![c] = "grant"]
          /\ reg' = [reg EXCEPT ![c] = Plus(@, Head(waiters_).mode)]
          /\ UNCHANGED <<waiters_, op, mode, owned_>>
      BY <1>3 DEF Trigger, Goto
    <2>2. \A i \in DOMAIN waiters_ : Settled(i)
      BY <1>1 DEF Settled, LatchInv, Latched
    <2>3. event[w] = "pending" /\ mode[w] = Head(waiters_).mode
      BY <1>1, <1>3, <2>2 DEF EntryInv
    <2>4. pc[w] = "wait" /\ w # c
      BY <1>1, <2>3 DEF FlowInv, LatchInv, Latched
    <2>5. ~Granted(w) BY <2>3, <2>4 DEF Granted
    <2>6. Granted(w)' BY <1>1, <2>1, <2>4 DEF Granted, TypeOK
    <2>7. Others(w) BY <1>1, <2>1 DEF Others, Granted, TypeOK
    <2>8. Waits(w) BY <1>1, <1>3, <2>3 DEF Waits, Pending
    <2>9. \A d \in Coroutines : ~AskedBefore(d, w)
      BY <1>1, <1>3, <2>2, EntryType DEF AskedBefore, Pending, EntryInv, TypeOK
    <2>10. RW!First(w) BY <1>1, <2>8, <2>9, WaitingFacts DEF RW!First, Order
    <2>11. Leaves(w) BY <1>1, <2>1, EntryType, QueueLeave DEF Pending, TypeOK
    <2>12. RW!Free(Head(waiters_).mode)
      BY <1>1, AllowFree DEF TypeOK, WordInv, RegInv, Latched
    <2>13. Head(waiters_).mode = Wanted[w] BY <1>1, <2>3, <2>8 DEF Wanted
    <2> QED BY <1>1, <1>3, <2>1, <2>3, <2>5, <2>6, <2>7, <2>10, <2>11, <2>12, <2>13 DEF Gains
  <1> QED BY <1>2, <1>3, HeadWho DEF Trigger

\* The entry that was triggered is dropped, and its guard learns what it has.
LEMMA GrantEffect ==
    ASSUME JInv, NEW c \in Coroutines, Grant(c)
    PROVE  SameGrants /\ SameQueue
  <1> USE DEF JInv, IInv
  <1>1. /\ pc[c] = "grant" /\ waiters_ # << >> /\ Head(waiters_).who \in Coroutines
        /\ pc' = [pc EXCEPT ![c] = "notify"] /\ waiters_' = Tail(waiters_)
        /\ UNCHANGED <<op, mode, event>>
    BY HeadWho DEF Grant, Goto
  <1>2. SameGrants
    <2>1. \A d \in Coroutines : pc[d] \in {"wait", "timedout"} /\ owned_'[d] # owned_[d]
             => event[d] = "triggered"
      BY <1>1 DEF Grant, OwnedInv, TypeOK
    <2> QED BY <1>1, <2>1 DEF SameGrants, Granted, TypeOK
  <1>3. SameQueue BY <1>1, QueuePop DEF TriggeredInv, Pending
  <1> QED BY <1>2, <1>3

\* lock_impl takes the lock, or queues behind all others; without guards only
\* if it has to.
LEMMA DecideEffect ==
    ASSUME JInv, NEW c \in Coroutines, Decide(c)
    PROVE  \/ /\ waiters_ = << >> /\ UNCHANGED <<waiters_, event>>
              /\ reg' = [reg EXCEPT ![c] = Plus(@, mode[c])]
              /\ Gains(c, mode[c]) /\ SameQueue /\ RW!Waiting = {} /\ RW!Free(mode[c])
           \/ /\ UNCHANGED reg
              /\ waiters_' = Append(waiters_, [who |-> c, mode |-> mode[c], empty |-> FALSE])
              /\ event' = [event EXCEPT ![c] = "pending"]
              /\ SameGrants /\ Joins(c, mode[c]) /\ Held[c] = "none"
              /\ Guarded = {} => RW!Waiting # {} \/ ~RW!Free(mode[c])
  <1> USE DEF JInv, IInv
  <1>1. /\ pc[c] = "decide" /\ op[c] = "lock" /\ event[c] = "none" /\ mode[c] \in Modes
        /\ pc' = [pc EXCEPT ![c] = "unlatch"] /\ UNCHANGED <<op, mode>>
        /\ ~Granted(c) /\ Held[c] = "none" /\ reg[c] \in Words
    BY DEF Decide, Goto, FlowInv, TypeOK, Granted, Held
  <1>2. \A i \in DOMAIN waiters_ : Settled(i)
    BY <1>1 DEF Settled, LatchInv, Latched
  <1>3. CASE waiters_ = << >> /\ allow(mode[c], reg[c])
    <2>1. /\ reg' = [reg EXCEPT ![c] = Plus(@, mode[c])] /\ UNCHANGED <<waiters_, event>>
          /\ owned_' = [owned_ EXCEPT ![c] = c \in Guarded]
      BY <1>3 DEF Decide
    <2>2. Gains(c, mode[c]) BY <1>1, <2>1 DEF Gains, Others, Granted, TypeOK
    <2>3. SameQueue BY <1>1, <2>1, QueueSame DEF Pending
    <2>4. RW!Waiting = {} BY <1>3, WaitingFacts DEF Waits
    <2>5. RW!Free(mode[c]) BY <1>1, <1>3, AllowFree DEF WordInv, Latched
    <2> QED BY <1>3, <2>1, <2>2, <2>3, <2>4, <2>5
  <1>4. CASE ~(waiters_ = << >> /\ allow(mode[c], reg[c]))
    <2>1. /\ waiters_' = Append(waiters_, [who |-> c, mode |-> mode[c], empty |-> FALSE])
          /\ event' = [event EXCEPT ![c] = "pending"] /\ UNCHANGED <<reg, owned_>>
      BY <1>4 DEF Decide
    <2>2. SameGrants BY <1>1, <2>1 DEF SameGrants, Granted, TypeOK
    <2>3. \A i \in DOMAIN waiters_ : waiters_[i].who = c => waiters_[i].empty
      BY <1>1, <1>2, EntryType DEF EntryInv, TypeOK
    <2>4. Joins(c, mode[c]) BY <1>1, <2>1, <2>3, QueueJoin
    <2>5. ASSUME Guarded = {}, waiters_ # << >> PROVE RW!Waiting # {}
      <3>1. 1 \in DOMAIN waiters_ BY <2>5, TailFacts DEF TypeOK
      <3>2. Waits(waiters_[1].who) /\ waiters_[1].who \in Coroutines
        BY <1>2, <2>5, <3>1, EntryType DEF Waits, Pending, PatientInv, EntryInv, TypeOK
      <3> QED BY <3>2, WaitingFacts
    <2>6. ASSUME Guarded = {}, ~allow(mode[c], reg[c]) PROVE ~RW!Free(mode[c])
      BY <1>1, <2>6, RefuseTaken DEF ExactInv, Latched
    <2> QED BY <1>1, <1>4, <2>1, <2>2, <2>4, <2>5, <2>6
  <1> QED BY <1>3, <1>4

\* unlatch() returns to the caller.
LEMMA UnlatchEffect ==
    ASSUME JInv, NEW c \in Coroutines, Unlatch(c)
    PROVE  SameGrants /\ SameQueue
  <1> USE DEF JInv, IInv
  <1>1. SameGrants BY DEF Unlatch, Goto, SameGrants, Granted, TypeOK, FlowInv
  <1>2. SameQueue BY QueueSame DEF Unlatch, Pending
  <1> QED BY <1>1, <1>2

\* The coroutine runs on with the lock it was granted.
LEMMA ResumeEffect ==
    ASSUME JInv, NEW c \in Coroutines, Resume(c)
    PROVE  SameGrants /\ SameQueue
  <1> USE DEF JInv, IInv
  <1>1. SameGrants BY DEF Resume, Goto, SameGrants, Granted, TypeOK
  <1>2. \A i \in DOMAIN waiters_ : Pending(waiters_[i])' <=> Pending(waiters_[i])
    BY DEF Resume, Pending, TypeOK
  <1>3. SameQueue BY <1>2, QueueSame DEF Resume
  <1> QED BY <1>1, <1>3

\* Whoever gives up waits no longer; it keeps what it was granted just before.
LEMMA CancelEffect ==
    ASSUME JInv, NEW c \in Coroutines, Cancel(c)
    PROVE  SameGrants /\ Leaves(c)
  <1> USE DEF JInv, IInv
  <1>1. /\ pc[c] = "wait" /\ pc' = [pc EXCEPT ![c] = "timedout"]
        /\ event' = [event EXCEPT ![c] = IF @ = "pending" THEN "none" ELSE @]
        /\ waiters_' = [i \in DOMAIN waiters_ |->
                          IF waiters_[i].who = c THEN [waiters_[i] EXCEPT !.empty = TRUE]
                          ELSE waiters_[i]]
        /\ UNCHANGED <<op, mode, owned_>>
    BY DEF Cancel, Goto
  <1>2. SameGrants BY <1>1 DEF SameGrants, Granted, TypeOK, OwnedInv
  <1>3. \A i \in DOMAIN waiters_ : waiters_'[i].who = waiters_[i].who /\
           (waiters_'[i].empty <=> waiters_[i].empty \/ waiters_[i].who = c)
    BY <1>1, EntryType DEF TypeOK, Waiters
  <1>4. \A i \in DOMAIN waiters_ : Pending(waiters_[i])' <=> Pending(waiters_[i]) /\ waiters_[i].who # c
    BY <1>1, <1>3, EntryType DEF Pending, TypeOK
  <1>5. Leaves(c) BY <1>1, <1>3, <1>4, QueueLeave
  <1> QED BY <1>2, <1>5

\* A guard that does not own the lock is given up without an unlock.
LEMMA CheckEffect ==
    ASSUME JInv, NEW c \in Coroutines, Check(c)
    PROVE  SameQueue /\ (SameGrants \/ Loses(c))
  <1> USE DEF JInv, IInv
  <1>1. SameGrants \/ Loses(c)
    BY DEF Check, Goto, SameGrants, Loses, Others, Granted, TypeOK
  <1>2. \A i \in DOMAIN waiters_ : Pending(waiters_[i])' <=> Pending(waiters_[i])
    BY DEF Check, Pending, TypeOK, FlowInv
  <1>3. SameQueue BY <1>2, QueueSame DEF Check
  <1> QED BY <1>1, <1>3

-----------------------------------------------------------------------------
(* The rest of the invariant is preserved. *)

\* A step that keeps the queue, and makes no event pending.
LEMMA TriggeredFrame ==
    ASSUME TypeOK, RegInv, TriggeredInv, UNCHANGED waiters_,
           \A d \in Coroutines : /\ pc'[d] = "grant" => pc[d] = "grant"
                                 /\ event'[d] = "pending" => event[d] = "pending"
    PROVE  TriggeredInv'
  BY HeadWho DEF TriggeredInv

\* A trigger is the only way to a grant.
LEMMA TriggeredStep ==
    ASSUME JInv, NEW c \in Coroutines, Step(c) \/ Call(c)
    PROVE  TriggeredInv'
  <1> USE DEF JInv, IInv, TypeOK
  <1>1. ASSUME NEW m \in Modes, StartLock(c, m) PROVE TriggeredInv'
    BY <1>1, TriggeredFrame DEF StartLock, Goto
  <1>2. CASE TryLock(c) BY <1>2, TriggeredFrame DEF TryLock, Goto
  <1>3. CASE TryShared(c) BY <1>3, TriggeredFrame DEF TryShared, Goto
  <1>4. CASE TrySharedCas(c) BY <1>4, TriggeredFrame DEF TrySharedCas, Goto
  <1>5. CASE Unlock(c) BY <1>5, TriggeredFrame DEF Unlock, Goto
  <1>6. CASE UnlockCas(c) BY <1>6, TriggeredFrame DEF UnlockCas, Goto
  <1>7. CASE Latch(c) BY <1>7, TriggeredFrame DEF Latch, Goto
  <1>8. CASE Unlatch(c) BY <1>8, TriggeredFrame DEF Unlatch, Goto
  <1>9. ASSUME NEW l \in Labels \ {"grant"}, pc[c] \in Latched, pc' = [pc EXCEPT ![c] = l]
        PROVE  TriggeredInv'
    BY <1>9 DEF TriggeredInv, LatchInv, Latched
  <1>10. CASE Notify(c)
    <2>1. \E l \in Labels \ {"grant"} : pc' = [pc EXCEPT ![c] = l]
      BY <1>10 DEF Notify, Goto, AfterNotify, Labels, Latched
    <2> QED BY <1>9, <1>10, <2>1 DEF Notify, Latched
  <1>11. CASE Grant(c) BY <1>9, <1>11 DEF Grant, Goto, Labels, Latched
  <1>12. CASE Decide(c) BY <1>9, <1>12 DEF Decide, Goto, Labels, Latched
  <1>13. CASE Trigger(c)
    <2>1. CASE pc' = [pc EXCEPT ![c] = "notify"]
      BY <1>9, <1>13, <2>1 DEF Trigger, Labels, Latched
    <2>2. CASE pc' = [pc EXCEPT ![c] = "grant"]
      BY <1>13, <2>2, HeadWho DEF Trigger, Goto, TriggeredInv
    <2> QED BY <1>13, <2>1, <2>2 DEF Trigger, Goto
  <1>14. CASE Resume(c) BY <1>14, TriggeredFrame DEF Resume, Goto
  <1>15. CASE Check(c) BY <1>15, TriggeredFrame DEF Check, Goto
  <1>16. CASE Cancel(c)
    <2>1. \A d \in Coroutines : pc'[d] = "grant" => pc[d] = "grant" BY <1>16 DEF Cancel, Goto
    <2>2. \A d \in Coroutines : pc[d] = "grant" =>
             Head(waiters_)'.who = Head(waiters_).who /\ Head(waiters_).who \in Coroutines
      <3> SUFFICES ASSUME NEW d \in Coroutines, pc[d] = "grant"
                   PROVE  Head(waiters_)'.who = Head(waiters_).who /\ Head(waiters_).who \in Coroutines
        OBVIOUS
      <3>1. /\ waiters_ # << >> /\ 1 \in DOMAIN waiters_ /\ Head(waiters_) = waiters_[1]
            /\ waiters_[1] \in Waiters
        BY HeadWho
      <3>2. waiters_' = [i \in DOMAIN waiters_ |->
                          IF waiters_[i].who = c THEN [waiters_[i] EXCEPT !.empty = TRUE]
                          ELSE waiters_[i]]
        BY <1>16 DEF Cancel
      <3> QED BY <3>1, <3>2 DEF Waiters
    <2>3. \A d \in Coroutines : event'[d] = "pending" => event[d] = "pending"
      BY <1>16 DEF Cancel
    <2> QED BY <2>1, <2>2, <2>3 DEF TriggeredInv
  <1> QED
    BY <1>1, <1>2, <1>3, <1>4, <1>5, <1>6, <1>7, <1>8, <1>10, <1>11, <1>12, <1>13, <1>14, <1>15,
       <1>16 DEF Step, Call

\* Without guards nobody gives up.
LEMMA PatientStep ==
    ASSUME MutexAssumption, JInv, NEW c \in Coroutines, Step(c) \/ Call(c)
    PROVE  PatientInv'
  <1> SUFFICES ASSUME Guarded = {} PROVE PatientInv' BY DEF PatientInv
  <1> USE DEF JInv, IInv, TypeOK
  <1>1. Cancels = {} BY DEF MutexAssumption
  <1>2. \A d \in Coroutines : pc'[d] \notin {"resumed", "timedout"}
    BY <1>1, ZenonT(60) DEF PatientInv, Step, Call, StartLock, TryLock, TryShared, TrySharedCas, Unlock,
         UnlockCas, Latch, Notify, AfterNotify, Trigger, Grant, Decide, Unlatch, Resume, Cancel,
         Check, Goto
  <1>3. CASE UNCHANGED waiters_ BY <1>2, <1>3 DEF PatientInv
  <1>4. CASE waiters_ # << >> /\ waiters_' = Tail(waiters_)
    <2>1. \A i \in DOMAIN waiters_' : ~waiters_'[i].empty BY <1>4, TailFacts DEF PatientInv
    <2> QED BY <1>2, <2>1 DEF PatientInv
  <1>5. CASE waiters_' = Append(waiters_, [who |-> c, mode |-> mode[c], empty |-> FALSE])
    <2>1. \A i \in DOMAIN waiters_' : ~waiters_'[i].empty
      BY <1>5, AppendProperties, LenProperties DEF PatientInv, Waiters
    <2> QED BY <1>2, <2>1 DEF PatientInv
  <1>6. \/ UNCHANGED waiters_
        \/ waiters_ # << >> /\ waiters_' = Tail(waiters_)
        \/ waiters_' = Append(waiters_, [who |-> c, mode |-> mode[c], empty |-> FALSE])
    BY <1>1 DEF RegInv, Step, Call, StartLock, TryLock, TryShared, TrySharedCas, Unlock,
         UnlockCas, Latch, Notify, Trigger, Grant, Decide, Unlatch, Resume, Cancel, Check
  <1> QED BY <1>3, <1>4, <1>5, <1>6

\* A step that changes neither the grantees nor the word.
LEMMA ExactFrame ==
    ASSUME ExactInv, SameGrants, UNCHANGED latch_,
           \A d \in Coroutines : pc'[d] \in Latched => pc[d] \in Latched /\ reg'[d] = reg[d]
    PROVE  ExactInv'
  BY GranteesChange DEF ExactInv

\* A step that gives the lock to w, and counts it in the word it writes.
LEMMA ExactGain ==
    ASSUME JInv, NEW w \in Coroutines, NEW m \in Modes, Gains(w, m), NEW u \in Words,
           Accounts(u, Grantees("excl"), Grantees("shared")),
           Exact(u, Grantees("excl"), Grantees("shared"))
    PROVE  Exact(Plus(u, m), Grantees("excl")', Grantees("shared")')
  <1>1. PICK X, S : X = Grantees("excl") /\ S = Grantees("shared") OBVIOUS
  <1>2. w \notin S /\ IsFiniteSet(S) /\ Exact(u, X, S)
    BY <1>1, GranteesChange DEF Accounts
  <1>3. Exact(Plus(u, m), IF m = "excl" THEN X \cup {w} ELSE X,
                          IF m = "shared" THEN S \cup {w} ELSE S)
    BY <1>2, ExactPlus
  <1> QED BY <1>1, <1>3, GranteesChange

\* A step by which c gives the lock up, and subtracts it from the word.
LEMMA ExactLoss ==
    ASSUME JInv, NEW c \in Coroutines, Loses(c), NEW u \in Words,
           Accounts(u, Grantees("excl"), Grantees("shared")),
           Exact(u, Grantees("excl"), Grantees("shared"))
    PROVE  Exact(Minus(u, mode[c]), Grantees("excl")', Grantees("shared")')
  <1>0. TypeOK /\ mode[c] \in Modes BY DEF JInv, IInv, TypeOK
  <1>1. PICK X, S : X = Grantees("excl") /\ S = Grantees("shared") OBVIOUS
  <1>2. /\ X \cap S = {} /\ c \in (IF mode[c] = "excl" THEN X ELSE S)
        /\ Accounts(u, X, S) /\ Exact(u, X, S)
    BY <1>0, <1>1, GranteesChange DEF Grantees, Modes
  <1>3. Exact(Minus(u, mode[c]), X \ {c}, S \ {c})
    BY <1>0, <1>2, ExactMinus
  <1> QED BY <1>0, <1>1, <1>3, GranteesChange

\* Without guards the current word stays exact.
LEMMA ExactStep ==
    ASSUME MutexAssumption, JInv, NEW c \in Coroutines, Step(c) \/ Call(c)
    PROVE  ExactInv'
  <1> SUFFICES ASSUME Guarded = {} PROVE ExactInv' BY DEF ExactInv
  <1> USE DEF JInv, IInv, TypeOK
  <1> DEFINE Ex(w) == Exact(w, Grantees("excl"), Grantees("shared"))
             Ac(w) == Accounts(w, Grantees("excl"), Grantees("shared"))
             Ex1(w) == Exact(w, Grantees("excl")', Grantees("shared")')
  <1>a. /\ ~latch_.latch => Ex(latch_) /\ Ac(latch_) /\ \A d \in Coroutines : pc[d] \notin Latched
        /\ \A d \in Coroutines : pc[d] \in Latched =>
              Ex(reg[d]) /\ Ac(reg[d]) /\ latch_.latch
    BY DEF ExactInv, WordInv, LatchInv
  <1>b. SameGrants => \A u : Ex(u) => Ex1(u) BY GranteesChange
  <1> HIDE DEF Ex, Ac, Ex1
  <1>1. ASSUME NEW m \in Modes, StartLock(c, m) PROVE ExactInv'
    BY <1>1, StartLockEffect, ExactFrame DEF StartLock, Goto, Latched
  <1>2. CASE TryLock(c)
    <2>1. ~latch_.latch BY <1>2 DEF TryLock, Unlocked
    <2>2. "excl" \in Modes BY DEF Modes
    <2>3. Ex1(latch_') BY <1>2, <1>a, <2>1, <2>2, TryLockEffect, ExactGain DEF TryLock, Ex, Ac, Ex1
    <2> QED BY <1>2, <1>a, <2>1, <2>3 DEF TryLock, Goto, Latched, ExactInv, Ex1
  <1>3. CASE TryShared(c)
    BY <1>3, TrySharedEffect, ExactFrame DEF TryShared, Goto, Latched
  <1>4. CASE TrySharedCas(c)
    <2>1. CASE latch_ # reg[c]
      BY <1>4, <2>1, TrySharedCasEffect, ExactFrame, ZenonT(60) DEF TrySharedCas, Goto, EndScope, Latched, Gains
    <2>2. CASE latch_ = reg[c]
      <3>1. ~latch_.latch /\ "shared" \in Modes
        BY <1>4, <2>2 DEF TrySharedCas, RegInv, FastTryShared, Modes
      <3>2. Ex1(latch_')
        BY <1>4, <1>a, <2>2, <3>1, TrySharedCasEffect, ExactGain DEF TrySharedCas, Ex, Ac, Ex1
      <3> QED BY <1>4, <1>a, <2>2, <3>1, <3>2 DEF TrySharedCas, Goto, Latched, ExactInv, Ex1
    <2> QED BY <2>1, <2>2
  <1>5. CASE Unlock(c)
    BY <1>5, UnlockEffect, ExactFrame, ZenonT(60) DEF Unlock, Goto, Latched
  <1>6. CASE UnlockCas(c)
    <2>1. CASE latch_ # reg[c]
      BY <1>6, <2>1, UnlockCasEffect, ExactFrame DEF UnlockCas, Goto, EndScope, Latched
    <2>2. CASE latch_ = reg[c]
      <3>1. ~latch_.latch
        BY <1>6, <2>2 DEF UnlockCas, RegInv, FastUnlock
      <3>2. Ex1(latch_')
        BY <1>6, <1>a, <2>2, <3>1, UnlockCasEffect, ExactLoss DEF UnlockCas, Ex, Ac, Ex1
      <3> QED BY <1>6, <1>a, <2>2, <3>1, <3>2 DEF UnlockCas, Goto, Latched, ExactInv, Ex1
    <2> QED BY <2>1, <2>2
  <1>7. CASE Latch(c)
    <2> DEFINE l == [latch_ EXCEPT !.next = "none"]
    <2>1. ~latch_.latch /\ latch_'.latch BY <1>7 DEF Latch, Words
    <2>2. l \in Words /\ Ex(l) /\ Ac(l)
      BY <1>a, <2>1 DEF Ex, Ac, Exact, Accounts, Words
    <2>3. Ex1(reg'[c])
      <3>1. reg'[c] = IF op[c] = "unlock" THEN Minus(l, mode[c]) ELSE l BY <1>7 DEF Latch
      <3> HIDE DEF l
      <3>2. CASE op[c] = "lock" BY <1>7, <1>b, <2>2, <3>1, <3>2, LatchEffect
      <3>3. CASE op[c] = "unlock"
        BY <1>7, <2>2, <3>1, <3>3, LatchEffect, ExactLoss DEF Ex, Ac, Ex1
      <3> QED BY <3>2, <3>3
    <2>4. \A d \in Coroutines : pc'[d] \in Latched => d = c
      BY <1>7, <1>a, <2>1 DEF Latch, Goto
    <2> QED BY <2>1, <2>3, <2>4 DEF ExactInv, Ex1
  <1>8. CASE Notify(c)
    BY <1>8, NotifyEffect, ExactFrame DEF Notify, Goto, Latched
  <1>9. ASSUME pc[c] \in Latched, UNCHANGED latch_, Ex1(reg'[c]),
               \A d \in Coroutines \ {c} : pc'[d] = pc[d]
        PROVE  ExactInv'
    BY <1>9, <1>a DEF ExactInv, Ex1, LatchInv
  <1>10. CASE Trigger(c)
    <2>1. pc[c] = "trigger" /\ UNCHANGED latch_ BY <1>10 DEF Trigger
    <2>2. CASE SameGrants /\ pc' = [pc EXCEPT ![c] = "notify"]
      BY <1>10, <2>1, <2>2, ExactFrame DEF Trigger, Goto, Latched
    <2>3. CASE /\ Gains(Head(waiters_).who, Head(waiters_).mode)
               /\ reg' = [reg EXCEPT ![c] = Plus(@, Head(waiters_).mode)]
      <3>1. Ex1(Plus(reg[c], Head(waiters_).mode))
        BY <1>a, <2>1, <2>3, HeadWho, ExactGain DEF Ex, Ac, Ex1, Latched
      <3> QED BY <1>9, <1>10, <2>1, <2>3, <3>1 DEF Trigger, Goto, Latched
    <2> QED BY <1>10, <2>2, <2>3, TriggerEffect
  <1>11. CASE Grant(c)
    BY <1>11, GrantEffect, ExactFrame DEF Grant, Goto, Latched
  <1>12. CASE Decide(c)
    <2>1. pc[c] = "decide" /\ mode[c] \in Modes /\ UNCHANGED latch_ BY <1>12 DEF Decide
    <2>2. CASE SameGrants /\ UNCHANGED reg
      BY <1>12, <2>1, <2>2, ExactFrame DEF Decide, Goto, Latched
    <2>3. CASE Gains(c, mode[c]) /\ reg' = [reg EXCEPT ![c] = Plus(@, mode[c])]
      <3>1. Ex1(Plus(reg[c], mode[c]))
        BY <1>a, <2>1, <2>3, ExactGain DEF Ex, Ac, Ex1, Latched
      <3> QED BY <1>9, <1>12, <2>1, <2>3, <3>1 DEF Decide, Goto, Latched
    <2> QED BY <1>12, <2>2, <2>3, DecideEffect
  <1>13. CASE Unlatch(c)
    <2>1. pc[c] = "unlatch" /\ latch_' = [reg[c] EXCEPT !.next = latch_'.next]
      BY <1>13 DEF Unlatch, Words
    <2>2. Ex1(reg[c]) BY <1>13, <1>a, <1>b, <2>1, UnlatchEffect DEF Latched
    <2>3. Ex1(latch_') BY <2>1, <2>2 DEF Ex1, Exact, Words
    <2>4. \A d \in Coroutines : pc'[d] \notin Latched
      BY <1>13, <2>1 DEF Unlatch, Goto, Latched, LatchInv
    <2> QED BY <2>3, <2>4 DEF ExactInv, Ex1
  <1>14. CASE Resume(c)
    BY <1>14, ResumeEffect, ExactFrame DEF Resume, Goto, Latched
  <1>15. CASE Cancel(c)
    BY <1>15, CancelEffect, ExactFrame DEF Cancel, Goto, Latched
  <1>16. CASE Check(c) BY <1>16 DEF Check, PatientInv
  <1> QED
    BY <1>1, <1>2, <1>3, <1>4, <1>5, <1>6, <1>7, <1>8, <1>10, <1>11, <1>12, <1>13, <1>14, <1>15,
       <1>16 DEF Step, Call

\* The invariant holds in every reachable state.
LEMMA JInvariance == Spec => []JInv
  <1>1. ASSUME MutexAssumption, Init PROVE JInv
    <2>1. Grantees("excl") = {} /\ Grantees("shared") = {}
      BY <1>1 DEF Init, Grantees, Granted
    <2>2. ExactInv
      <3>1. Cardinality({}) = 0 BY FS_EmptySet
      <3>2. Exact(Unlocked, {}, {}) BY <3>1 DEF Exact, Unlocked
      <3>3. \A c \in Coroutines : pc[c] \notin Latched BY <1>1 DEF Init, Latched
      <3> QED BY <1>1, <2>1, <3>2, <3>3 DEF ExactInv, Init
    <2>3. TriggeredInv /\ PatientInv BY <1>1 DEF Init, TriggeredInv, PatientInv
    <2> QED BY <1>1, <2>2, <2>3, InitIInv DEF JInv
  <1>2. ASSUME MutexAssumption, JInv, [Next]_vars PROVE JInv'
    <2>1. IInv' BY <1>2, NextIInv DEF JInv
    <2>2. CASE Next
      BY <1>2, <2>1, <2>2, TriggeredStep, PatientStep, ExactStep DEF Next, JInv
    <2>3. CASE UNCHANGED vars
      <3>1. SameGrants BY <2>3 DEF vars, SameGrants, Granted
      <3>2. ExactInv' BY <1>2, <2>3, <3>1, ExactFrame DEF vars, JInv
      <3>3. TriggeredInv' /\ PatientInv'
        BY <1>2, <2>3 DEF vars, JInv, TriggeredInv, PatientInv
      <3> QED BY <2>1, <3>2, <3>3 DEF JInv
    <2> QED BY <1>2, <2>2, <2>3
  <1> QED
    BY <1>1, <1>2, MutexAssumption, PTL DEF Spec

-----------------------------------------------------------------------------
(* Every step is a step of the abstract lock, or none. *)

\* A step that changes neither the lock nor the queue.
LEMMA Stutter == ASSUME SameGrants, SameQueue PROVE UNCHANGED RW!vars
  BY HeldChanges DEF SameQueue, RW!vars

\* Whoever gains the lock while nobody waits acquires it.
LEMMA AcquireStep ==
    ASSUME JInv, NEW c \in Coroutines, NEW m \in Modes, Gains(c, m), SameQueue,
           RW!Waiting = {}, RW!Free(m)
    PROVE  RW!Next
  <1>1. RW!Acquire(c, m) BY HeldChanges DEF SameQueue, RW!Acquire
  <1> QED BY <1>1 DEF RW!Next, RW!Modes, Modes

\* Whoever loses the lock released it.
LEMMA ReleaseStep ==
    ASSUME JInv, NEW c \in Coroutines, Loses(c), SameQueue
    PROVE  RW!Next
  <1>1. RW!Release(c) BY HeldChanges DEF SameQueue, RW!Release, JInv, IInv
  <1> QED BY <1>1 DEF RW!Next

\* The step simulation.
LEMMA NextRWNext ==
    ASSUME MutexAssumption, JInv, [Next]_vars
    PROVE  [RW!Next]_(RW!vars)
  <1>1. CASE UNCHANGED vars
    <2>1. SameGrants BY <1>1 DEF vars, SameGrants, Granted
    <2>2. SameQueue
      BY <1>1, QueueSame DEF vars, Pending, JInv, IInv
    <2> QED BY <2>1, <2>2, Stutter
  <1>2. ASSUME NEW c \in Coroutines, Step(c) \/ Call(c)
        PROVE  [RW!Next]_(RW!vars)
    <2>1. ASSUME NEW m \in Modes, StartLock(c, m) PROVE [RW!Next]_(RW!vars)
      BY <2>1, StartLockEffect, Stutter
    <2>2. CASE TryLock(c)
      BY <2>2, TryLockEffect, AcquireStep DEF Modes
    <2>3. CASE TryShared(c) BY <2>3, TrySharedEffect, Stutter
    <2>4. CASE TrySharedCas(c)
      BY <2>4, TrySharedCasEffect, AcquireStep, Stutter DEF Modes
    <2>5. CASE Unlock(c) BY <2>5, UnlockEffect, Stutter
    <2>6. CASE UnlockCas(c) BY <2>6, UnlockCasEffect, ReleaseStep, Stutter
    <2>7. CASE Latch(c) BY <2>7, LatchEffect, ReleaseStep, Stutter
    <2>8. CASE Notify(c) BY <2>8, NotifyEffect, Stutter
    <2>9. CASE Trigger(c)
      <3>1. CASE SameGrants /\ SameQueue BY <3>1, Stutter
      <3>2. CASE /\ Gains(Head(waiters_).who, Head(waiters_).mode)
                 /\ Leaves(Head(waiters_).who)
                 /\ RW!First(Head(waiters_).who)
                 /\ Head(waiters_).mode = Wanted[Head(waiters_).who]
                 /\ RW!Free(Head(waiters_).mode)
        <4>1. Head(waiters_).who \in Coroutines /\ Head(waiters_).mode \in Modes
          BY <2>9, HeadWho DEF Trigger, JInv, IInv
        <4>2. RW!Serve(Head(waiters_).who)
          BY <3>2, <4>1, HeldChanges DEF RW!Serve, Leaves
        <4> QED BY <4>1, <4>2 DEF RW!Next, RW!ServeFirst
      <3> QED BY <2>9, <3>1, <3>2, TriggerEffect
    <2>10. CASE Grant(c) BY <2>10, GrantEffect, Stutter
    <2>11. CASE Decide(c)
      <3>1. mode[c] \in Modes BY DEF JInv, IInv, TypeOK
      <3>2. CASE Gains(c, mode[c]) /\ SameQueue /\ RW!Waiting = {} /\ RW!Free(mode[c])
        BY <3>1, <3>2, AcquireStep
      <3>3. CASE /\ SameGrants /\ Joins(c, mode[c]) /\ Held[c] = "none"
                 /\ Guarded = {} => RW!Waiting # {} \/ ~RW!Free(mode[c])
        <4>1. RW!Enqueue(c, mode[c])
          BY <3>1, <3>3, HeldChanges, WaitingFacts DEF Joins, RW!Enqueue
        <4> QED BY <3>1, <4>1 DEF RW!Next, RW!Modes, Modes
      <3> QED BY <2>11, <3>2, <3>3, DecideEffect
    <2>12. CASE Unlatch(c) BY <2>12, UnlatchEffect, Stutter
    <2>13. CASE Resume(c) BY <2>13, ResumeEffect, Stutter
    <2>14. CASE Cancel(c)
      <3>1. SameGrants /\ Leaves(c) BY <2>14, CancelEffect
      <3>2. CASE Waits(c)
        <4>1. RW!Withdraw(c)
          BY <3>1, <3>2, HeldChanges, WaitingFacts DEF RW!Withdraw, Leaves
        <4> QED BY <4>1 DEF RW!Next
      <3>3. CASE ~Waits(c) BY <3>1, <3>3, LeaveNobody, Stutter
      <3> QED BY <3>2, <3>3
    <2>15. CASE Check(c) BY <2>15, CheckEffect, ReleaseStep, Stutter
    <2> QED
      BY <1>2, <2>1, <2>2, <2>3, <2>4, <2>5, <2>6, <2>7, <2>8, <2>9, <2>10, <2>11, <2>12, <2>13,
         <2>14, <2>15 DEF Step, Call
  <1> QED BY <1>1, <1>2 DEF Next

\* The mutex, with its fast paths, its latched slow path and its abandoned
\* attempts, implements the readers-writer lock that serves requests strictly
\* in order of arrival, for any number of coroutines and threads: what
\* RefinesRWLock says of the steps.
THEOREM MutexImplementsRWLock == Spec => RW!Spec
  <1>1. Init => RW!Init
    BY DEF Init, RW!Init, Held, Wanted, Order, Granted, Waits, AskedBefore
  <1>2. ASSUME MutexAssumption, JInv, [Next]_vars PROVE [RW!Next]_(RW!vars)
    BY <1>2, NextRWNext
  <1> QED
    BY <1>1, <1>2, JInvariance, MutexAssumption, PTL DEF Spec, RW!Spec

=============================================================================
