--------------------------- MODULE FdCloseProofs ---------------------------
(***************************************************************************)
(* Closing file descriptors, for any number of threads, files, descriptor  *)
(* numbers and readiness events, when threads do not watch and close a     *)
(* descriptor at the same time (Serial).  They may copy, drop and close it *)
(* as they like.                                                           *)
(***************************************************************************)
EXTENDS FdClose, FiniteSetTheorems, SequenceTheorems, TLAPS

-----------------------------------------------------------------------------
(* What a thread is in the middle of. *)

Notices == [op : {"notify", "post"}, body : {None}, fd : Numbers, to : Drivers]

Tasks ==
    [op : {"watch"}, body : Bodies, fd : Numbers, to : Watches]
      \union [op : {"sub"}, body : Bodies, fd : {None}, to : Drivers]
      \union [op : {"close"}, body : Bodies, fd : {None}, to : Drivers \union {None}]

NoTask == Job("none", None, None, None)

\* What d has begun to do to a body.
Task(d) ==
    IF jobs[d] # << >> /\ Head(jobs[d]).op \in {"watch", "sub", "close"}
    THEN Head(jobs[d]) ELSE NoTask

\* It is dropping its copy of b.
Dropping(d, b) ==
    Task(d).body = b /\ (Task(d).op = "sub" \/ (Task(d).op = "close" /\ Task(d).to # None))

\* It is doing something with a copy that it keeps.
Using(d) == Task(d).op = "watch" \/ (Task(d).op = "close" /\ Task(d).to = None)

\* The references to b that ref_ counts: copies, and copies being dropped.
References(b) ==
    {t \in Drivers \X Nat : IF t[2] = 0 THEN Dropping(t[1], b) ELSE t[2] <= held[t[1]][b]}

-----------------------------------------------------------------------------
(* The inductive invariant, one conjunct per idea. *)

\* A thread does one thing to a body, or delivers notices.
JobInv ==
    \A d \in Drivers :
        \/ /\ jobs[d] \in Seq(Notices)
           /\ \A i \in DOMAIN jobs[d] : jobs[d][i].op = "notify" => jobs[d][i].to = d
        \/ \E j \in Tasks : jobs[d] = <<j>>

\* A body keeps its number until its last driver has let go of it.
BodyInv ==
    \A b \in Bodies :
        /\ body[b].life = "new" =>
             ~body[b].open /\ body[b].base = None /\ body[b].ref = 0
        /\ body[b].open => body[b].life = "live" /\ body[b].base # None
        /\ body[b].base # None => os[body[b].base] = b
        /\ body[b].base # None /\ ~body[b].open => body[b].drivers # {}
        /\ body[b].base = None => body[b].drivers = {}
        /\ body[b].life = "deleted" => body[b].base = None /\ body[b].ref = 0

\* A number names the body that has it, a record the body its driver listens to.
RecordInv ==
    /\ \A k \in Numbers : os[k] # None => body[os[k]].base = k
    /\ \A d \in Drivers, k \in Numbers :
          /\ fdrec[d][k].body = None => fdrec[d][k].watches = {} /\ fdctl[d][k] = {}
          /\ fdrec[d][k].body # None =>
               os[k] = fdrec[d][k].body /\ d \in body[fdrec[d][k].body].drivers
    /\ \A b \in Bodies : \A d \in body[b].drivers : fdrec[d][body[b].base].body = b

\* fdctl_ mirrors the kernel's registrations.
KernelInv ==
    \A d \in Drivers, k \in Numbers :
        /\ kernel[d][k] = None <=> fdctl[d][k] = {}
        /\ kernel[d][k] # None =>
             kernel[d][k].file = os[k] /\ kernel[d][k].epoch <= fdrec[d][k].epoch

\* What is begun can be finished.
TaskInv ==
    /\ \A d \in Drivers : Task(d).op = "watch" =>
          /\ body[Task(d).body].open /\ body[Task(d).body].base = Task(d).fd
          /\ watch[Task(d).to].st = "adding" /\ watch[Task(d).to].on = Task(d).body
    /\ \A d \in Drivers : Using(d) => held[d][Task(d).body] > 0
    /\ \A d, d2 \in Drivers : d # d2 =>
          /\ Task(d).op = "watch" /\ Task(d2).op = "watch" => Task(d).to # Task(d2).to
          /\ Task(d).op = "watch" /\ Task(d2).op = "close" => Task(d).body # Task(d2).body
    /\ \A d \in Drivers : Task(d).op = "close" /\ Task(d).to # None => body[Task(d).body].ref = 1

RefInv ==
    \A b \in Bodies :
        IsFiniteSet(References(b)) /\ body[b].ref = Cardinality(References(b))

\* The watches of a record that are pending wait for its body.
WatchInv ==
    \A d \in Drivers, k \in Numbers : \A w \in fdrec[d][k].watches :
        /\ watch[w].st \notin {"new", "adding"}
        /\ watch[w].st = "pending" => fdrec[d][k].body = watch[w].on

\* An event that passes for fresh is of the file that the record stands for.
EpochInv ==
    \A d \in Drivers : \A i \in DOMAIN batch[d] :
        LET ev == batch[d][i]
        IN  /\ ev.epoch <= fdrec[d][ev.fd].epoch
            /\ ev.epoch = fdrec[d][ev.fd].epoch => ev.file = fdrec[d][ev.fd].body

\* A driver with a closed body in a record has been told.
ToldInv ==
    \A d \in Drivers, k \in Numbers :
        fdrec[d][k].body # None /\ ~body[fdrec[d][k].body].open => Told(d, k)

IInv ==
    /\ TypeOK /\ JobInv /\ BodyInv /\ RecordInv /\ KernelInv /\ TaskInv /\ RefInv
    /\ WatchInv /\ EpochInv /\ ToldInv /\ ~failed

-----------------------------------------------------------------------------
(* What the threads are doing. *)

\* The first job is the one that Task tells of; a task is the only job.
LEMMA TaskFacts ==
    ASSUME FdAssumption, JobInv, NEW d \in Drivers
    PROVE  /\ Task(d) \in Tasks \union {NoTask}
           /\ NoTask \notin Tasks /\ NoTask.op = "none" /\ NoTask.body = None
           /\ jobs[d] = << >> => Task(d) = NoTask
           /\ Task(d) # NoTask => Task(d) \in Tasks /\ jobs[d] = <<Task(d)>>
           /\ Task(d) = NoTask => jobs[d] \in Seq(Notices)
                                  /\ \A i \in DOMAIN jobs[d] : jobs[d][i].op = "notify" => jobs[d][i].to = d
  <1>1. NoTask \notin Tasks /\ NoTask.op = "none" /\ NoTask.body = None
    BY DEF NoTask, Job, Tasks
  <1>2. CASE /\ jobs[d] \in Seq(Notices)
             /\ \A i \in DOMAIN jobs[d] : jobs[d][i].op = "notify" => jobs[d][i].to = d
    <2>1. jobs[d] # << >> => Head(jobs[d]) \in Notices BY <1>2, HeadTailProperties
    <2>2. Task(d) = NoTask BY <2>1 DEF Task, Notices
    <2> QED BY <1>1, <1>2, <2>2
  <1>3. CASE \E j \in Tasks : jobs[d] = <<j>>
    <2>1. PICK j \in Tasks : jobs[d] = <<j>> BY <1>3
    <2>2. jobs[d] # << >> /\ Head(jobs[d]) = j BY <2>1
    <2>3. Task(d) = j BY <2>2 DEF Task, Tasks
    <2> QED BY <1>1, <2>1, <2>2, <2>3
  <1> QED BY <1>2, <1>3 DEF JobInv

\* What a thread that has begun an operation has before it.
LEMMA BegunFacts ==
    ASSUME FdAssumption, JobInv, NEW d \in Drivers
    PROVE  /\ \A o \in {"watch", "sub", "close"} : Begun(d, o) =>
                Task(d).op = o /\ Task(d) = Head(jobs[d]) /\ Task(d) \in Tasks /\ Tail(jobs[d]) = << >>
           /\ \A o \in {"notify", "post"} : Begun(d, o) =>
                /\ jobs[d] \in Seq(Notices) /\ jobs[d] # << >> /\ Task(d) = NoTask
                /\ Head(jobs[d]) \in Notices /\ Head(jobs[d]).op = o
                /\ Tail(jobs[d]) \in Seq(Notices)
                /\ o = "notify" => Head(jobs[d]).to = d
                /\ \A i \in DOMAIN Tail(jobs[d]) :
                      Tail(jobs[d])[i].op = "notify" => Tail(jobs[d])[i].to = d
  <1>1. ASSUME NEW o \in {"watch", "sub", "close"}, Begun(d, o)
        PROVE  Task(d).op = o /\ Task(d) = Head(jobs[d]) /\ Task(d) \in Tasks /\ Tail(jobs[d]) = << >>
    <2>1. Task(d) = Head(jobs[d]) /\ Task(d).op = o BY <1>1 DEF Begun, Task
    <2>2. Task(d) \in Tasks /\ jobs[d] = <<Task(d)>> BY <1>1, <2>1, TaskFacts
    <2> QED BY <2>1, <2>2
  <1>2. ASSUME NEW o \in {"notify", "post"}, Begun(d, o)
        PROVE  /\ jobs[d] \in Seq(Notices) /\ jobs[d] # << >> /\ Task(d) = NoTask
               /\ Head(jobs[d]) \in Notices /\ Head(jobs[d]).op = o
               /\ Tail(jobs[d]) \in Seq(Notices)
               /\ o = "notify" => Head(jobs[d]).to = d
               /\ \A i \in DOMAIN Tail(jobs[d]) :
                     Tail(jobs[d])[i].op = "notify" => Tail(jobs[d])[i].to = d
    <2>1. Task(d) = NoTask /\ jobs[d] # << >> /\ Head(jobs[d]).op = o BY <1>2 DEF Begun, Task
    <2>2. jobs[d] \in Seq(Notices) /\ \A i \in DOMAIN jobs[d] : jobs[d][i].op = "notify" => jobs[d][i].to = d
      BY <2>1, TaskFacts
    <2> QED BY <2>1, <2>2, HeadTailProperties, LenProperties
  <1> QED BY <1>1, <1>2

\* The task after a step.
LEMMA TaskAfter ==
    ASSUME NEW d \in Drivers
    PROVE  /\ jobs'[d] = jobs[d] => Task(d)' = Task(d)
           /\ \A j \in Tasks : jobs'[d] = <<j>> => Task(d)' = j
           /\ jobs'[d] \in Seq(Notices) => Task(d)' = NoTask
  <1>1. jobs'[d] = jobs[d] => Task(d)' = Task(d) BY DEF Task
  <1>2. ASSUME NEW j \in Tasks, jobs'[d] = <<j>> PROVE Task(d)' = j
    <2>1. jobs'[d] # << >> /\ Head(jobs'[d]) = j BY <1>2
    <2> QED BY <2>1 DEF Task, Tasks
  <1>3. ASSUME jobs'[d] \in Seq(Notices) PROVE Task(d)' = NoTask
    <2>1. jobs'[d] # << >> => Head(jobs'[d]) \in Notices BY <1>3, HeadTailProperties
    <2> QED BY <2>1 DEF Task, Notices
  <1> QED BY <1>1, <1>2, <1>3

\* The condition of Serial, in terms of tasks.
LEMMA AloneFacts ==
    ASSUME FdAssumption, Serial, JobInv, NEW d \in Drivers, NEW b \in Bodies, NEW ops,
           Alone(d, b, ops)
    PROVE  \A d2 \in Drivers \ {d} : Task(d2).body = b => Task(d2).op \notin ops
  <1> SUFFICES ASSUME NEW d2 \in Drivers \ {d}, Task(d2).body = b
               PROVE  Task(d2).op \notin ops
    OBVIOUS
  <1>1. jobs[d2] = <<Task(d2)>> BY TaskFacts DEF FdAssumption
  <1>2. 1 \in DOMAIN jobs[d2] /\ jobs[d2][1] = Task(d2) BY <1>1
  <1> QED BY <1>2 DEF Alone

-----------------------------------------------------------------------------
(* Counting references. *)

\* Which pairs are references.
LEMMA ReferencesIn ==
    ASSUME NEW b, NEW e \in Drivers, NEW n \in Nat
    PROVE  /\ <<e, n>> \in References(b) <=> IF n = 0 THEN Dropping(e, b) ELSE n <= held[e][b]
           /\ <<e, n>> \in References(b)' <=> IF n = 0 THEN Dropping(e, b)' ELSE n <= held'[e][b]
  BY DEF References

\* What the count says of the references.
LEMMA RefFacts ==
    ASSUME TypeOK, RefInv, NEW b \in Bodies
    PROVE  /\ body[b].ref = 0 <=> References(b) = {}
           /\ body[b].ref = 1 => \A x, y \in References(b) : x = y
           /\ \A e \in Drivers : held[e][b] \in Nat
           /\ \A e \in Drivers : held[e][b] > 0 => <<e, held[e][b]>> \in References(b)
           /\ \A e \in Drivers : Dropping(e, b) => <<e, 0>> \in References(b)
  <1>1. IsFiniteSet(References(b)) /\ body[b].ref = Cardinality(References(b)) BY DEF RefInv
  <1>2. ASSUME body[b].ref = 1 PROVE \A x, y \in References(b) : x = y
    <2>1. PICK z : References(b) = {z} BY <1>1, <1>2, FS_Singleton
    <2> QED BY <2>1
  <1>3. body[b].ref = 0 <=> References(b) = {} BY <1>1, FS_EmptySet
  <1>4. \A e \in Drivers : held[e][b] \in Nat BY DEF TypeOK
  <1>5. \A e \in Drivers : held[e][b] > 0 => <<e, held[e][b]>> \in References(b)
    BY <1>4, ReferencesIn
  <1>6. \A e \in Drivers : Dropping(e, b) => <<e, 0>> \in References(b)
    BY ReferencesIn
  <1> QED BY <1>2, <1>3, <1>4, <1>5, <1>6

\* A thread that holds a copy while another drops one, or two that drop one each.
LEMMA TwoReferences ==
    ASSUME TypeOK, RefInv, NEW b \in Bodies, NEW d \in Drivers, Dropping(d, b), NEW e \in Drivers,
           held[e][b] > 0 \/ (Dropping(e, b) /\ e # d)
    PROVE  body[b].ref # 1 /\ body[b].ref # 0
  <1>1. <<d, 0>> \in References(b) BY RefFacts
  <1>2. \E x \in References(b) : x # <<d, 0>>
    <2>1. CASE held[e][b] > 0
      <3>1. <<e, held[e][b]>> \in References(b) /\ held[e][b] # 0 BY <2>1, RefFacts
      <3> QED BY <3>1
    <2>2. CASE Dropping(e, b) /\ e # d
      <3>1. <<e, 0>> \in References(b) BY <2>2, RefFacts
      <3> QED BY <2>2, <3>1
    <2> QED BY <2>1, <2>2
  <1> QED BY <1>1, <1>2, RefFacts

\* A step that touches no reference.
LEMMA RefKeep ==
    ASSUME RefInv, NEW b \in Bodies, body'[b].ref = body[b].ref,
           \A e \in Drivers : held'[e][b] = held[e][b] /\ (Dropping(e, b)' <=> Dropping(e, b))
    PROVE  IsFiniteSet(References(b)') /\ body'[b].ref = Cardinality(References(b)')
  <1>1. References(b)' = References(b) BY DEF References
  <1> QED BY <1>1 DEF RefInv

\* One reference more, or one less.
LEMMA RefOneMore ==
    ASSUME RefInv, NEW b \in Bodies, NEW t, t \notin References(b),
           References(b)' = References(b) \union {t}, body'[b].ref = body[b].ref + 1
    PROVE  IsFiniteSet(References(b)') /\ body'[b].ref = Cardinality(References(b)')
  <1>1. IsFiniteSet(References(b)) /\ body[b].ref = Cardinality(References(b)) BY DEF RefInv
  <1> QED BY <1>1, FS_AddElement

LEMMA RefOneLess ==
    ASSUME RefInv, NEW b \in Bodies, NEW t \in References(b),
           References(b)' = References(b) \ {t}, body'[b].ref = body[b].ref - 1
    PROVE  IsFiniteSet(References(b)') /\ body'[b].ref = Cardinality(References(b)')
  <1>1. IsFiniteSet(References(b)) /\ body[b].ref = Cardinality(References(b)) BY DEF RefInv
  <1> QED BY <1>1, FS_RemoveElement

\* A copy turns into the reference of a thread that is dropping it.
LEMMA RefExchange ==
    ASSUME RefInv, NEW b \in Bodies, NEW t \in References(b), NEW u, u \notin References(b),
           References(b)' = (References(b) \ {t}) \union {u}, body'[b].ref = body[b].ref
    PROVE  IsFiniteSet(References(b)') /\ body'[b].ref = Cardinality(References(b)')
  <1>1. IsFiniteSet(References(b)) /\ body[b].ref = Cardinality(References(b)) BY DEF RefInv
  <1>2. /\ IsFiniteSet(References(b) \ {t}) /\ u \notin References(b) \ {t}
        /\ Cardinality(References(b) \ {t}) = Cardinality(References(b)) - 1
        /\ Cardinality(References(b)) \in Nat
    BY <1>1, FS_RemoveElement, FS_CardinalityType
  <1>3. /\ IsFiniteSet((References(b) \ {t}) \union {u})
        /\ Cardinality((References(b) \ {t}) \union {u}) = Cardinality(References(b) \ {t}) + 1
    BY <1>2, FS_AddElement
  <1> QED BY <1>1, <1>2, <1>3

-----------------------------------------------------------------------------
(* Every action preserves the invariant. *)

\* The type of the job list.
LEMMA JobsType ==
    ASSUME FdAssumption
    PROVE  /\ \A j \in Tasks : <<j>> \in Seq(Jobs)
           /\ \A s \in Seq(Notices) : s \in Seq(Jobs)
  <1>1. Notices \subseteq Jobs BY DEF Notices, Jobs
  <1>2. Tasks \subseteq Jobs BY DEF Tasks, Jobs
  <1> QED BY <1>1, <1>2

\* The types of what the actions look at.
LEMMA FieldTypes ==
    ASSUME TypeOK, NEW d \in Drivers, NEW k \in Numbers
    PROVE  /\ fdrec[d][k].body \in Bodies \union {None} /\ fdrec[d][k].epoch \in Nat
           /\ fdrec[d][k].watches \in SUBSET Watches
           /\ kernel[d][k] # None =>
                 kernel[d][k].file \in Bodies /\ kernel[d][k].epoch \in Nat /\ kernel[d][k].mask \in Masks
           /\ fdctl[d][k] \in SUBSET Kinds /\ os[k] \in Bodies \union {None}
  BY DEF TypeOK, Registrations, FdRecords

\* A step that delivers no notice keeps all that are on their way.
LEMMA ToldKeep ==
    ASSUME FdAssumption, JobInv, UNCHANGED migrate,
           \A e \in Drivers : jobs'[e] = jobs[e] \/ jobs[e] = << >> \/ Task(e) # NoTask
    PROVE  \A e \in Drivers, k \in Numbers : Told(e, k) => Told(e, k)'
  <1> SUFFICES ASSUME NEW e \in Drivers, NEW k \in Numbers, NEW d \in Drivers,
                      NEW i \in DOMAIN jobs[d],
                      jobs[d][i].op \in {"notify", "post"}, jobs[d][i].fd = k, jobs[d][i].to = e
               PROVE  Told(e, k)'
    BY DEF Told
  <1>1. jobs[d] # << >> OBVIOUS
  <1>2. Task(d) = NoTask
    <2> SUFFICES ASSUME Task(d) # NoTask PROVE FALSE OBVIOUS
    <2>1. Task(d) \in Tasks /\ jobs[d] = <<Task(d)>> BY TaskFacts
    <2>2. jobs[d][i] = Task(d) BY <2>1
    <2> QED BY <2>1, <2>2 DEF Tasks
  <1>3. jobs'[d] = jobs[d] BY <1>1, <1>2
  <1> QED BY <1>3 DEF Told

\* fd(fileno): a file under a free number.
LEMMA OpenInv ==
    ASSUME FdAssumption, IInv, NEW d \in Drivers, NEW b \in Bodies, NEW k \in Numbers, Open(d, b, k)
    PROVE  IInv'
  <1> USE DEF IInv
  <1>0. /\ jobs[d] = << >> /\ body[b].life = "new" /\ os[k] = None
        /\ os' = [os EXCEPT ![k] = b]
        /\ body' = [body EXCEPT ![b] = [open |-> TRUE, base |-> k, ref |-> 1,
                                        drivers |-> {}, life |-> "live"]]
        /\ held' = [held EXCEPT ![d][b] = 1]
        /\ UNCHANGED <<fdrec, dirty, fdctl, kernel, batch, migrate, jobs, watch, failed>>
    BY DEF Open, Idle, kset, thread
  <1>a. \A e \in Drivers : Task(e)' = Task(e) BY <1>0, TaskAfter
  <1>b. None \notin Bodies /\ None \notin Numbers BY DEF FdAssumption
  <1>c. body[b].ref = 0 /\ ~body[b].open /\ body[b].base = None /\ References(b) = {}
    BY <1>0, RefFacts DEF BodyInv
  <1>d. \A e \in Drivers, c \in Bodies : Dropping(e, c)' <=> Dropping(e, c)
    BY <1>a DEF Dropping
  <1>1. TypeOK'
    <2>1. body' \in [Bodies -> BodyRecords] BY <1>0 DEF TypeOK, BodyRecords
    <2> QED BY <1>0, <2>1 DEF TypeOK
  <1>2. JobInv' BY <1>0 DEF JobInv
  <1>3. BodyInv' BY <1>0, <1>b DEF BodyInv, TypeOK, RecordInv
  <1>4. RecordInv'
    <2>1. \A e \in Drivers : fdrec[e][k].body = None BY <1>0, <1>b DEF RecordInv, TypeOK
    <2> QED BY <1>0, <1>b, <1>c, <2>1 DEF RecordInv, TypeOK, BodyInv
  <1>5. KernelInv'
    <2>1. \A e \in Drivers : kernel[e][k] = None BY <1>0, <1>b, FieldTypes DEF KernelInv
    <2> QED BY <1>0, <2>1 DEF KernelInv, TypeOK
  <1>6. TaskInv'
    <2>1. \A e \in Drivers : ~Dropping(e, b) BY <1>c, RefFacts
    <2>2. \A e \in Drivers : Task(e).op = "watch" => Task(e).body # b BY <1>c DEF TaskInv
    <2>3. \A e \in Drivers : Task(e).op \in {"watch", "sub", "close"} => Task(e).body \in Bodies
      BY TaskFacts DEF Tasks
    <2>4. \A e \in Drivers : Task(e).op = "sub" \/ (Task(e).op = "close" /\ Task(e).to # None)
                                => Task(e).body # b
      BY <2>1 DEF Dropping
    <2>5. \A c \in Bodies \ {b} : body'[c] = body[c] BY <1>0 DEF TypeOK
    <2>6. \A e \in Drivers : Using(e)' => held'[e][Task(e)'.body] > 0
      <3>1. \A e \in Drivers, c \in Bodies :
               held'[e][c] = IF e = d /\ c = b THEN 1 ELSE held[e][c]
        BY <1>0 DEF TypeOK
      <3>2. \A e \in Drivers, c \in Bodies : held[e][c] > 0 => held'[e][c] > 0
        BY <3>1, SMT
      <3> QED BY <1>a, <2>3, <3>2 DEF TaskInv, Using
    <2> QED BY <1>0, <1>a, <2>2, <2>3, <2>4, <2>5, <2>6 DEF TaskInv
  <1>7. RefInv'
    <2>1. ASSUME NEW c \in Bodies \ {b}
          PROVE  IsFiniteSet(References(c)') /\ body'[c].ref = Cardinality(References(c)')
      BY <1>0, <1>d, RefKeep DEF TypeOK
    <2>2. \A e \in Drivers : held[e][b] = 0 /\ ~Dropping(e, b)
      <3>1. \A e \in Drivers : held[e][b] \in Nat /\ ~(held[e][b] > 0) /\ ~Dropping(e, b)
        BY <1>c, RefFacts
      <3> QED BY <3>1
    <2>3. References(b)' = References(b) \union {<<d, 1>>}
      <3>1. \A e \in Drivers, n \in Nat : <<e, n>> \in References(b)' <=> e = d /\ n = 1
        <4> TAKE e \in Drivers, n \in Nat
        <4>1. ~Dropping(e, b)' BY <1>d, <2>2
        <4>2. held'[e][b] = IF e = d THEN 1 ELSE 0 BY <1>0, <2>2 DEF TypeOK
        <4> QED BY <4>1, <4>2, ReferencesIn
      <3> QED BY <1>c, <3>1 DEF References
    <2>4. body'[b].ref = body[b].ref + 1 BY <1>0, <1>c DEF TypeOK
    <2>5. IsFiniteSet(References(b)') /\ body'[b].ref = Cardinality(References(b)')
      <3>1. <<d, 1>> \notin References(b) BY <1>c
      <3> QED BY <2>3, <2>4, <3>1, RefOneMore
    <2> QED BY <2>1, <2>5 DEF RefInv
  <1>8. WatchInv' BY <1>0 DEF WatchInv
  <1>9. EpochInv' BY <1>0 DEF EpochInv
  <1>10. ToldInv'
    <2>1. \A e \in Drivers, l \in Numbers : Told(e, l)' <=> Told(e, l) BY <1>0 DEF Told
    <2>2. \A c \in Bodies : ~body'[c].open => ~body[c].open BY <1>0 DEF TypeOK
    <2> QED BY <1>0, <2>1, <2>2 DEF ToldInv, TypeOK
  <1> QED BY <1>0, <1>1, <1>2, <1>3, <1>4, <1>5, <1>6, <1>7, <1>8, <1>9, <1>10

\* fd(const fd&).
LEMMA CopyInv ==
    ASSUME FdAssumption, IInv, NEW d \in Drivers, NEW b \in Bodies, NEW d2 \in Drivers, Copy(d, b, d2)
    PROVE  IInv'
  <1> USE DEF IInv
  <1>0. /\ held[d][b] > 0
        /\ body' = [body EXCEPT ![b].ref = @ + 1]
        /\ held' = [held EXCEPT ![d2][b] = @ + 1]
        /\ UNCHANGED <<os, fdrec, dirty, fdctl, kernel, batch, migrate, jobs, watch, failed>>
    BY DEF Copy, Holds, kset, thread
  <1>a. \A e \in Drivers : Task(e)' = Task(e) BY <1>0, TaskAfter
  <1>b. \A e \in Drivers, c \in Bodies : Dropping(e, c)' <=> Dropping(e, c) BY <1>a DEF Dropping
  <1>c. body[b].ref \in Nat /\ body[b].ref # 0 /\ \A e \in Drivers : Dropping(e, b) => body[b].ref # 1
    <2>1. <<d, held[d][b]>> \in References(b) BY <1>0, RefFacts
    <2>2. body[b].ref \in Nat /\ body[b].ref # 0 BY <2>1, RefFacts DEF TypeOK, BodyRecords
    <2>3. \A e \in Drivers : Dropping(e, b) => body[b].ref # 1 BY <1>0, TwoReferences
    <2> QED BY <2>2, <2>3
  <1>d. \A c \in Bodies :
           /\ c # b => body'[c] = body[c]
           /\ body'[c].open = body[c].open /\ body'[c].base = body[c].base
           /\ body'[c].drivers = body[c].drivers /\ body'[c].life = body[c].life
           /\ body'[b].ref = body[b].ref + 1
    BY <1>0, SMTT(30) DEF TypeOK, BodyRecords
  <1>1. TypeOK'
    <2>1. body' \in [Bodies -> BodyRecords]
      <3>1. body[b] \in BodyRecords /\ body \in [Bodies -> BodyRecords] BY DEF TypeOK
      <3>2. [body[b] EXCEPT !.ref = @ + 1] \in BodyRecords BY <3>1 DEF BodyRecords
      <3>3. body' = [body EXCEPT ![b] = [body[b] EXCEPT !.ref = @ + 1]] BY <1>0
      <3> QED BY <3>1, <3>2, <3>3
    <2>2. held' \in [Drivers -> [Bodies -> Nat]] BY <1>0 DEF TypeOK
    <2> QED BY <1>0, <2>1, <2>2 DEF TypeOK
  <1>2. JobInv' BY <1>0 DEF JobInv
  <1>3. BodyInv' BY <1>0, <1>c, <1>d DEF BodyInv
  <1>4. RecordInv' BY <1>0, <1>d, FieldTypes DEF RecordInv
  <1>5. KernelInv' BY <1>0 DEF KernelInv
  <1>6. TaskInv'
    <2>1. \A e \in Drivers : Task(e).op \in {"watch", "sub", "close"} => Task(e).body \in Bodies
      BY TaskFacts DEF Tasks
    <2>2. \A e \in Drivers : Task(e).op = "close" /\ Task(e).to # None => Task(e).body # b
      BY <1>c DEF TaskInv, Dropping
    <2>3. \A e \in Drivers : Using(e)' => held'[e][Task(e)'.body] > 0
      <3>1. \A e \in Drivers, c \in Bodies :
               held'[e][c] = IF e = d2 /\ c = b THEN held[e][c] + 1 ELSE held[e][c]
        BY <1>0 DEF TypeOK
      <3>2. \A e \in Drivers, c \in Bodies : held[e][c] > 0 => held'[e][c] > 0
        <4> TAKE e \in Drivers, c \in Bodies
        <4>1. held[e][c] \in Nat BY DEF TypeOK
        <4> QED BY <3>1, <4>1
      <3> QED BY <1>a, <2>1, <3>2 DEF TaskInv, Using
    <2> QED BY <1>0, <1>a, <1>c, <1>d, <2>1, <2>2, <2>3 DEF TaskInv
  <1>7. RefInv'
    <2>1. ASSUME NEW c \in Bodies \ {b}
          PROVE  IsFiniteSet(References(c)') /\ body'[c].ref = Cardinality(References(c)')
      BY <1>0, <1>b, RefKeep DEF TypeOK
    <2>2. held[d2][b] \in Nat /\ held[d2][b] + 1 # 0 BY DEF TypeOK
    <2>3. References(b)' = References(b) \union {<<d2, held[d2][b] + 1>>}
      <3>1. \A e \in Drivers, n \in Nat :
               <<e, n>> \in References(b)' <=>
                  <<e, n>> \in References(b) \/ (e = d2 /\ n = held[d2][b] + 1)
        <4> TAKE e \in Drivers, n \in Nat
        <4>1. held'[e][b] = IF e = d2 THEN held[e][b] + 1 ELSE held[e][b] BY <1>0 DEF TypeOK
        <4>2. held[e][b] \in Nat BY DEF TypeOK
        <4>3. Dropping(e, b)' <=> Dropping(e, b) BY <1>b
        <4> QED BY <4>1, <4>2, <4>3, ReferencesIn
      <3>2. <<d2, held[d2][b] + 1>> \in Drivers \X Nat BY <2>2
      <3> QED BY <3>1, <3>2 DEF References
    <2>4. <<d2, held[d2][b] + 1>> \notin References(b) BY <2>2, ReferencesIn
    <2>5. IsFiniteSet(References(b)') /\ body'[b].ref = Cardinality(References(b)')
      BY <1>d, <2>3, <2>4, RefOneMore
    <2> QED BY <2>1, <2>5 DEF RefInv
  <1>8. WatchInv' BY <1>0 DEF WatchInv
  <1>9. EpochInv' BY <1>0 DEF EpochInv
  <1>10. ToldInv'
    <2>1. \A e \in Drivers, l \in Numbers : Told(e, l)' <=> Told(e, l) BY <1>0 DEF Told
    <2> QED BY <1>0, <1>d, <2>1, FieldTypes DEF ToldInv
  <1> QED BY <1>0, <1>1, <1>2, <1>3, <1>4, <1>5, <1>6, <1>7, <1>8, <1>9, <1>10

\* A thread begins something on a body: the rest of the state stays, but for one
\* watch perhaps.
LEMMA BeginFrame ==
    ASSUME FdAssumption, IInv, NEW d \in Drivers, jobs[d] = << >>,
           NEW j \in Tasks, jobs' = [jobs EXCEPT ![d] = <<j>>],
           UNCHANGED <<os, body, fdrec, dirty, fdctl, kernel, batch, migrate, failed>>
    PROVE  /\ Task(d) = NoTask /\ Task(d)' = j /\ \A e \in Drivers \ {d} : Task(e)' = Task(e)
           /\ JobInv' /\ BodyInv' /\ RecordInv' /\ KernelInv' /\ EpochInv' /\ ToldInv'
           /\ jobs' \in [Drivers -> Seq(Jobs)]
  <1> USE DEF IInv
  <1>1. jobs'[d] = <<j>> /\ \A e \in Drivers \ {d} : jobs'[e] = jobs[e] BY DEF TypeOK
  <1>2. Task(d) = NoTask /\ Task(d)' = j /\ \A e \in Drivers \ {d} : Task(e)' = Task(e)
    BY <1>1, TaskFacts, TaskAfter
  <1>3. JobInv' BY <1>1 DEF JobInv
  <1>4. BodyInv' /\ RecordInv' /\ KernelInv' BY DEF BodyInv, RecordInv, KernelInv
  <1>5. EpochInv' BY DEF EpochInv
  <1>6. ToldInv' BY <1>1, ToldKeep DEF ToldInv
  <1>7. jobs' \in [Drivers -> Seq(Jobs)]
    BY <1>1, JobsType DEF TypeOK
  <1> QED BY <1>2, <1>3, <1>4, <1>5, <1>6, <1>7

\* driver::file_event loads the number of an open fd.
LEMMA WatchBeginInv ==
    ASSUME FdAssumption, Serial, IInv, NEW d \in Drivers, NEW b \in Bodies, NEW w \in Watches,
           NEW m \in Masks, Watch(d, b, w, m)
    PROVE  IInv'
  <1> USE DEF IInv
  <1> DEFINE j == Job("watch", b, body[b].base, w)
  <1>0. /\ jobs[d] = << >> /\ held[d][b] > 0 /\ body[b].open /\ watch[w].st = "new"
        /\ Alone(d, b, {"close"})
        /\ watch' = [watch EXCEPT ![w] = [st |-> "adding", on |-> b, mask |-> m]]
        /\ jobs' = [jobs EXCEPT ![d] = <<j>>]
        /\ UNCHANGED <<os, body, held, fdrec, dirty, fdctl, kernel, batch, migrate, failed>>
    BY DEF Watch, Holds, Idle, kset
  <1>a. j \in Tasks /\ j.op = "watch" /\ j.body = b /\ j.fd = body[b].base /\ j.to = w
    BY <1>0 DEF BodyInv, TypeOK, BodyRecords, Tasks, Job
  <1> HIDE DEF j
  <1>b. /\ Task(d) = NoTask /\ Task(d)' = j /\ \A e \in Drivers \ {d} : Task(e)' = Task(e)
        /\ JobInv' /\ BodyInv' /\ RecordInv' /\ KernelInv' /\ EpochInv' /\ ToldInv'
        /\ jobs' \in [Drivers -> Seq(Jobs)]
    BY <1>0, <1>a, BeginFrame
  <1>1. TypeOK'
    <2>1. watch' \in [Watches -> WatchRecords] BY <1>0 DEF TypeOK, WatchRecords, Masks
    <2> QED BY <1>0, <1>b, <2>1 DEF TypeOK
  <1>2. RefInv'
    <2>1. \A e \in Drivers, c \in Bodies : Dropping(e, c)' <=> Dropping(e, c)
      BY <1>a, <1>b, TaskFacts DEF Dropping
    <2> QED BY <1>0, <2>1, RefKeep DEF RefInv
  <1>3. TaskInv'
    <2>1. \A e \in Drivers \ {d} : Task(e).body = b => Task(e).op # "close"
      BY <1>0, AloneFacts
    <2>2. \A e \in Drivers \ {d} : Task(e).op = "watch" => Task(e).to # w /\ Task(e).to \in Watches
      BY <1>0, TaskFacts DEF TaskInv, Tasks
    <2>3. watch'[w].st = "adding" /\ watch'[w].on = b
          /\ \A x \in Watches \ {w} : watch'[x] = watch[x]
      BY <1>0 DEF TypeOK
    <2>4. \A e \in Drivers : Using(e)' => held'[e][Task(e)'.body] > 0
      BY <1>0, <1>a, <1>b DEF TaskInv, Using
    <2> QED BY <1>0, <1>a, <1>b, <2>1, <2>2, <2>3, <2>4 DEF TaskInv
  <1>4. WatchInv'
    <2>1. \A x \in Watches \ {w} : watch'[x] = watch[x] BY <1>0 DEF TypeOK
    <2> QED BY <1>0, <2>1, FieldTypes DEF WatchInv
  <1> QED BY <1>0, <1>b, <1>1, <1>2, <1>3, <1>4

\* A coroutine forgets its watch.
LEMMA ForgetInv ==
    ASSUME FdAssumption, IInv, NEW w \in Watches, Forget(w)
    PROVE  IInv'
  <1> USE DEF IInv
  <1>0. /\ watch[w].st = "pending" /\ watch' = [watch EXCEPT ![w] = Done("dropped")]
        /\ UNCHANGED <<os, body, held, fdrec, dirty, fdctl, kernel, batch, migrate, jobs, failed>>
    BY DEF Forget, kset, thread
  <1>a. \A e \in Drivers : Task(e)' = Task(e) BY <1>0, TaskAfter
  <1>b. watch'[w].st = "dropped" /\ \A x \in Watches \ {w} : watch'[x] = watch[x]
    BY <1>0 DEF TypeOK, Done
  <1>1. TypeOK'
    <2>1. watch' \in [Watches -> WatchRecords] BY <1>0, SMTT(60) DEF TypeOK, WatchRecords, Done
    <2> QED BY <1>0, <2>1 DEF TypeOK
  <1>2. JobInv' /\ BodyInv' /\ RecordInv' /\ KernelInv' /\ EpochInv'
    BY <1>0 DEF JobInv, BodyInv, RecordInv, KernelInv, EpochInv
  <1>3. RefInv' BY <1>0, <1>a, RefKeep DEF RefInv, Dropping
  <1>4. TaskInv'
    <2>1. \A e \in Drivers : Task(e).op = "watch" => Task(e).to # w /\ Task(e).to \in Watches
      BY <1>0, TaskFacts DEF TaskInv, Tasks
    <2> QED BY <1>0, <1>a, <1>b, <2>1 DEF TaskInv, Using
  <1>5. WatchInv' BY <1>0, <1>b, FieldTypes DEF WatchInv
  <1>6. ToldInv' BY <1>0 DEF ToldInv, Told
  <1> QED BY <1>0, <1>1, <1>2, <1>3, <1>4, <1>5, <1>6

\* fd::close() begins.
LEMMA CloseInv ==
    ASSUME FdAssumption, Serial, IInv, NEW d \in Drivers, NEW b \in Bodies, Close(d, b)
    PROVE  IInv'
  <1> USE DEF IInv
  <1> DEFINE j == Job("close", b, None, None)
  <1>0. /\ jobs[d] = << >> /\ held[d][b] > 0 /\ Alone(d, b, {"watch"})
        /\ jobs' = [jobs EXCEPT ![d] = <<j>>]
        /\ UNCHANGED <<os, body, held, fdrec, dirty, fdctl, kernel, batch, migrate, watch, failed>>
    BY DEF Close, Holds, Idle, kset
  <1>a. j \in Tasks /\ j.op = "close" /\ j.body = b /\ j.to = None
    BY DEF Tasks, Job
  <1> HIDE DEF j
  <1>b. /\ Task(d) = NoTask /\ Task(d)' = j /\ \A e \in Drivers \ {d} : Task(e)' = Task(e)
        /\ JobInv' /\ BodyInv' /\ RecordInv' /\ KernelInv' /\ EpochInv' /\ ToldInv'
        /\ jobs' \in [Drivers -> Seq(Jobs)]
    BY <1>0, <1>a, BeginFrame
  <1>1. TypeOK' BY <1>0, <1>b DEF TypeOK
  <1>2. RefInv'
    <2>1. \A e \in Drivers, c \in Bodies : Dropping(e, c)' <=> Dropping(e, c)
      BY <1>a, <1>b, TaskFacts DEF Dropping
    <2> QED BY <1>0, <2>1, RefKeep DEF RefInv
  <1>3. TaskInv'
    <2>1. \A e \in Drivers \ {d} : Task(e).body = b => Task(e).op # "watch"
      BY <1>0, AloneFacts
    <2>2. \A e \in Drivers : Using(e)' => held'[e][Task(e)'.body] > 0
      BY <1>0, <1>a, <1>b DEF TaskInv, Using
    <2> QED BY <1>0, <1>a, <1>b, <2>1, <2>2 DEF TaskInv
  <1>4. WatchInv' BY <1>0 DEF WatchInv
  <1> QED BY <1>0, <1>b, <1>1, <1>2, <1>3, <1>4

\* ~fd() begins: the copy is gone, its reference is still counted.  If it was the
\* last, no other thread is using the body.
LEMMA DerefInv ==
    ASSUME FdAssumption, IInv, NEW d \in Drivers, NEW b \in Bodies, Deref(d, b)
    PROVE  IInv'
  <1> USE DEF IInv
  <1> DEFINE j == Job(IF body[b].ref = 1 THEN "close" ELSE "sub", b, None, d)
  <1>0. /\ jobs[d] = << >> /\ held[d][b] > 0
        /\ jobs' = [jobs EXCEPT ![d] = <<j>>]
        /\ held' = [held EXCEPT ![d][b] = @ - 1]
        /\ UNCHANGED <<os, body, fdrec, dirty, fdctl, kernel, batch, migrate, watch, failed>>
    BY DEF Deref, Holds, Idle, kset
  <1>a. /\ j \in Tasks /\ j.body = b /\ j.to = d /\ d # None
        /\ j.op = IF body[b].ref = 1 THEN "close" ELSE "sub"
    BY DEF Tasks, Job, FdAssumption
  <1> HIDE DEF j
  <1>b. /\ Task(d) = NoTask /\ Task(d)' = j /\ \A e \in Drivers \ {d} : Task(e)' = Task(e)
        /\ JobInv' /\ BodyInv' /\ RecordInv' /\ KernelInv' /\ EpochInv' /\ ToldInv'
        /\ jobs' \in [Drivers -> Seq(Jobs)]
    BY <1>0, <1>a, BeginFrame
  <1>c. held[d][b] \in Nat /\ held[d][b] - 1 \in Nat BY <1>0 DEF TypeOK
  <1>d. <<d, held[d][b]>> \in References(b) BY <1>0, RefFacts
  <1>e. body[b].ref \in Nat /\ body[b].ref # 0 BY <1>d, RefFacts DEF TypeOK, BodyRecords
  <1>1. TypeOK' BY <1>0, <1>b, <1>c DEF TypeOK
  <1>2. RefInv'
    <2>1. /\ Dropping(d, b)' /\ ~Dropping(d, b)
          /\ \A e \in Drivers, c \in Bodies : e # d \/ c # b => (Dropping(e, c)' <=> Dropping(e, c))
      BY <1>a, <1>b, TaskFacts DEF Dropping, FdAssumption
    <2>2. ASSUME NEW c \in Bodies \ {b}
          PROVE  IsFiniteSet(References(c)') /\ body'[c].ref = Cardinality(References(c)')
      BY <1>0, <2>1, RefKeep DEF TypeOK
    <2>3. References(b)' = (References(b) \ {<<d, held[d][b]>>}) \union {<<d, 0>>}
      <3>1. \A e \in Drivers, n \in Nat :
               <<e, n>> \in References(b)' <=>
                  (<<e, n>> \in References(b) /\ ~(e = d /\ n = held[d][b])) \/ (e = d /\ n = 0)
        <4> TAKE e \in Drivers, n \in Nat
        <4>1. held'[e][b] = IF e = d THEN held[e][b] - 1 ELSE held[e][b] BY <1>0 DEF TypeOK
        <4>2. held[e][b] \in Nat BY DEF TypeOK
        <4> QED BY <1>0, <2>1, <4>1, <4>2, ReferencesIn
      <3> QED BY <3>1 DEF References
    <2>4. <<d, 0>> \notin References(b) BY <2>1, ReferencesIn
    <2>5. IsFiniteSet(References(b)') /\ body'[b].ref = Cardinality(References(b)')
      BY <1>0, <1>d, <2>3, <2>4, RefExchange
    <2> QED BY <2>2, <2>5 DEF RefInv
  <1>3. TaskInv'
    <2>1. ASSUME body[b].ref = 1, NEW e \in Drivers \ {d}, Task(e).op = "watch"
          PROVE  Task(e).body # b
      <3> SUFFICES ASSUME Task(e).body = b PROVE FALSE OBVIOUS
      <3>1. held[e][b] > 0 BY <2>1 DEF TaskInv, Using
      <3>2. <<e, held[e][b]>> \in References(b) BY <3>1, RefFacts
      <3> QED BY <1>d, <2>1, <3>2, RefFacts
    <2>2. \A e \in Drivers : Using(e)' => held'[e][Task(e)'.body] > 0
      <3>1. \A e \in Drivers \ {d} : held'[e] = held[e] BY <1>0 DEF TypeOK
      <3> QED BY <1>a, <1>b, <3>1 DEF TaskInv, Using
    <2> QED BY <1>0, <1>a, <1>b, <1>e, <2>1, <2>2 DEF TaskInv
  <1>4. WatchInv' BY <1>0 DEF WatchInv
  <1> QED BY <1>0, <1>b, <1>1, <1>2, <1>3, <1>4

\* A thread is done with what it had begun, and may have notices to deliver.
LEMMA FinishFrame ==
    ASSUME FdAssumption, IInv, NEW d \in Drivers, Task(d) # NoTask,
           NEW s \in Seq(Notices), \A i \in DOMAIN s : s[i].op = "notify" => s[i].to = d,
           jobs' = [jobs EXCEPT ![d] = s], UNCHANGED migrate
    PROVE  /\ Task(d)' = NoTask /\ \A e \in Drivers \ {d} : Task(e)' = Task(e)
           /\ JobInv' /\ jobs' \in [Drivers -> Seq(Jobs)] /\ jobs'[d] = s
           /\ \A e \in Drivers, k \in Numbers : Told(e, k) => Told(e, k)'
  <1> USE DEF IInv
  <1>1. jobs'[d] = s /\ \A e \in Drivers \ {d} : jobs'[e] = jobs[e] BY DEF TypeOK
  <1>2. Task(d)' = NoTask /\ \A e \in Drivers \ {d} : Task(e)' = Task(e) BY <1>1, TaskAfter
  <1>3. JobInv' BY <1>1 DEF JobInv
  <1>4. jobs' \in [Drivers -> Seq(Jobs)] BY <1>1, JobsType DEF TypeOK
  <1>5. \A e \in Drivers, k \in Numbers : Told(e, k) => Told(e, k)' BY <1>1, ToldKeep
  <1> QED BY <1>1, <1>2, <1>3, <1>4, <1>5

\* What the threads are still in the middle of stays apart.
LEMMA TasksApart ==
    ASSUME TaskInv, NEW d \in Drivers, Task(d)' = NoTask,
           \A e \in Drivers \ {d} : Task(e)' = Task(e)
    PROVE  \A e, e2 \in Drivers : e # e2 =>
              /\ Task(e)'.op = "watch" /\ Task(e2)'.op = "watch" => Task(e)'.to # Task(e2)'.to
              /\ Task(e)'.op = "watch" /\ Task(e2)'.op = "close" => Task(e)'.body # Task(e2)'.body
  <1>1. NoTask.op = "none" BY DEF NoTask, Job
  <1>2. \A e \in Drivers : Task(e)'.op # "none" => Task(e)' = Task(e) BY <1>1
  <1> QED BY <1>2 DEF TaskInv

\* fd_event_set::watch: the record is free or holds this body already.
LEMMA WatchAddInv ==
    ASSUME FdAssumption, IInv, NEW d \in Drivers, WatchAdd(d)
    PROVE  IInv'
  <1> USE DEF IInv
  <1>0. PICK b \in Bodies, k \in Numbers, w \in Watches :
           /\ Task(d) # NoTask /\ Task(d).op = "watch" /\ Task(d).body = b
           /\ Task(d).fd = k /\ Task(d).to = w
           /\ failed' = (failed \/ fdrec[d][k].body \notin {None, b})
           /\ fdrec' = [fdrec EXCEPT ![d][k] = [body |-> b, epoch |-> fdrec[d][k].epoch,
                                                watches |-> fdrec[d][k].watches \union {w}]]
           /\ body' = [body EXCEPT ![b].drivers = @ \union {d}]
           /\ dirty' = [dirty EXCEPT ![d] = @ \union {k}]
           /\ watch' = [watch EXCEPT ![w].st = "pending"]
           /\ jobs' = [jobs EXCEPT ![d] = << >>]
           /\ UNCHANGED <<os, held, fdctl, kernel, batch, migrate>>
    <2>1. /\ Task(d).op = "watch" /\ Task(d) = Head(jobs[d]) /\ Task(d) \in Tasks
          /\ Tail(jobs[d]) = << >> /\ Task(d) # NoTask
      BY BegunFacts, TaskFacts DEF WatchAdd
    <2>2. Task(d).body \in Bodies /\ Task(d).fd \in Numbers /\ Task(d).to \in Watches
      BY <2>1 DEF Tasks
    <2> QED BY <2>1, <2>2, ZenonT(60) DEF WatchAdd
  <1>a. /\ Task(d)' = NoTask /\ \A e \in Drivers \ {d} : Task(e)' = Task(e)
        /\ JobInv' /\ jobs' \in [Drivers -> Seq(Jobs)]
        /\ \A e \in Drivers, l \in Numbers : Told(e, l) => Told(e, l)'
    <2>1. << >> \in Seq(Notices) /\ DOMAIN << >> = {} OBVIOUS
    <2> QED BY <1>0, <2>1, FinishFrame
  <1>b. None \notin Bodies /\ None \notin Numbers BY DEF FdAssumption
  <1>c. /\ body[b].open /\ body[b].base = k /\ os[k] = b
        /\ watch[w].st = "adding" /\ watch[w].on = b
    BY <1>0, <1>b DEF TaskInv, BodyInv
  <1>d. fdrec[d][k].body \in {None, b} BY <1>c DEF RecordInv
  <1>e. /\ body'[b].drivers = body[b].drivers \union {d}
        /\ \A c \in Bodies \ {b} : body'[c] = body[c]
        /\ \A c \in Bodies : /\ body'[c].open = body[c].open /\ body'[c].base = body[c].base
                             /\ body'[c].ref = body[c].ref /\ body'[c].life = body[c].life
    BY <1>0 DEF TypeOK, BodyRecords
  <1>f. /\ fdrec'[d][k].body = b /\ fdrec'[d][k].epoch = fdrec[d][k].epoch
        /\ fdrec'[d][k].watches = fdrec[d][k].watches \union {w}
        /\ \A e \in Drivers, l \in Numbers : e # d \/ l # k => fdrec'[e][l] = fdrec[e][l]
    BY <1>0 DEF TypeOK
  <1>g. /\ watch'[w].st = "pending" /\ watch'[w].on = b
        /\ \A x \in Watches \ {w} : watch'[x] = watch[x]
    BY <1>0, <1>c DEF TypeOK, WatchRecords
  <1>1. TypeOK'
    <2>1. body' \in [Bodies -> BodyRecords]
      <3>1. body[b] \in BodyRecords /\ body \in [Bodies -> BodyRecords] BY DEF TypeOK
      <3>2. [body[b] EXCEPT !.drivers = @ \union {d}] \in BodyRecords BY <3>1 DEF BodyRecords
      <3>3. body' = [body EXCEPT ![b] = [body[b] EXCEPT !.drivers = @ \union {d}]] BY <1>0
      <3> QED BY <3>1, <3>2, <3>3
    <2>2. fdrec' \in [Drivers -> [Numbers -> FdRecords]]
      <3>1. [body |-> b, epoch |-> fdrec[d][k].epoch, watches |-> fdrec[d][k].watches \union {w}]
               \in FdRecords
        BY FieldTypes DEF FdRecords
      <3> QED BY <1>0, <3>1 DEF TypeOK
    <2>3. watch' \in [Watches -> WatchRecords]
      <3>1. watch[w] \in WatchRecords /\ watch \in [Watches -> WatchRecords] BY DEF TypeOK
      <3>2. [watch[w] EXCEPT !.st = "pending"] \in WatchRecords BY <3>1 DEF WatchRecords
      <3> QED BY <1>0, <3>1, <3>2
    <2>4. dirty' \in [Drivers -> SUBSET Numbers] BY <1>0 DEF TypeOK
    <2> QED BY <1>0, <1>a, <2>1, <2>2, <2>3, <2>4 DEF TypeOK
  <1>2. BodyInv' BY <1>0, <1>b, <1>c, <1>e DEF BodyInv
  <1>3. RecordInv'
    <2>1. \A l \in Numbers : os'[l] # None => body'[os'[l]].base = l
      BY <1>0, <1>e, FieldTypes, SMTT(60) DEF RecordInv
    <2>2. \A e \in Drivers, l \in Numbers :
             /\ fdrec'[e][l].body = None => fdrec'[e][l].watches = {} /\ fdctl'[e][l] = {}
             /\ fdrec'[e][l].body # None =>
                  os'[l] = fdrec'[e][l].body /\ e \in body'[fdrec'[e][l].body].drivers
      BY <1>0, <1>b, <1>c, <1>e, <1>f, FieldTypes DEF RecordInv
    <2>3. \A c \in Bodies : \A e \in body'[c].drivers : fdrec'[e][body'[c].base].body = c
      <3> TAKE c \in Bodies
      <3> TAKE e \in body'[c].drivers
      <3>1. CASE c = b /\ e = d BY <1>c, <1>e, <1>f, <3>1
      <3>2. CASE ~(c = b /\ e = d)
        <4>1. e \in body[c].drivers /\ e \in Drivers BY <1>e, <3>2 DEF TypeOK, BodyRecords
        <4>2. fdrec[e][body[c].base].body = c BY <4>1 DEF RecordInv
        <4>3. body[c].base \in Numbers BY <4>1 DEF BodyInv, TypeOK, BodyRecords
        <4>4. e # d \/ body[c].base # k BY <1>b, <1>c, <1>d, <3>2, <4>2, <4>3 DEF BodyInv
        <4> QED BY <1>e, <1>f, <4>1, <4>2, <4>3, <4>4
      <3> QED BY <3>1, <3>2
    <2> QED BY <2>1, <2>2, <2>3 DEF RecordInv
  <1>4. KernelInv' BY <1>0, <1>f DEF KernelInv
  <1>5. TaskInv'
    <2>1. \A e \in Drivers \ {d} : Task(e).op = "watch" => Task(e).to # w /\ Task(e).to \in Watches
      BY <1>0, TaskFacts DEF TaskInv, Tasks
    <2>2. \A e \in Drivers : Task(e).op \in {"watch", "sub", "close"} => Task(e).body \in Bodies
      BY TaskFacts DEF Tasks
    <2>3. NoTask.op = "none" BY DEF NoTask, Job
    <2>4. \A e \in Drivers : Task(e)'.op = "watch" =>
             /\ body'[Task(e)'.body].open /\ body'[Task(e)'.body].base = Task(e)'.fd
             /\ watch'[Task(e)'.to].st = "adding" /\ watch'[Task(e)'.to].on = Task(e)'.body
      <3> TAKE e \in Drivers
      <3>1. CASE e = d BY <1>a, <2>3, <3>1
      <3>2. CASE e # d
        <4>1. Task(e)' = Task(e) BY <1>a, <3>2
        <4>2. Task(e).op = "watch" => watch'[Task(e).to] = watch[Task(e).to] BY <1>g, <2>1, <3>2
        <4> QED BY <1>e, <2>2, <4>1, <4>2 DEF TaskInv
      <3> QED BY <3>1, <3>2
    <2>5. \A e \in Drivers : /\ Using(e)' => held'[e][Task(e)'.body] > 0
                             /\ Task(e)'.op = "close" /\ Task(e)'.to # None => body'[Task(e)'.body].ref = 1
      <3> TAKE e \in Drivers
      <3>1. CASE e = d BY <1>a, <2>3, <3>1 DEF Using
      <3>2. CASE e # d
        <4>1. Task(e)' = Task(e) BY <1>a, <3>2
        <4> QED BY <1>0, <1>e, <2>2, <4>1 DEF TaskInv, Using
      <3> QED BY <3>1, <3>2
    <2>6. \A e, e2 \in Drivers : e # e2 =>
          /\ Task(e)'.op = "watch" /\ Task(e2)'.op = "watch" => Task(e)'.to # Task(e2)'.to
          /\ Task(e)'.op = "watch" /\ Task(e2)'.op = "close" => Task(e)'.body # Task(e2)'.body
      BY <1>a, TasksApart
    <2> QED BY <2>4, <2>5, <2>6 DEF TaskInv
  <1>6. RefInv'
    <2>1. \A e \in Drivers, c \in Bodies : Dropping(e, c)' <=> Dropping(e, c)
      BY <1>0, <1>a, TaskFacts DEF Dropping
    <2> QED BY <1>0, <1>e, <2>1, RefKeep DEF RefInv
  <1>7. WatchInv'
    <2> SUFFICES ASSUME NEW e \in Drivers, NEW l \in Numbers, NEW x \in fdrec'[e][l].watches
                 PROVE  /\ watch'[x].st \notin {"new", "adding"}
                        /\ watch'[x].st = "pending" => fdrec'[e][l].body = watch'[x].on
      BY DEF WatchInv
    <2>1. CASE x = w
      <3>1. w \notin fdrec[e][l].watches BY <1>c DEF WatchInv
      <3>2. e = d /\ l = k BY <1>f, <2>1, <3>1
      <3> QED BY <1>f, <1>g, <2>1, <3>2
    <2>2. CASE x # w
      <3>1. x \in fdrec[e][l].watches /\ x \in Watches BY <1>f, <2>2, FieldTypes
      <3>2. fdrec[e][l].body # None BY <3>1 DEF RecordInv
      <3>3. fdrec'[e][l].body = fdrec[e][l].body BY <1>d, <1>f, <3>2
      <3> QED BY <1>g, <2>2, <3>1, <3>3 DEF WatchInv
    <2> QED BY <2>1, <2>2
  <1>8. EpochInv'
    <2> SUFFICES ASSUME NEW e \in Drivers, NEW i \in DOMAIN batch[e]
                 PROVE  LET ev == batch[e][i]
                        IN  /\ ev.epoch <= fdrec'[e][ev.fd].epoch
                            /\ ev.epoch = fdrec'[e][ev.fd].epoch => ev.file = fdrec'[e][ev.fd].body
      BY <1>0 DEF EpochInv
    <2>1. batch[e][i] \in KernelEvents BY ElementOfSeq, LenProperties DEF TypeOK
    <2>2. batch[e][i].fd \in Numbers /\ batch[e][i].file \in Bodies BY <2>1 DEF KernelEvents
    <2>3. PICK l \in Numbers : l = batch[e][i].fd BY <2>2
    <2>4. /\ batch[e][i].epoch <= fdrec[e][l].epoch
          /\ batch[e][i].epoch = fdrec[e][l].epoch => batch[e][i].file = fdrec[e][l].body
      BY <2>3 DEF EpochInv
    <2>5. /\ fdrec'[e][l].epoch = fdrec[e][l].epoch
          /\ fdrec[e][l].body # None => fdrec'[e][l].body = fdrec[e][l].body
      BY <1>d, <1>f
    <2> QED BY <1>b, <2>2, <2>3, <2>4, <2>5, SMTT(30)
  <1>9. ToldInv'
    <2>1. \A e \in Drivers, l \in Numbers : fdrec'[e][l].body # None /\ ~body'[fdrec'[e][l].body].open =>
             fdrec[e][l].body # None /\ ~body[fdrec[e][l].body].open
      BY <1>c, <1>e, <1>f, FieldTypes, SMTT(60)
    <2> QED BY <1>a, <2>1 DEF ToldInv
  <1> QED BY <1>0, <1>a, <1>d, <1>1, <1>2, <1>3, <1>4, <1>5, <1>6, <1>7, <1>8, <1>9

\* ref_.fetch_sub(1): perhaps no reference is left, but nobody saw a count of 1.
LEMMA DerefSubInv ==
    ASSUME FdAssumption, IInv, NEW d \in Drivers, DerefSub(d)
    PROVE  IInv'
  <1> USE DEF IInv
  <1>0. PICK b \in Bodies :
           /\ Task(d) # NoTask /\ Task(d).op = "sub" /\ Task(d).body = b
           /\ body' = [body EXCEPT ![b].ref = @ - 1]
           /\ jobs' = [jobs EXCEPT ![d] = << >>]
           /\ UNCHANGED <<os, held, fdrec, dirty, fdctl, kernel, batch, migrate, watch, failed>>
    <2>1. /\ Task(d).op = "sub" /\ Task(d) = Head(jobs[d]) /\ Task(d) \in Tasks
          /\ Tail(jobs[d]) = << >> /\ Task(d) # NoTask
      BY BegunFacts, TaskFacts DEF DerefSub
    <2>2. Task(d).body \in Bodies BY <2>1 DEF Tasks
    <2> QED BY <2>1, <2>2 DEF DerefSub, kset
  <1>a. /\ Task(d)' = NoTask /\ \A e \in Drivers \ {d} : Task(e)' = Task(e)
        /\ JobInv' /\ jobs' \in [Drivers -> Seq(Jobs)]
        /\ \A e \in Drivers, l \in Numbers : Told(e, l) => Told(e, l)'
    <2>1. << >> \in Seq(Notices) /\ DOMAIN << >> = {} OBVIOUS
    <2> QED BY <1>0, <2>1, FinishFrame
  <1>b. /\ Dropping(d, b) /\ body[b].ref \in Nat /\ body[b].ref # 0 /\ body[b].ref - 1 \in Nat
        /\ \A e \in Drivers \ {d} : Dropping(e, b) => body[b].ref # 1
    <2>1. Dropping(d, b) BY <1>0 DEF Dropping
    <2>2. <<d, 0>> \in References(b) BY <2>1, RefFacts
    <2>3. body[b].ref \in Nat /\ body[b].ref # 0 BY <2>2, RefFacts DEF TypeOK, BodyRecords
    <2> QED BY <2>1, <2>3, TwoReferences
  <1>c. /\ body'[b].ref = body[b].ref - 1
        /\ \A c \in Bodies \ {b} : body'[c] = body[c]
        /\ \A c \in Bodies : /\ body'[c].open = body[c].open /\ body'[c].base = body[c].base
                             /\ body'[c].drivers = body[c].drivers /\ body'[c].life = body[c].life
    BY <1>0 DEF TypeOK, BodyRecords
  <1>1. TypeOK'
    <2>1. body' \in [Bodies -> BodyRecords]
      <3>1. body[b] \in BodyRecords /\ body \in [Bodies -> BodyRecords] BY DEF TypeOK
      <3>2. [body[b] EXCEPT !.ref = @ - 1] \in BodyRecords BY <1>b, <3>1 DEF BodyRecords
      <3>3. body' = [body EXCEPT ![b] = [body[b] EXCEPT !.ref = @ - 1]] BY <1>0
      <3> QED BY <3>1, <3>2, <3>3
    <2> QED BY <1>0, <1>a, <2>1 DEF TypeOK
  <1>2. BodyInv' BY <1>0, <1>b, <1>c DEF BodyInv
  <1>3. RecordInv' BY <1>0, <1>c, FieldTypes DEF RecordInv
  <1>4. KernelInv' BY <1>0 DEF KernelInv
  <1>5. TaskInv'
    <2>1. \A e \in Drivers : Task(e).op \in {"watch", "sub", "close"} => Task(e).body \in Bodies
      BY TaskFacts DEF Tasks
    <2>3. \A e \in Drivers \ {d} : Task(e).op = "close" /\ Task(e).to # None => Task(e).body # b
      BY <1>b DEF TaskInv, Dropping
    <2>4. NoTask.op = "none" BY DEF NoTask, Job
    <2>5. \A e \in Drivers :
             /\ Task(e)'.op = "watch" =>
                /\ body'[Task(e)'.body].open /\ body'[Task(e)'.body].base = Task(e)'.fd
                /\ watch'[Task(e)'.to].st = "adding" /\ watch'[Task(e)'.to].on = Task(e)'.body
             /\ Using(e)' => held'[e][Task(e)'.body] > 0
             /\ Task(e)'.op = "close" /\ Task(e)'.to # None => body'[Task(e)'.body].ref = 1
      <3> TAKE e \in Drivers
      <3>1. CASE e = d BY <1>a, <2>4, <3>1 DEF Using
      <3>2. CASE e # d
        <4>1. Task(e)' = Task(e) BY <1>a, <3>2
        <4> QED BY <1>0, <1>c, <2>1, <2>3, <3>2, <4>1 DEF TaskInv, Using
      <3> QED BY <3>1, <3>2
    <2>6. \A e, e2 \in Drivers : e # e2 =>
          /\ Task(e)'.op = "watch" /\ Task(e2)'.op = "watch" => Task(e)'.to # Task(e2)'.to
          /\ Task(e)'.op = "watch" /\ Task(e2)'.op = "close" => Task(e)'.body # Task(e2)'.body
      BY <1>a, TasksApart
    <2> QED BY <2>5, <2>6 DEF TaskInv
  <1>6. RefInv'
    <2>1. /\ Dropping(d, b) /\ ~Dropping(d, b)'
          /\ \A e \in Drivers, c \in Bodies : e # d \/ c # b => (Dropping(e, c)' <=> Dropping(e, c))
      BY <1>0, <1>a, TaskFacts DEF Dropping, FdAssumption
    <2>2. ASSUME NEW c \in Bodies \ {b}
          PROVE  IsFiniteSet(References(c)') /\ body'[c].ref = Cardinality(References(c)')
      BY <1>0, <1>c, <2>1, RefKeep
    <2>3. References(b)' = References(b) \ {<<d, 0>>}
      <3>1. \A e \in Drivers, n \in Nat :
               <<e, n>> \in References(b)' <=> <<e, n>> \in References(b) /\ ~(e = d /\ n = 0)
        BY <1>0, <2>1, ReferencesIn
      <3> QED BY <3>1 DEF References
    <2>4. <<d, 0>> \in References(b) BY <2>1, RefFacts
    <2>5. IsFiniteSet(References(b)') /\ body'[b].ref = Cardinality(References(b)')
      BY <1>c, <2>3, <2>4, RefOneLess
    <2> QED BY <2>2, <2>5 DEF RefInv
  <1>7. WatchInv' BY <1>0 DEF WatchInv
  <1>8. EpochInv' BY <1>0 DEF EpochInv
  <1>9. ToldInv' BY <1>0, <1>a, <1>c, FieldTypes DEF ToldInv
  <1> QED BY <1>0, <1>a, <1>1, <1>2, <1>3, <1>4, <1>5, <1>6, <1>7, <1>8, <1>9

\* A sequence of all elements of a set.
LEMMA SetToSeqsFacts ==
    ASSUME NEW S, IsFiniteSet(S), NEW f \in SetToSeqs(S)
    PROVE  /\ f \in Seq(S)
           /\ \A x \in S : \E i \in DOMAIN f : f[i] = x
           /\ S = {} => DOMAIN f = {}
  <1> DEFINE n == Cardinality(S)
  <1>1. n \in Nat /\ IsFiniteSet(1..n) /\ Cardinality(1..n) = n
    BY FS_CardinalityType, FS_Interval
  <1>2. f \in [1..n -> S] /\ \A i, j \in 1..n : i # j => f[i] # f[j] BY DEF SetToSeqs
  <1>3. S = {} => n = 0 BY FS_EmptySet
  <1> HIDE DEF n
  <1>4. f \in Injection(1..n, S) BY <1>2 DEF Injection, IsInjective
  <1>5. n = Cardinality(S) BY DEF n
  <1>6. f \in Surjection(1..n, S) BY <1>1, <1>4, <1>5, FS_Injection
  <1>7. f \in Seq(S) BY <1>1, <1>2
  <1>8. \A x \in S : \E i \in 1..n : f[i] = x BY <1>6 DEF Surjection
  <1> QED BY <1>1, <1>2, <1>3, <1>7, <1>8

\* The notices that close() sends: one for every driver that listens.
LEMMA CloseNotices ==
    ASSUME FdAssumption, NEW d \in Drivers, NEW S \in SUBSET Drivers, NEW k,
           k \in Numbers \/ S = {}, NEW order \in SetToSeqs(S), NEW s,
           s = [i \in DOMAIN order |-> Notice(d, order[i], k)]
    PROVE  /\ s \in Seq(Notices)
           /\ \A i \in DOMAIN s : s[i].op = "notify" => s[i].to = d
           /\ \A e \in S : \E i \in DOMAIN s :
                 s[i].op \in {"notify", "post"} /\ s[i].fd = k /\ s[i].to = e
  <1>1. IsFiniteSet(S) BY FS_Subset DEF FdAssumption
  <1>2. /\ order \in Seq(S) /\ \A x \in S : \E i \in DOMAIN order : order[i] = x
        /\ S = {} => DOMAIN order = {}
    BY <1>1, SetToSeqsFacts
  <1>3. Len(order) \in Nat /\ DOMAIN order = 1..Len(order)
        /\ \A i \in DOMAIN order : order[i] \in S
    BY <1>2, LenProperties, ElementOfSeq
  <1>4. \A i \in DOMAIN order :
           Notice(d, order[i], k) \in Notices
    BY <1>2, <1>3 DEF Notice, Job, Notices
  <1>5. s \in [1..Len(order) -> Notices] BY <1>3, <1>4
  <1>6. s \in Seq(Notices) BY <1>3, <1>5
  <1>7. \A i \in DOMAIN order : /\ s[i].op = (IF order[i] = d THEN "notify" ELSE "post")
                                /\ s[i].fd = k /\ s[i].to = order[i]
    BY DEF Notice, Job
  <1>8. DOMAIN s = DOMAIN order OBVIOUS
  <1>9. \A i \in DOMAIN s : s[i].op = "notify" => s[i].to = d BY <1>7, <1>8
  <1>10. ASSUME NEW e \in S
         PROVE  \E i \in DOMAIN s : s[i].op \in {"notify", "post"} /\ s[i].fd = k /\ s[i].to = e
    <2>1. PICK i \in DOMAIN order : order[i] = e BY <1>2
    <2>2. s[i].op \in {"notify", "post"} /\ s[i].fd = k /\ s[i].to = e BY <1>7, <2>1
    <2> QED BY <1>8, <2>1, <2>2
  <1> QED BY <1>6, <1>9, <1>10

\* fd_body::close marks the body; a file nobody listens to is closed at once, and
\* a body without references and listeners deleted.
LEMMA CloseBodyInv ==
    ASSUME FdAssumption, IInv, NEW d \in Drivers, CloseBody(d)
    PROVE  IInv'
  <1> USE DEF IInv
  <1> DEFINE deref == Head(jobs[d]).to # None
             Listening(b) == IF body[b].open THEN body[b].drivers ELSE {}
             Now(b) == body[b].open /\ Listening(b) = {}
  <1>0. PICK b \in Bodies :
           /\ Task(d) # NoTask /\ Task(d) = Head(jobs[d]) /\ Task(d).op = "close" /\ Task(d).body = b
           /\ body' = [body EXCEPT ![b] = Closed(body[b], Now(b), deref)]
           /\ IF Now(b) THEN OsClose(body[b].base) ELSE UNCHANGED <<os, kernel>>
           /\ \E order \in SetToSeqs(Listening(b)) :
                 jobs' = [jobs EXCEPT ![d] = [i \in DOMAIN order |-> Notice(d, order[i], body[b].base)]]
           /\ UNCHANGED <<held, fdrec, dirty, fdctl, batch, migrate, watch, failed>>
    <2>1. /\ Task(d).op = "close" /\ Task(d) = Head(jobs[d]) /\ Task(d) \in Tasks
          /\ Task(d) # NoTask
      <3>1. Begun(d, "close") BY DEF CloseBody
      <3> QED BY <3>1, BegunFacts, TaskFacts
    <2> DEFINE b == Head(jobs[d]).body
    <2>2. b \in Bodies BY <2>1 DEF Tasks
    <2>3. /\ body' = [body EXCEPT ![b] = Closed(body[b], Now(b), deref)]
          /\ IF Now(b) THEN OsClose(body[b].base) ELSE UNCHANGED <<os, kernel>>
          /\ \E order \in SetToSeqs(Listening(b)) :
                jobs' = [jobs EXCEPT ![d] = [i \in DOMAIN order |-> Notice(d, order[i], body[b].base)]]
      BY Zenon DEF CloseBody
    <2>4. UNCHANGED <<held, fdrec, dirty, fdctl, batch, migrate, watch, failed>>
      BY DEF CloseBody
    <2>5. Task(d).body = b BY <2>1
    <2> HIDE DEF b, Now, Listening, deref
    <2> QED BY <2>1, <2>2, <2>3, <2>4, <2>5
  <1>b. None \notin Bodies /\ None \notin Numbers BY DEF FdAssumption
  <1>1. /\ body[b] \in BodyRecords /\ body \in [Bodies -> BodyRecords] BY DEF TypeOK
  <1>2. body[b].open => body[b].base \in Numbers BY <1>1 DEF BodyInv, BodyRecords
  <1>3. deref => body[b].ref = 1 BY <1>0 DEF TaskInv
  <1>c. PICK s \in Seq(Notices) :
           /\ jobs' = [jobs EXCEPT ![d] = s]
           /\ \A i \in DOMAIN s : s[i].op = "notify" => s[i].to = d
           /\ \A e \in Listening(b) : \E i \in DOMAIN s :
                 s[i].op \in {"notify", "post"} /\ s[i].fd = body[b].base /\ s[i].to = e
    <2>1. PICK order \in SetToSeqs(Listening(b)) :
             jobs' = [jobs EXCEPT ![d] = [i \in DOMAIN order |-> Notice(d, order[i], body[b].base)]]
      BY <1>0
    <2>2. Listening(b) \in SUBSET Drivers /\ (body[b].base \in Numbers \/ Listening(b) = {})
      BY <1>1, <1>2 DEF BodyRecords
    <2> DEFINE t == [i \in DOMAIN order |-> Notice(d, order[i], body[b].base)]
    <2> HIDE DEF Listening
    <2>3. /\ t \in Seq(Notices)
          /\ \A i \in DOMAIN t : t[i].op = "notify" => t[i].to = d
          /\ \A e \in Listening(b) : \E i \in DOMAIN t :
                t[i].op \in {"notify", "post"} /\ t[i].fd = body[b].base /\ t[i].to = e
      <3> HIDE DEF t
      <3>1. t = [i \in DOMAIN order |-> Notice(d, order[i], body[b].base)]
        BY DEF t
      <3> QED BY <2>2, <3>1, CloseNotices, SMTT(30)
    <2> HIDE DEF t
    <2>4. jobs' = [jobs EXCEPT ![d] = t] BY <2>1 DEF t
    <2> QED BY <2>3, <2>4
  <1>a. /\ Task(d)' = NoTask /\ \A e \in Drivers \ {d} : Task(e)' = Task(e)
        /\ JobInv' /\ jobs' \in [Drivers -> Seq(Jobs)] /\ jobs'[d] = s
        /\ \A e \in Drivers, l \in Numbers : Told(e, l) => Told(e, l)'
    BY <1>0, <1>c, FinishFrame
  <1>d. /\ ~body'[b].open /\ body'[b].drivers = body[b].drivers
        /\ body'[b].base = (IF Now(b) THEN None ELSE body[b].base)
        /\ body'[b].ref = (IF deref THEN body[b].ref - 1 ELSE body[b].ref)
        /\ body'[b].life = (IF deref /\ body[b].drivers = {} THEN "deleted" ELSE body[b].life)
        /\ \A c \in Bodies \ {b} : body'[c] = body[c]
        /\ body' \in [Bodies -> BodyRecords]
    <2>1. (IF deref THEN body[b].ref - 1 ELSE body[b].ref) \in Nat BY <1>1, <1>3 DEF BodyRecords
    <2>2. PICK x, y, z :
             /\ x = (IF Now(b) THEN None ELSE body[b].base)
             /\ y = (IF deref THEN body[b].ref - 1 ELSE body[b].ref)
             /\ z = (IF deref /\ body[b].drivers = {} THEN "deleted" ELSE body[b].life)
      OBVIOUS
    <2> HIDE DEF deref, Now
    <2>3. x \in Numbers \union {None} /\ y \in Nat /\ z \in {"new", "live", "deleted"}
      BY <1>1, <2>1, <2>2 DEF BodyRecords
    <2> DEFINE r == Closed(body[b], Now(b), deref)
    <2>4. r = [body[b] EXCEPT !.open = FALSE, !.base = x, !.ref = y, !.life = z]
      BY <2>2 DEF Closed
    <2>5. body' = [body EXCEPT ![b] = r] BY <1>0
    <2> HIDE DEF r
    <2>6. /\ r.open = FALSE /\ r.drivers = body[b].drivers /\ r.base = x /\ r.ref = y /\ r.life = z
          /\ r \in BodyRecords
      BY <1>1, <2>3, <2>4 DEF BodyRecords
    <2> QED BY <1>1, <2>2, <2>5, <2>6
  <1>f. Now(b) =>
          /\ body[b].base \in Numbers /\ os[body[b].base] = b
          /\ \A e \in Drivers : fdrec[e][body[b].base].body = None /\ fdctl[e][body[b].base] = {}
                                /\ kernel[e][body[b].base] = None
    <2> SUFFICES ASSUME Now(b)
                 PROVE  /\ body[b].base \in Numbers /\ os[body[b].base] = b
                        /\ \A e \in Drivers : /\ fdrec[e][body[b].base].body = None
                                              /\ fdctl[e][body[b].base] = {}
                                              /\ kernel[e][body[b].base] = None
      OBVIOUS
    <2>1. body[b].base \in Numbers /\ os[body[b].base] = b BY <1>2, <1>b DEF BodyInv
    <2>2. \A e \in Drivers : fdrec[e][body[b].base].body = None BY <2>1 DEF RecordInv
    <2> QED BY <2>1, <2>2 DEF RecordInv, KernelInv
  <1>g. /\ Now(b) => os' = [os EXCEPT ![body[b].base] = None]
        /\ ~Now(b) => os' = os
        /\ \A e \in Drivers, l \in Numbers : kernel'[e][l] = kernel[e][l]
        /\ kernel' \in [Drivers -> [Numbers -> Registrations \union {None}]]
    <2>1. CASE Now(b)
      <3> HIDE DEF Now, deref
      <3>1. PICK k \in Numbers : k = body[b].base BY <1>f, <2>1
      <3>2. /\ os' = [os EXCEPT ![k] = None]
            /\ kernel' = [e \in Drivers |-> [kernel[e] EXCEPT ![k] = None]]
        BY <1>0, <2>1, <3>1 DEF OsClose
      <3>3. \A e \in Drivers : kernel[e] \in [Numbers -> Registrations \union {None}] BY DEF TypeOK
      <3>4. \A e \in Drivers : kernel'[e] \in [Numbers -> Registrations \union {None}]
        BY <3>2, <3>3
      <3>5. \A e \in Drivers, l \in Numbers : kernel'[e][l] = kernel[e][l]
        BY <1>f, <2>1, <3>1, <3>2, <3>3
      <3> QED BY <2>1, <3>1, <3>2, <3>4, <3>5
    <2>2. CASE ~Now(b) BY <1>0, <2>2, SMTT(60) DEF TypeOK
    <2> QED BY <2>1, <2>2
  <1>4. TypeOK'
    <2>1. os' \in [Numbers -> Bodies \union {None}] BY <1>f, <1>g DEF TypeOK
    <2> QED BY <1>0, <1>a, <1>d, <1>g, <2>1 DEF TypeOK
  <1>h. \A c \in Bodies \ {b} : body[c].base # None => body[c].base \in Numbers /\ (Now(b) => body[c].base # body[b].base)
    BY <1>f DEF BodyInv, TypeOK, BodyRecords
  <1>5. BodyInv'
    <2>1. ASSUME NEW c \in Bodies \ {b} PROVE body'[c].base # None => os'[body'[c].base] = c
      BY <1>d, <1>f, <1>g, <1>h DEF BodyInv, TypeOK
    <2>2. body'[b].base # None => os'[body'[b].base] = b
      BY <1>d, <1>g DEF BodyInv
    <2>3. deref => body[b].life # "deleted" /\ body[b].life # "new" BY <1>3 DEF BodyInv
    <2>4. body[b].open => body[b].life = "live" BY DEF BodyInv
    <2> QED BY <1>3, <1>d, <2>1, <2>2, <2>3, <2>4 DEF BodyInv
  <1>6. RecordInv'
    <2>1. \A l \in Numbers : os'[l] # None => body'[os'[l]].base = l
      <3> SUFFICES ASSUME NEW l \in Numbers, os'[l] # None PROVE body'[os'[l]].base = l OBVIOUS
      <3>1. os'[l] = os[l] /\ (Now(b) => l # body[b].base) BY <1>f, <1>g DEF TypeOK
      <3>2. os[l] \in Bodies /\ body[os[l]].base = l BY <3>1, FieldTypes DEF RecordInv
      <3>3. CASE os[l] = b BY <1>d, <3>1, <3>2, <3>3
      <3>4. CASE os[l] # b BY <1>d, <3>1, <3>2, <3>4
      <3> QED BY <3>3, <3>4
    <2>2. ASSUME NEW e \in Drivers, NEW l \in Numbers
          PROVE  /\ fdrec'[e][l].body = None => fdrec'[e][l].watches = {} /\ fdctl'[e][l] = {}
                 /\ fdrec'[e][l].body # None =>
                      os'[l] = fdrec'[e][l].body /\ e \in body'[fdrec'[e][l].body].drivers
      <3>1. fdrec' = fdrec /\ fdctl' = fdctl BY <1>0
      <3>2. fdrec[e][l].body # None => fdrec[e][l].body \in Bodies /\ (Now(b) => l # body[b].base)
        BY <1>f, FieldTypes
      <3>3. fdrec[e][l].body # None => os'[l] = os[l] BY <1>g, <3>2, SMTT(30) DEF TypeOK
      <3>4. \A c \in Bodies : body'[c].drivers = body[c].drivers BY <1>d
      <3> QED BY <3>1, <3>2, <3>3, <3>4 DEF RecordInv
    <2>3. \A c \in Bodies : \A e \in body'[c].drivers : fdrec'[e][body'[c].base].body = c
      <3> TAKE c \in Bodies
      <3> TAKE e \in body'[c].drivers
      <3>1. e \in body[c].drivers BY <1>d
      <3>2. body'[c].base = body[c].base BY <1>d, <3>1
      <3> QED BY <1>0, <3>1, <3>2, SMTT(60) DEF RecordInv
    <2> QED BY <2>1, <2>2, <2>3 DEF RecordInv
  <1>7. KernelInv'
    <2>1. \A e \in Drivers, l \in Numbers : kernel[e][l] # None => os'[l] = os[l]
      BY <1>f, <1>g DEF TypeOK
    <2> QED BY <1>0, <1>g, <2>1 DEF KernelInv
  <1>8. TaskInv'
    <2>1. \A e \in Drivers : Task(e).op \in {"watch", "sub", "close"} => Task(e).body \in Bodies
      BY TaskFacts DEF Tasks
    <2>2. \A e \in Drivers \ {d} : Task(e).op = "watch" => Task(e).body # b BY <1>0 DEF TaskInv
    <2>3. ASSUME deref, NEW e \in Drivers \ {d}
          PROVE  Task(e).op = "close" /\ Task(e).to # None => Task(e).body # b
      <3>1. Dropping(d, b) BY <1>0, <2>3 DEF Dropping
      <3>2. ~Dropping(e, b) BY <1>3, <2>3, <3>1, TwoReferences
      <3> QED BY <3>2 DEF Dropping
    <2>4. NoTask.op = "none" BY DEF NoTask, Job
    <2>5. \A e \in Drivers :
             /\ Task(e)'.op = "watch" =>
                  /\ body'[Task(e)'.body].open /\ body'[Task(e)'.body].base = Task(e)'.fd
                  /\ watch'[Task(e)'.to].st = "adding" /\ watch'[Task(e)'.to].on = Task(e)'.body
             /\ Using(e)' => held'[e][Task(e)'.body] > 0
             /\ Task(e)'.op = "close" /\ Task(e)'.to # None => body'[Task(e)'.body].ref = 1
      <3> TAKE e \in Drivers
      <3>1. CASE e = d BY <1>a, <2>4, <3>1 DEF Using
      <3>2. CASE e # d
        <4>1. Task(e)' = Task(e) BY <1>a, <3>2
        <4> HIDE DEF deref
        <4>2. Task(e).op = "watch" => body'[Task(e).body] = body[Task(e).body]
          BY <1>d, <2>1, <2>2, <3>2
        <4>3. Task(e).op = "close" /\ Task(e).to # None =>
                 body'[Task(e).body].ref = body[Task(e).body].ref
          BY <1>d, <2>1, <2>3, <3>2
        <4>4. watch' = watch /\ held' = held BY <1>0
        <4>5. /\ Task(e).op = "watch" =>
                   /\ body[Task(e).body].open /\ body[Task(e).body].base = Task(e).fd
                   /\ watch[Task(e).to].st = "adding" /\ watch[Task(e).to].on = Task(e).body
              /\ Using(e) => held[e][Task(e).body] > 0
              /\ Task(e).op = "close" /\ Task(e).to # None => body[Task(e).body].ref = 1
          BY DEF TaskInv
        <4> QED BY <4>1, <4>2, <4>3, <4>4, <4>5 DEF Using
      <3> QED BY <3>1, <3>2
    <2>6. \A e, e2 \in Drivers : e # e2 =>
          /\ Task(e)'.op = "watch" /\ Task(e2)'.op = "watch" => Task(e)'.to # Task(e2)'.to
          /\ Task(e)'.op = "watch" /\ Task(e2)'.op = "close" => Task(e)'.body # Task(e2)'.body
      BY <1>a, TasksApart
    <2> QED BY <2>5, <2>6 DEF TaskInv
  <1>9. RefInv'
    <2>1. /\ Dropping(d, b) <=> deref
          /\ ~Dropping(d, b)'
          /\ \A e \in Drivers, c \in Bodies : e # d \/ c # b => (Dropping(e, c)' <=> Dropping(e, c))
      BY <1>0, <1>a, <1>b, TaskFacts, SMTT(60) DEF Dropping
    <2>2. ASSUME NEW c \in Bodies \ {b}
          PROVE  IsFiniteSet(References(c)') /\ body'[c].ref = Cardinality(References(c)')
      BY <1>0, <1>d, <2>1, RefKeep, SMTT(60)
    <2>3. ASSUME ~deref
          PROVE  IsFiniteSet(References(b)') /\ body'[b].ref = Cardinality(References(b)')
      BY <1>0, <1>d, <2>1, <2>3, RefKeep
    <2>4. ASSUME deref
          PROVE  IsFiniteSet(References(b)') /\ body'[b].ref = Cardinality(References(b)')
      <3> HIDE DEF deref
      <3>1. ASSUME NEW e \in Drivers, NEW n \in Nat
            PROVE  <<e, n>> \in References(b)' <=> <<e, n>> \in References(b) /\ ~(e = d /\ n = 0)
        <4>1. held' = held BY <1>0
        <4> QED BY <2>1, <2>4, <4>1, ReferencesIn
      <3>2. References(b)' = References(b) \ {<<d, 0>>} BY <3>1 DEF References
      <3>3. <<d, 0>> \in References(b) BY <2>1, <2>4, RefFacts
      <3> QED BY <1>d, <2>4, <3>2, <3>3, RefOneLess
    <2> QED BY <2>2, <2>3, <2>4 DEF RefInv
  <1>10. WatchInv' BY <1>0 DEF WatchInv
  <1>11. EpochInv' BY <1>0 DEF EpochInv
  <1>12. ToldInv'
    <2> SUFFICES ASSUME NEW e \in Drivers, NEW l \in Numbers,
                        fdrec[e][l].body # None, ~body'[fdrec[e][l].body].open
                 PROVE  Told(e, l)'
      BY <1>0 DEF ToldInv
    <2>1. CASE ~body[fdrec[e][l].body].open BY <1>a, <2>1 DEF ToldInv
    <2>2. CASE body[fdrec[e][l].body].open
      <3>1. fdrec[e][l].body = b BY <1>d, <2>2, FieldTypes
      <3>2. e \in Listening(b) /\ body[b].base = l
        BY <2>2, <3>1, <1>b DEF RecordInv
      <3>3. PICK i \in DOMAIN s :
               s[i].op \in {"notify", "post"} /\ s[i].fd = l /\ s[i].to = e
        BY <1>c, <3>2
      <3> QED BY <1>a, <3>3 DEF Told
    <2> QED BY <2>1, <2>2
  <1> QED BY <1>0, <1>a, <1>4, <1>5, <1>6, <1>7, <1>8, <1>9, <1>10, <1>11, <1>12

\* A step that only passes notices on.
LEMMA NoticeFrame ==
    ASSUME FdAssumption, IInv,
           UNCHANGED <<os, body, held, fdrec, dirty, fdctl, kernel, batch, watch, failed>>,
           JobInv', jobs' \in [Drivers -> Seq(Jobs)], migrate' \in [Drivers -> Seq(Numbers)],
           \A e \in Drivers : Task(e)' = Task(e),
           \A e \in Drivers, k \in Numbers :
              fdrec[e][k].body # None /\ ~body[fdrec[e][k].body].open /\ Told(e, k) => Told(e, k)'
    PROVE  IInv'
  <1> USE DEF IInv
  <1>1. TypeOK' BY DEF TypeOK
  <1>2. BodyInv' /\ RecordInv' /\ KernelInv' BY DEF BodyInv, RecordInv, KernelInv
  <1>3. TaskInv' BY DEF TaskInv, Using
  <1>4. RefInv'
    <2>1. \A e \in Drivers, b \in Bodies : Dropping(e, b)' <=> Dropping(e, b) BY DEF Dropping
    <2> QED BY <2>1, RefKeep DEF RefInv
  <1>5. WatchInv' /\ EpochInv' BY DEF WatchInv, EpochInv
  <1>6. ToldInv' BY DEF ToldInv
  <1> QED BY <1>1, <1>2, <1>3, <1>4, <1>5, <1>6

\* Thread d2 has a notice for driver e and number k.
Sent(d2, e, k) ==
    \E i \in DOMAIN jobs[d2] :
        jobs[d2][i].op \in {"notify", "post"} /\ jobs[d2][i].fd = k /\ jobs[d2][i].to = e

\* The first notice of a thread is taken off its list: the others stay, and so do
\* the notices of the other threads.
LEMMA PopNotice ==
    ASSUME FdAssumption, IInv, NEW d \in Drivers, NEW o \in {"notify", "post"}, Begun(d, o),
           jobs' = [jobs EXCEPT ![d] = Tail(@)]
    PROVE  /\ Head(jobs[d]) \in Notices /\ Head(jobs[d]).op = o
           /\ o = "notify" => Head(jobs[d]).to = d
           /\ JobInv' /\ jobs' \in [Drivers -> Seq(Jobs)]
           /\ \A e \in Drivers : Task(e)' = Task(e)
           /\ \A e \in Drivers, k \in Numbers, d2 \in Drivers :
                 Sent(d2, e, k) /\ (k # Head(jobs[d]).fd \/ e # Head(jobs[d]).to) => Sent(d2, e, k)'
  <1> USE DEF IInv
  <1>1. /\ jobs[d] \in Seq(Notices) /\ jobs[d] # << >> /\ Task(d) = NoTask
        /\ Head(jobs[d]) \in Notices /\ Head(jobs[d]).op = o
        /\ Tail(jobs[d]) \in Seq(Notices)
        /\ o = "notify" => Head(jobs[d]).to = d
        /\ \A i \in DOMAIN Tail(jobs[d]) :
              Tail(jobs[d])[i].op = "notify" => Tail(jobs[d])[i].to = d
    BY BegunFacts
  <1>2. jobs'[d] = Tail(jobs[d]) /\ \A e \in Drivers \ {d} : jobs'[e] = jobs[e] BY DEF TypeOK
  <1>3. JobInv' BY <1>1, <1>2 DEF JobInv
  <1>4. jobs' \in [Drivers -> Seq(Jobs)] BY <1>1, <1>2, JobsType DEF TypeOK
  <1>5. \A e \in Drivers : Task(e)' = Task(e) BY <1>1, <1>2, TaskAfter
  <1>6. ASSUME NEW e \in Drivers, NEW k \in Numbers, NEW d2 \in Drivers, Sent(d2, e, k),
               k # Head(jobs[d]).fd \/ e # Head(jobs[d]).to
        PROVE  Sent(d2, e, k)'
    <2>0. PICK i \in DOMAIN jobs[d2] :
             jobs[d2][i].op \in {"notify", "post"} /\ jobs[d2][i].fd = k /\ jobs[d2][i].to = e
      BY <1>6 DEF Sent
    <2>1. CASE d2 # d BY <1>2, <2>0, <2>1 DEF Sent
    <2>2. CASE d2 = d
      <3>1. i \in 1..Len(jobs[d]) /\ Head(jobs[d]) = jobs[d][1] BY <1>1, <2>0, <2>2, LenProperties
      <3>2. i # 1 BY <1>6, <2>0, <2>2, <3>1
      <3>3. i - 1 \in DOMAIN Tail(jobs[d]) /\ Tail(jobs[d])[i - 1] = jobs[d][i]
        BY <1>1, <3>1, <3>2, HeadTailProperties, LenProperties
      <3> QED BY <1>2, <2>0, <2>2, <3>3 DEF Sent
    <2> QED BY <2>1, <2>2
  <1> QED BY <1>1, <1>3, <1>4, <1>5, <1>6

\* migrate_fd_close: the notice is in the other driver's queue.
LEMMA PostInv ==
    ASSUME FdAssumption, IInv, NEW d \in Drivers, Post(d)
    PROVE  IInv'
  <1> USE DEF IInv
  <1>0. PICK k \in Numbers, t \in Drivers :
           /\ Head(jobs[d]).fd = k /\ Head(jobs[d]).to = t
           /\ migrate' = [migrate EXCEPT ![t] = Append(migrate[t], k)]
           /\ jobs' = [jobs EXCEPT ![d] = Tail(@)] /\ Begun(d, "post")
           /\ UNCHANGED <<os, body, held, fdrec, dirty, fdctl, kernel, batch, watch, failed>>
    <2>1. Begun(d, "post") BY DEF Post
    <2>2. Head(jobs[d]).fd \in Numbers /\ Head(jobs[d]).to \in Drivers
      BY <2>1, BegunFacts DEF Notices
    <2> QED BY <2>1, <2>2 DEF Post, kset
  <1>1. /\ JobInv' /\ jobs' \in [Drivers -> Seq(Jobs)]
        /\ \A e \in Drivers : Task(e)' = Task(e)
        /\ \A e \in Drivers, l \in Numbers, d2 \in Drivers :
              Sent(d2, e, l) /\ (l # Head(jobs[d]).fd \/ e # Head(jobs[d]).to) => Sent(d2, e, l)'
    <2>1. "post" \in {"notify", "post"} /\ Begun(d, "post") /\ jobs' = [jobs EXCEPT ![d] = Tail(@)] BY <1>0
    <2> QED BY <2>1, PopNotice
  <1>2. migrate[t] \in Seq(Numbers) /\ migrate' \in [Drivers -> Seq(Numbers)]
    BY <1>0 DEF TypeOK
  <1>3. /\ migrate'[t] = Append(migrate[t], k) /\ \A e \in Drivers \ {t} : migrate'[e] = migrate[e]
        /\ Len(migrate[t]) + 1 \in DOMAIN migrate'[t] /\ migrate'[t][Len(migrate[t]) + 1] = k
        /\ \A i \in DOMAIN migrate[t] : i \in DOMAIN migrate'[t] /\ migrate'[t][i] = migrate[t][i]
    <2>1. /\ migrate'[t] = Append(migrate[t], k)
          /\ \A e \in Drivers \ {t} : migrate'[e] = migrate[e]
      BY <1>0 DEF TypeOK
    <2>2. /\ Len(migrate[t]) \in Nat /\ DOMAIN migrate[t] = 1..Len(migrate[t])
          /\ Append(migrate[t], k) \in Seq(Numbers)
          /\ Len(Append(migrate[t], k)) = Len(migrate[t]) + 1
          /\ \A i \in 1..Len(migrate[t]) : Append(migrate[t], k)[i] = migrate[t][i]
          /\ Append(migrate[t], k)[Len(migrate[t]) + 1] = k
      BY <1>2, AppendProperties, LenProperties
    <2>3. DOMAIN Append(migrate[t], k) = 1..(Len(migrate[t]) + 1) BY <2>2, LenProperties
    <2> QED BY <2>1, <2>2, <2>3
  <1>4. ASSUME NEW e \in Drivers, NEW l \in Numbers, Told(e, l) PROVE Told(e, l)'
    <2>1. CASE e = t /\ l = k BY <1>3, <2>1 DEF Told
    <2>2. CASE \E i \in DOMAIN migrate[e] : migrate[e][i] = l BY <1>3, <2>2 DEF Told
    <2>3. CASE (e # t \/ l # k) /\ \E d2 \in Drivers : Sent(d2, e, l)
      <3>1. \E d2 \in Drivers : Sent(d2, e, l)' BY <1>0, <1>1, <2>3
      <3> QED BY <3>1 DEF Told, Sent
    <2> QED BY <1>4, <2>1, <2>2, <2>3 DEF Told, Sent
  <1> QED BY <1>0, <1>1, <1>2, <1>4, NoticeFrame

\* finish_migrate: the notices of the queue are the thread's next jobs.
LEMMA ImportInv ==
    ASSUME FdAssumption, IInv, NEW d \in Drivers, Import(d)
    PROVE  IInv'
  <1> USE DEF IInv
  <1>0. PICK s : /\ s = [i \in DOMAIN migrate[d] |-> Job("notify", None, migrate[d][i], d)]
                 /\ jobs[d] = << >> /\ jobs' = [jobs EXCEPT ![d] = s]
                 /\ migrate' = [migrate EXCEPT ![d] = << >>]
                 /\ UNCHANGED <<os, body, held, fdrec, dirty, fdctl, kernel, batch, watch, failed>>
    BY DEF Import, Idle, kset
  <1>1. migrate[d] \in Seq(Numbers) BY DEF TypeOK
  <1>2. /\ DOMAIN migrate[d] = 1..Len(migrate[d]) /\ Len(migrate[d]) \in Nat
        /\ \A i \in DOMAIN migrate[d] : migrate[d][i] \in Numbers
    BY <1>1, LenProperties, ElementOfSeq
  <1>3. \A i \in DOMAIN migrate[d] : Job("notify", None, migrate[d][i], d) \in Notices
    BY <1>2 DEF Job, Notices
  <1>4. s \in [1..Len(migrate[d]) -> Notices] BY <1>0, <1>2, <1>3
  <1>5. s \in Seq(Notices) BY <1>2, <1>4
  <1>6. \A i \in DOMAIN migrate[d] : i \in DOMAIN s /\ s[i].op = "notify" /\ s[i].fd = migrate[d][i] /\ s[i].to = d
    BY <1>0 DEF Job
  <1>7. DOMAIN s = DOMAIN migrate[d] BY <1>0
  <1>8. jobs'[d] = s /\ \A e \in Drivers \ {d} : jobs'[e] = jobs[e] BY <1>0 DEF TypeOK
  <1>9. JobInv' BY <1>5, <1>6, <1>7, <1>8 DEF JobInv
  <1>10. jobs' \in [Drivers -> Seq(Jobs)] BY <1>0, <1>5, JobsType DEF TypeOK
  <1>11. migrate' \in [Drivers -> Seq(Numbers)] BY <1>0 DEF TypeOK
  <1>12. \A e \in Drivers : Task(e)' = Task(e) BY <1>0, <1>5, <1>8, TaskFacts, TaskAfter
  <1>13. ASSUME NEW e \in Drivers, NEW k \in Numbers, Told(e, k) PROVE Told(e, k)'
    <2>1. CASE e = d /\ \E i \in DOMAIN migrate[d] : migrate[d][i] = k
      <3>1. PICK i \in DOMAIN migrate[d] : migrate[d][i] = k BY <2>1
      <3>2. i \in DOMAIN jobs'[d] /\ jobs'[d][i].op = "notify" /\ jobs'[d][i].fd = k /\ jobs'[d][i].to = d
        BY <1>6, <1>8, <3>1
      <3> QED BY <2>1, <3>2 DEF Told
    <2>2. CASE e # d /\ \E i \in DOMAIN migrate[e] : migrate[e][i] = k
      <3>1. migrate'[e] = migrate[e] BY <1>0, <2>2 DEF TypeOK
      <3> QED BY <2>2, <3>1 DEF Told
    <2>3. CASE \E d2 \in Drivers : \E i \in DOMAIN jobs[d2] :
                  jobs[d2][i].op \in {"notify", "post"} /\ jobs[d2][i].fd = k /\ jobs[d2][i].to = e
      BY <1>0, <1>8, <2>3 DEF Told
    <2> QED BY <1>13, <2>1, <2>2, <2>3 DEF Told
  <1> QED BY <1>0, <1>9, <1>10, <1>11, <1>12, <1>13, NoticeFrame

\* notify_close does nothing without a closed body in the record; else it lets go
\* of it: the watches trigger, the registration goes, and the last driver closes
\* the file.
LEMMA NotifyCloseInv ==
    ASSUME FdAssumption, IInv, NEW d \in Drivers, NotifyClose(d)
    PROVE  IInv'
  <1> USE DEF IInv
  <1>a. Begun(d, "notify") /\ jobs' = [jobs EXCEPT ![d] = Tail(@)]
    BY Zenon DEF NotifyClose
  <1>b. /\ Head(jobs[d]) \in Notices
        /\ Head(jobs[d]).to = d /\ JobInv' /\ jobs' \in [Drivers -> Seq(Jobs)]
        /\ \A e \in Drivers : Task(e)' = Task(e)
        /\ \A e \in Drivers, l \in Numbers, d2 \in Drivers :
              Sent(d2, e, l) /\ (l # Head(jobs[d]).fd \/ e # Head(jobs[d]).to) => Sent(d2, e, l)'
    <2>1. "notify" \in {"notify", "post"} OBVIOUS
    <2> QED BY <1>a, <2>1, PopNotice
  <1>c. PICK k \in Numbers : k = Head(jobs[d]).fd BY <1>b DEF Notices
  <1>d. None \notin Bodies /\ None \notin Numbers BY DEF FdAssumption
  <1>e. UNCHANGED <<held, batch, migrate>> BY Zenon DEF NotifyClose
  <1>1. CASE fdrec[d][k].body = None \/ body[fdrec[d][k].body].open
    <2>1. UNCHANGED <<os, body, kset, watch, failed>>
      BY <1>1, <1>c, Zenon DEF NotifyClose
    <2>2. UNCHANGED <<os, body, held, fdrec, dirty, fdctl, kernel, batch, watch, failed>>
      BY <1>e, <2>1 DEF kset
    <2>3. ASSUME NEW e \in Drivers, NEW l \in Numbers,
                 fdrec[e][l].body # None, ~body[fdrec[e][l].body].open, Told(e, l)
          PROVE  Told(e, l)'
      <3>1. l # k \/ e # d BY <1>1, <2>3
      <3>2. CASE \E i \in DOMAIN migrate[e] : migrate[e][i] = l BY <1>e, <3>2 DEF Told
      <3>3. CASE \E d2 \in Drivers : Sent(d2, e, l)
        <4>1. \E d2 \in Drivers : Sent(d2, e, l)' BY <1>b, <1>c, <3>1, <3>3
        <4> QED BY <4>1 DEF Told, Sent
      <3> QED BY <2>3, <3>2, <3>3 DEF Told, Sent
    <2>4. migrate' \in [Drivers -> Seq(Numbers)] BY <1>e DEF TypeOK
    <2> QED BY <1>b, <2>2, <2>3, <2>4, NoticeFrame
  <1>2. CASE ~(fdrec[d][k].body = None \/ body[fdrec[d][k].body].open)
    <2>0. PICK b \in Bodies :
             /\ fdrec[d][k].body = b /\ ~body[b].open
             /\ watch' = [w \in Watches |->
                   IF w \in fdrec[d][k].watches /\ watch[w].st = "pending"
                   THEN Done("closed") ELSE watch[w]]
             /\ fdrec' = [fdrec EXCEPT ![d][k] =
                   [body |-> None, epoch |-> fdrec[d][k].epoch + 1, watches |-> {}]]
             /\ dirty' = [dirty EXCEPT ![d] = @ \union {k}]
             /\ failed' = (failed \/ CtlFails(d, k, fdctl[d][k], {}))
             /\ fdctl' = [fdctl EXCEPT ![d][k] = {}]
             /\ body' = [body EXCEPT ![b] = Left(b, d, LastListener(b, d) /\ ~body[b].open)]
             /\ IF LastListener(b, d) /\ ~body[b].open THEN OsClose(k)
                ELSE kernel' = [kernel EXCEPT ![d][k] = None] /\ UNCHANGED os
      <3>1. fdrec[d][k].body \in Bodies BY <1>2, FieldTypes
      <3> QED BY <1>2, <1>c, <3>1, Zenon DEF NotifyClose
    <2> DEFINE last == body[b].drivers = {d}
    <2>1. /\ os[k] = b /\ body[b].base = k /\ d \in body[b].drivers
          /\ \A c \in Bodies \ {b} : body[c].base # k
      BY <1>d, <2>0 DEF RecordInv, BodyInv
    <2>2. last => \A e \in Drivers \ {d} : fdrec[e][k].body = None /\ fdctl[e][k] = {} /\ kernel[e][k] = None
      <3> SUFFICES ASSUME last, NEW e \in Drivers \ {d}
                   PROVE  fdrec[e][k].body = None /\ fdctl[e][k] = {} /\ kernel[e][k] = None
        OBVIOUS
      <3>1. fdrec[e][k].body = None BY <2>1 DEF RecordInv
      <3> QED BY <3>1 DEF RecordInv, KernelInv
    <2>3. body \in [Bodies -> BodyRecords] /\ body[b] \in BodyRecords BY DEF TypeOK
    <2>4. /\ ~body'[b].open /\ body'[b].drivers = body[b].drivers \ {d}
          /\ body'[b].base = (IF last THEN None ELSE k) /\ body'[b].ref = body[b].ref
          /\ body'[b].life = (IF last /\ body[b].ref = 0 THEN "deleted" ELSE body[b].life)
          /\ \A c \in Bodies \ {b} : body'[c] = body[c]
          /\ body' \in [Bodies -> BodyRecords]
      <3>1. PICK r : r = Left(b, d, LastListener(b, d) /\ ~body[b].open) OBVIOUS
      <3>2. PICK x, z : /\ x = (IF last THEN None ELSE k)
                        /\ z = (IF last /\ body[b].ref = 0 THEN "deleted" ELSE body[b].life)
        OBVIOUS
      <3>3. r = [body[b] EXCEPT !.drivers = body[b].drivers \ {d}, !.base = x, !.life = z]
        BY <2>0, <2>1, <3>1, <3>2 DEF Left, LastListener, Deletable
      <3>4. x \in Numbers \union {None} /\ z \in {"new", "live", "deleted"}
            /\ body[b].drivers \ {d} \in SUBSET Drivers
        BY <2>3, <3>2 DEF BodyRecords
      <3>5. /\ r \in BodyRecords /\ r.open = body[b].open /\ r.drivers = body[b].drivers \ {d}
            /\ r.base = x /\ r.ref = body[b].ref /\ r.life = z
        BY <2>3, <3>3, <3>4 DEF BodyRecords
      <3>6. body' = [body EXCEPT ![b] = r] BY <2>0, <3>1
      <3> HIDE DEF last
      <3> QED BY <2>0, <2>3, <3>2, <3>5, <3>6
    <2>5. /\ fdrec'[d][k].body = None /\ fdrec'[d][k].epoch = fdrec[d][k].epoch + 1
          /\ fdrec'[d][k].watches = {} /\ fdctl'[d][k] = {}
          /\ \A e \in Drivers, l \in Numbers : e # d \/ l # k =>
                fdrec'[e][l] = fdrec[e][l] /\ fdctl'[e][l] = fdctl[e][l]
      BY <2>0 DEF TypeOK
    <2>6. /\ last => os' = [os EXCEPT ![k] = None]
          /\ ~last => os' = os
          /\ kernel'[d][k] = None
          /\ \A e \in Drivers, l \in Numbers : e # d \/ l # k => kernel'[e][l] = kernel[e][l]
          /\ kernel' \in [Drivers -> [Numbers -> Registrations \union {None}]]
      <3>1. \A e \in Drivers : kernel[e] \in [Numbers -> Registrations \union {None}] BY DEF TypeOK
      <3>2. CASE last
        <4>1. /\ os' = [os EXCEPT ![k] = None]
              /\ kernel' = [e \in Drivers |-> [kernel[e] EXCEPT ![k] = None]]
          BY <2>0, <3>2 DEF OsClose, LastListener
        <4>2. \A e \in Drivers : kernel'[e] \in [Numbers -> Registrations \union {None}]
          BY <3>1, <4>1
        <4>3. \A e \in Drivers, l \in Numbers : kernel'[e][l] = IF l = k THEN None ELSE kernel[e][l]
          BY <3>1, <4>1
        <4> HIDE DEF last
        <4> QED BY <2>2, <3>2, <4>1, <4>2, <4>3
      <3>3. CASE ~last
        <4>1. kernel' = [kernel EXCEPT ![d][k] = None] /\ os' = os
          BY <2>0, <3>3 DEF LastListener
        <4> HIDE DEF last
        <4> QED BY <3>1, <3>3, <4>1 DEF TypeOK
      <3> QED BY <3>2, <3>3
    <2>7. ~failed'
      BY <2>0 DEF CtlFails, KernelInv
    <2>8. \A w \in Watches : watch'[w] = watch[w] \/ (watch[w].st = "pending" /\ watch'[w] = Done("closed"))
      BY <2>0
    <2>9. TypeOK'
      <3>1. fdrec' \in [Drivers -> [Numbers -> FdRecords]]
        <4>1. [body |-> None, epoch |-> fdrec[d][k].epoch + 1, watches |-> {}] \in FdRecords
          BY FieldTypes DEF FdRecords
        <4> QED BY <2>0, <4>1 DEF TypeOK
      <3>2. watch' \in [Watches -> WatchRecords]
        <4>1. Done("closed") \in WatchRecords BY DEF Done, WatchRecords
        <4> QED BY <2>0, <4>1 DEF TypeOK
      <3>3. os' \in [Numbers -> Bodies \union {None}] BY <2>6 DEF TypeOK
      <3>4. dirty' \in [Drivers -> SUBSET Numbers] /\ fdctl' \in [Drivers -> [Numbers -> SUBSET Kinds]]
        BY <2>0 DEF TypeOK
      <3>5. failed' \in BOOLEAN BY <2>0
      <3> QED BY <1>b, <1>e, <2>4, <2>6, <3>1, <3>2, <3>3, <3>4, <3>5 DEF TypeOK
    <2>10. BodyInv'
      <3>1. /\ body[b].life # "new" /\ body[b].life # "deleted" BY <1>d, <2>1 DEF BodyInv
      <3>2. ~last => body[b].drivers \ {d} # {} BY <2>1
      <3>3. \A c \in Bodies : body'[c].base # None => os'[body'[c].base] = c
        <4> SUFFICES ASSUME NEW c \in Bodies, body'[c].base # None PROVE os'[body'[c].base] = c
          OBVIOUS
        <4>1. CASE c = b BY <2>1, <2>4, <2>6, <4>1
        <4>2. CASE c # b
          <5>1. body'[c] = body[c] /\ body[c].base # k /\ os[body[c].base] = c BY <2>1, <2>4, <4>2 DEF BodyInv
          <5>2. body[c].base \in Numbers BY <5>1 DEF TypeOK, BodyRecords
          <5> HIDE DEF last
          <5> QED BY <2>6, <5>1, <5>2 DEF TypeOK
        <4> QED BY <4>1, <4>2
      <3> QED BY <2>4, <3>1, <3>2, <3>3 DEF BodyInv
    <2>11. RecordInv'
      <3>1. \A l \in Numbers : os'[l] # None => body'[os'[l]].base = l
        <4> SUFFICES ASSUME NEW l \in Numbers, os'[l] # None PROVE body'[os'[l]].base = l OBVIOUS
        <4>1. os'[l] = os[l] /\ (last => l # k) BY <2>6 DEF TypeOK
        <4>2. os[l] \in Bodies /\ body[os[l]].base = l BY <4>1, FieldTypes DEF RecordInv
        <4>3. CASE os[l] = b BY <2>1, <2>4, <4>1, <4>2, <4>3
        <4>4. CASE os[l] # b BY <2>4, <4>1, <4>2, <4>4
        <4> QED BY <4>3, <4>4
      <3>2. ASSUME NEW e \in Drivers, NEW l \in Numbers
            PROVE  /\ fdrec'[e][l].body = None => fdrec'[e][l].watches = {} /\ fdctl'[e][l] = {}
                   /\ fdrec'[e][l].body # None =>
                        os'[l] = fdrec'[e][l].body /\ e \in body'[fdrec'[e][l].body].drivers
        <4>1. CASE e = d /\ l = k BY <2>5, <4>1
        <4>2. CASE e # d /\ l = k
          <5>1. fdrec'[e][l] = fdrec[e][l] /\ fdctl'[e][l] = fdctl[e][l] BY <2>5, <4>2
          <5>2. fdrec[e][l].body # None => fdrec[e][l].body = b /\ ~last BY <2>1, <2>2, <4>2 DEF RecordInv
          <5> QED BY <2>4, <2>6, <4>2, <5>1, <5>2 DEF RecordInv
        <4>3. CASE l # k
          <5>1. fdrec'[e][l] = fdrec[e][l] /\ fdctl'[e][l] = fdctl[e][l] BY <2>5, <4>3
          <5>2. os'[l] = os[l] BY <2>6, <4>3 DEF TypeOK
          <5>3. fdrec[e][l].body # None => fdrec[e][l].body \in Bodies \ {b} BY <2>1, <4>3, FieldTypes DEF RecordInv
          <5> QED BY <2>4, <5>1, <5>2, <5>3 DEF RecordInv
        <4> QED BY <4>1, <4>2, <4>3
      <3>3. \A c \in Bodies : \A e \in body'[c].drivers : fdrec'[e][body'[c].base].body = c
        <4> TAKE c \in Bodies
        <4> TAKE e \in body'[c].drivers
        <4>1. e \in body[c].drivers /\ e \in Drivers BY <2>4 DEF TypeOK, BodyRecords
        <4>2. fdrec[e][body[c].base].body = c BY <4>1 DEF RecordInv
        <4>3. body[c].base \in Numbers BY <4>1 DEF BodyInv, TypeOK, BodyRecords
        <4>4. CASE c = b
          <5>1. e # d /\ ~last /\ body'[c].base = k BY <2>4, <4>4
          <5> QED BY <2>1, <2>5, <4>1, <4>2, <4>4, <5>1
        <4>5. CASE c # b BY <2>1, <2>4, <2>5, <4>1, <4>2, <4>3, <4>5
        <4> QED BY <4>4, <4>5
      <3> QED BY <3>1, <3>2, <3>3 DEF RecordInv
    <2>12. KernelInv'
      <3> SUFFICES ASSUME NEW e \in Drivers, NEW l \in Numbers
                   PROVE  /\ kernel'[e][l] = None <=> fdctl'[e][l] = {}
                          /\ kernel'[e][l] # None =>
                               kernel'[e][l].file = os'[l] /\ kernel'[e][l].epoch <= fdrec'[e][l].epoch
        BY DEF KernelInv
      <3>1. CASE e = d /\ l = k BY <2>5, <2>6, <3>1
      <3>2. CASE e # d \/ l # k
        <4>1. kernel'[e][l] = kernel[e][l] /\ fdctl'[e][l] = fdctl[e][l] /\ fdrec'[e][l] = fdrec[e][l]
          BY <2>5, <2>6, <3>2
        <4>2. kernel[e][l] # None => os'[l] = os[l]
          <5>1. CASE last /\ l = k BY <2>2, <3>2, <5>1
          <5>2. CASE ~(last /\ l = k) BY <2>6, <5>2 DEF TypeOK
          <5> QED BY <5>1, <5>2
        <4> QED BY <4>1, <4>2 DEF KernelInv
      <3> QED BY <3>1, <3>2
    <2>13. TaskInv'
      <3>1. \A e \in Drivers : Task(e).op \in {"watch", "sub", "close"} => Task(e).body \in Bodies
        BY TaskFacts DEF Tasks
      <3>2. \A e \in Drivers : Task(e).op = "watch" => Task(e).to \in Watches BY TaskFacts DEF Tasks
      <3>3. \A e \in Drivers : Task(e).op = "watch" =>
               body'[Task(e).body] = body[Task(e).body] /\ watch'[Task(e).to] = watch[Task(e).to]
        BY <2>0, <2>4, <2>8, <3>1, <3>2 DEF TaskInv
      <3>4. \A e \in Drivers : Task(e).op \in {"sub", "close"} => body'[Task(e).body].ref = body[Task(e).body].ref
        BY <2>4, <3>1
      <3>5. \A e \in Drivers : Task(e)' = Task(e) BY <1>b
      <3>6. \A e \in Drivers : Task(e)'.op = "watch" =>
            /\ body'[Task(e)'.body].open /\ body'[Task(e)'.body].base = Task(e)'.fd
            /\ watch'[Task(e)'.to].st = "adding" /\ watch'[Task(e)'.to].on = Task(e)'.body
        BY <3>3, <3>5 DEF TaskInv
      <3>7. \A e \in Drivers : /\ Using(e)' => held'[e][Task(e)'.body] > 0
                               /\ Task(e)'.op = "close" /\ Task(e)'.to # None => body'[Task(e)'.body].ref = 1
        BY <1>e, <3>4, <3>5 DEF TaskInv, Using
      <3>8. \A e, e2 \in Drivers : e # e2 =>
            /\ Task(e)'.op = "watch" /\ Task(e2)'.op = "watch" => Task(e)'.to # Task(e2)'.to
            /\ Task(e)'.op = "watch" /\ Task(e2)'.op = "close" => Task(e)'.body # Task(e2)'.body
        BY <3>5 DEF TaskInv
      <3> QED BY <3>6, <3>7, <3>8 DEF TaskInv
    <2>14. RefInv'
      <3>1. \A e \in Drivers, c \in Bodies : Dropping(e, c)' <=> Dropping(e, c) BY <1>b DEF Dropping
      <3>2. \A c \in Bodies : body'[c].ref = body[c].ref BY <2>4
      <3> QED BY <1>e, <3>1, <3>2, RefKeep DEF RefInv
    <2>15. WatchInv'
      <3> SUFFICES ASSUME NEW e \in Drivers, NEW l \in Numbers, NEW w \in fdrec'[e][l].watches
                   PROVE  /\ watch'[w].st \notin {"new", "adding"}
                          /\ watch'[w].st = "pending" => fdrec'[e][l].body = watch'[w].on
        BY DEF WatchInv
      <3>1. e # d \/ l # k BY <2>5
      <3>2. fdrec'[e][l] = fdrec[e][l] BY <2>5, <3>1
      <3>3. w \in Watches BY <3>2, FieldTypes
      <3> QED BY <2>8, <3>2, <3>3 DEF WatchInv, Done
    <2>16. EpochInv'
      <3> SUFFICES ASSUME NEW e \in Drivers, NEW i \in DOMAIN batch[e]
                   PROVE  LET ev == batch[e][i]
                          IN  /\ ev.epoch <= fdrec'[e][ev.fd].epoch
                              /\ ev.epoch = fdrec'[e][ev.fd].epoch => ev.file = fdrec'[e][ev.fd].body
        BY <1>e DEF EpochInv
      <3>1. batch[e][i] \in KernelEvents BY ElementOfSeq, LenProperties DEF TypeOK
      <3>2. batch[e][i].fd \in Numbers /\ batch[e][i].epoch \in Nat BY <3>1 DEF KernelEvents
      <3>3. fdrec[d][k].epoch \in Nat BY FieldTypes
      <3> QED BY <2>5, <3>2, <3>3 DEF EpochInv
    <2>17. ToldInv'
      <3> SUFFICES ASSUME NEW e \in Drivers, NEW l \in Numbers,
                          fdrec'[e][l].body # None, ~body'[fdrec'[e][l].body].open
                   PROVE  Told(e, l)'
        BY DEF ToldInv
      <3>1. (e # d \/ l # k) /\ fdrec'[e][l] = fdrec[e][l] BY <2>5
      <3>2. ~body[fdrec[e][l].body].open BY <2>0, <2>4, <3>1, FieldTypes
      <3>3. Told(e, l) BY <3>1, <3>2 DEF ToldInv
      <3>4. CASE \E i \in DOMAIN migrate[e] : migrate[e][i] = l BY <1>e, <3>4 DEF Told
      <3>5. CASE \E d2 \in Drivers : Sent(d2, e, l)
        <4>1. \E d2 \in Drivers : Sent(d2, e, l)' BY <1>b, <1>c, <3>1, <3>5
        <4> QED BY <4>1 DEF Told, Sent
      <3> QED BY <3>3, <3>4, <3>5 DEF Told, Sent
    <2> QED BY <1>b, <2>7, <2>9, <2>10, <2>11, <2>12, <2>13, <2>14, <2>15, <2>16, <2>17
  <1> QED BY <1>1, <1>2

\* apply_fd_update: the registrations follow the watches, and epochs only grow.
LEMMA ApplyUpdatesInv ==
    ASSUME FdAssumption, IInv, NEW d \in Drivers, ApplyUpdates(d)
    PROVE  IInv'
  <1> USE DEF IInv
  <1> DEFINE epoch(k) == IF WatchMask(d, k) = {} THEN fdrec[d][k].epoch + 1
                         ELSE AtLeast(fdrec[d][k].epoch, user_epoch)
             changed == {k \in dirty[d] : fdctl[d][k] # WatchMask(d, k)}
  <1>a. /\ jobs[d] = << >> /\ batch[d] = << >>
        /\ UNCHANGED <<os, body, held, batch, migrate, jobs, watch>>
        /\ dirty' = [dirty EXCEPT ![d] = {}]
    BY DEF ApplyUpdates, Idle, thread
  <1>b. /\ fdrec' = [fdrec EXCEPT ![d] = [k \in Numbers |->
              IF k \in dirty[d] THEN [fdrec[d][k] EXCEPT !.epoch = epoch(k)] ELSE fdrec[d][k]]]
        /\ failed' = (failed \/ \E k \in changed : CtlFails(d, k, fdctl[d][k], WatchMask(d, k)))
        /\ kernel' = [kernel EXCEPT ![d] = [k \in Numbers |->
              IF k \notin changed THEN kernel[d][k]
              ELSE IF WatchMask(d, k) = {} \/ os[k] = None THEN None
              ELSE [file |-> os[k], epoch |-> epoch(k), mask |-> WatchMask(d, k)]]]
        /\ fdctl' = [fdctl EXCEPT ![d] = [k \in Numbers |->
              IF k \in changed THEN WatchMask(d, k) ELSE fdctl[d][k]]]
    BY Zenon DEF ApplyUpdates
  <1>c. dirty[d] \subseteq Numbers BY DEF TypeOK
  <1>d. ASSUME NEW k \in Numbers
        PROVE  /\ WatchMask(d, k) \in SUBSET Kinds
               /\ WatchMask(d, k) # {} => os[k] \in Bodies /\ fdrec[d][k].body # None
               /\ epoch(k) \in Nat /\ epoch(k) >= fdrec[d][k].epoch
    <2>1. \A w \in fdrec[d][k].watches : watch[w].mask \in SUBSET Kinds
      BY FieldTypes DEF TypeOK, WatchRecords
    <2>2. WatchMask(d, k) \in SUBSET Kinds BY <2>1 DEF WatchMask
    <2>3. WatchMask(d, k) # {} => fdrec[d][k].watches # {} BY DEF WatchMask
    <2>4. fdrec[d][k].watches # {} => os[k] \in Bodies /\ fdrec[d][k].body # None
      BY FieldTypes DEF RecordInv
    <2>5. fdrec[d][k].epoch \in Nat BY FieldTypes
    <2>6. epoch(k) \in Nat /\ epoch(k) >= fdrec[d][k].epoch BY <2>5 DEF AtLeast, user_epoch
    <2> QED BY <2>2, <2>3, <2>4, <2>6
  <1> HIDE DEF epoch
  <1>e. ASSUME NEW k \in Numbers
        PROVE  /\ fdrec'[d][k].body = fdrec[d][k].body /\ fdrec'[d][k].watches = fdrec[d][k].watches
               /\ fdrec'[d][k].epoch = (IF k \in dirty[d] THEN epoch(k) ELSE fdrec[d][k].epoch)
               /\ fdrec'[d][k] \in FdRecords
    <2>1. fdrec[d][k] \in FdRecords /\ fdrec \in [Drivers -> [Numbers -> FdRecords]] BY DEF TypeOK
    <2>2. fdrec'[d][k] = IF k \in dirty[d] THEN [fdrec[d][k] EXCEPT !.epoch = epoch(k)] ELSE fdrec[d][k]
      BY <1>b, <2>1
    <2>3. epoch(k) \in Nat BY <1>d
    <2> QED BY <2>1, <2>2, <2>3 DEF FdRecords
  <1>f. \A e \in Drivers \ {d} : fdrec'[e] = fdrec[e] /\ kernel'[e] = kernel[e] /\ fdctl'[e] = fdctl[e]
    BY <1>b DEF TypeOK
  <1>g. ASSUME NEW k \in Numbers
        PROVE  /\ k \notin changed => kernel'[d][k] = kernel[d][k] /\ fdctl'[d][k] = fdctl[d][k]
               /\ k \in changed => fdctl'[d][k] = WatchMask(d, k)
               /\ k \in changed /\ WatchMask(d, k) = {} => kernel'[d][k] = None
               /\ k \in changed /\ WatchMask(d, k) # {} =>
                     kernel'[d][k] = [file |-> os[k], epoch |-> epoch(k), mask |-> WatchMask(d, k)]
    <2> HIDE DEF changed
    <2>1. /\ kernel'[d][k] = IF k \notin changed THEN kernel[d][k]
                             ELSE IF WatchMask(d, k) = {} \/ os[k] = None THEN None
                             ELSE [file |-> os[k], epoch |-> epoch(k), mask |-> WatchMask(d, k)]
          /\ fdctl'[d][k] = IF k \in changed THEN WatchMask(d, k) ELSE fdctl[d][k]
      BY <1>b DEF TypeOK
    <2>2. WatchMask(d, k) # {} => os[k] # None BY <1>d DEF FdAssumption
    <2> QED BY <2>1, <2>2
  <1>h. changed \subseteq dirty[d] /\ \A k \in changed : fdctl[d][k] # WatchMask(d, k) OBVIOUS
  <1> HIDE DEF changed
  <1>i. ~failed'
    <2> SUFFICES ASSUME NEW k \in changed, CtlFails(d, k, fdctl[d][k], WatchMask(d, k)) PROVE FALSE
      BY <1>b
    <2>1. k \in Numbers BY <1>c, <1>h
    <2>2. kernel[d][k] = None <=> fdctl[d][k] = {} BY <2>1 DEF KernelInv
    <2>3. WatchMask(d, k) # {} => os[k] # None BY <1>d, <2>1 DEF FdAssumption
    <2> QED BY <2>2, <2>3 DEF CtlFails
  <1>j. ASSUME NEW k \in Numbers PROVE kernel'[d][k] \in Registrations \union {None} /\ fdctl'[d][k] \in SUBSET Kinds
    <2>1. CASE k \notin changed
      <3>1. kernel'[d][k] = kernel[d][k] /\ fdctl'[d][k] = fdctl[d][k] BY <1>g, <2>1
      <3> QED BY <3>1 DEF TypeOK
    <2>2. CASE k \in changed /\ WatchMask(d, k) = {} BY <1>g, <2>2
    <2>3. CASE k \in changed /\ WatchMask(d, k) # {}
      <3>1. os[k] \in Bodies /\ epoch(k) \in Nat /\ WatchMask(d, k) \in Masks BY <1>d, <2>3 DEF Masks
      <3>2. [file |-> os[k], epoch |-> epoch(k), mask |-> WatchMask(d, k)] \in Registrations
        BY <3>1 DEF Registrations
      <3> QED BY <1>d, <1>g, <2>3, <3>2
    <2> QED BY <2>1, <2>2, <2>3
  <1>1. TypeOK'
    <2>1. fdrec' \in [Drivers -> [Numbers -> FdRecords]]
      <3>1. fdrec'[d] \in [Numbers -> FdRecords]
        <4>1. fdrec'[d] = [k \in Numbers |->
                 IF k \in dirty[d] THEN [fdrec[d][k] EXCEPT !.epoch = epoch(k)] ELSE fdrec[d][k]]
          BY <1>b DEF TypeOK
        <4> QED BY <1>e, <4>1
      <3>2. fdrec' = [fdrec EXCEPT ![d] = fdrec'[d]] BY <1>b DEF TypeOK
      <3> QED BY <3>1, <3>2 DEF TypeOK
    <2>2. kernel' \in [Drivers -> [Numbers -> Registrations \union {None}]]
      <3>1. kernel'[d] \in [Numbers -> Registrations \union {None}]
        <4>1. kernel'[d] = [k \in Numbers |->
              IF k \notin changed THEN kernel[d][k]
              ELSE IF WatchMask(d, k) = {} \/ os[k] = None THEN None
              ELSE [file |-> os[k], epoch |-> epoch(k), mask |-> WatchMask(d, k)]]
          BY <1>b DEF TypeOK
        <4> QED BY <1>j, <4>1
      <3>2. kernel' = [kernel EXCEPT ![d] = kernel'[d]] BY <1>b DEF TypeOK
      <3> QED BY <3>1, <3>2 DEF TypeOK
    <2>3. fdctl' \in [Drivers -> [Numbers -> SUBSET Kinds]]
      <3>1. fdctl'[d] \in [Numbers -> SUBSET Kinds]
        <4>1. fdctl'[d] = [k \in Numbers |-> IF k \in changed THEN WatchMask(d, k) ELSE fdctl[d][k]]
          BY <1>b DEF TypeOK
        <4> QED BY <1>j, <4>1
      <3>2. fdctl' = [fdctl EXCEPT ![d] = fdctl'[d]] BY <1>b DEF TypeOK
      <3> QED BY <3>1, <3>2 DEF TypeOK
    <2>4. dirty' \in [Drivers -> SUBSET Numbers] BY <1>a DEF TypeOK
    <2>5. failed' \in BOOLEAN BY <1>b
    <2> QED BY <1>a, <2>1, <2>2, <2>3, <2>4, <2>5 DEF TypeOK
  <1>2. JobInv' /\ \A e \in Drivers : Task(e)' = Task(e) BY <1>a DEF JobInv, Task
  <1>3. BodyInv' BY <1>a DEF BodyInv
  <1>k. \A e \in Drivers, k \in Numbers :
           fdrec'[e][k].body = fdrec[e][k].body /\ fdrec'[e][k].watches = fdrec[e][k].watches
    BY <1>e, <1>f
  <1>4. RecordInv'
    <2>1. ASSUME NEW e \in Drivers, NEW k \in Numbers, fdrec[e][k].body = None PROVE fdctl'[e][k] = {}
      <3>1. fdctl[e][k] = {} BY <2>1 DEF RecordInv
      <3>2. e = d => WatchMask(d, k) = {} BY <1>d, <2>1
      <3>3. CASE e # d BY <1>f, <3>1, <3>3
      <3>4. CASE e = d /\ k \in changed BY <1>g, <3>2, <3>4
      <3>5. CASE e = d /\ k \notin changed BY <1>g, <3>1, <3>5
      <3> QED BY <3>3, <3>4, <3>5
    <2>2. \A b \in Bodies : \A e \in body[b].drivers : e \in Drivers /\ body[b].base \in Numbers
      BY DEF BodyInv, TypeOK, BodyRecords
    <2> QED BY <1>a, <1>k, <2>1, <2>2 DEF RecordInv
  <1>5. KernelInv'
    <2> SUFFICES ASSUME NEW e \in Drivers, NEW k \in Numbers
                 PROVE  /\ kernel'[e][k] = None <=> fdctl'[e][k] = {}
                        /\ kernel'[e][k] # None =>
                             kernel'[e][k].file = os[k] /\ kernel'[e][k].epoch <= fdrec'[e][k].epoch
      BY <1>a DEF KernelInv
    <2>1. CASE e # d BY <1>f, <2>1 DEF KernelInv
    <2>2. CASE e = d /\ k \notin changed
      <3>1. kernel'[e][k] = kernel[e][k] /\ fdctl'[e][k] = fdctl[e][k] BY <1>g, <2>2
      <3>2. fdrec'[e][k].epoch >= fdrec[e][k].epoch /\ fdrec'[e][k].epoch \in Nat /\ fdrec[e][k].epoch \in Nat
        BY <1>d, <1>e, <2>2, FieldTypes
      <3>3. kernel[e][k] # None => kernel[e][k].epoch \in Nat BY FieldTypes
      <3> QED BY <3>1, <3>2, <3>3 DEF KernelInv
    <2>3. CASE e = d /\ k \in changed /\ WatchMask(d, k) = {} BY <1>g, <2>3
    <2>4. CASE e = d /\ k \in changed /\ WatchMask(d, k) # {}
      <3>1. kernel'[e][k] = [file |-> os[k], epoch |-> epoch(k), mask |-> WatchMask(d, k)] BY <1>g, <2>4
      <3>2. kernel'[e][k] # None
        <4>1. os[k] \in Bodies /\ epoch(k) \in Nat /\ WatchMask(d, k) \in Masks BY <1>d, <2>4 DEF Masks
        <4>2. kernel'[e][k] \in Registrations BY <3>1, <4>1 DEF Registrations
        <4> QED BY <4>2 DEF FdAssumption
      <3>3. fdrec'[e][k].epoch = epoch(k) /\ epoch(k) \in Nat BY <1>d, <1>e, <1>h, <2>4
      <3> QED BY <1>g, <2>4, <3>1, <3>2, <3>3
    <2> QED BY <2>1, <2>2, <2>3, <2>4
  <1>6. TaskInv' BY <1>a, <1>2 DEF TaskInv, Using
  <1>7. RefInv'
    <2>1. \A e \in Drivers, b \in Bodies : Dropping(e, b)' <=> Dropping(e, b) BY <1>2 DEF Dropping
    <2> QED BY <1>a, <2>1, RefKeep DEF RefInv
  <1>8. WatchInv' BY <1>a, <1>k DEF WatchInv
  <1>9. EpochInv'
    <2> SUFFICES ASSUME NEW e \in Drivers, NEW i \in DOMAIN batch[e]
                 PROVE  LET ev == batch[e][i]
                        IN  /\ ev.epoch <= fdrec'[e][ev.fd].epoch
                            /\ ev.epoch = fdrec'[e][ev.fd].epoch => ev.file = fdrec'[e][ev.fd].body
      BY <1>a DEF EpochInv
    <2>1. e # d BY <1>a
    <2> QED BY <1>f, <2>1 DEF EpochInv
  <1>10. ToldInv'
    <2>1. \A e \in Drivers, k \in Numbers : Told(e, k)' <=> Told(e, k) BY <1>a DEF Told
    <2> QED BY <1>a, <1>k, <2>1 DEF ToldInv
  <1> QED BY <1>1, <1>2, <1>3, <1>4, <1>5, <1>6, <1>7, <1>8, <1>9, <1>10, <1>i

\* epoll_wait: a registration is of the file that the record stands for.
LEMMA EpollWaitInv ==
    ASSUME FdAssumption, IInv, NEW d \in Drivers, EpollWait(d)
    PROVE  IInv'
  <1> USE DEF IInv
  <1>a. UNCHANGED <<os, body, held, fdrec, dirty, fdctl, kernel, migrate, jobs, watch, failed>>
    BY Zenon DEF EpollWait, kset
  <1>0. PICK ready \in SUBSET {k \in Numbers : kernel[d][k] # None} : \E got \in [ready -> Masks] :
          /\ ready # {}
          /\ \A k \in ready : got[k] \subseteq kernel[d][k].mask \/ got[k] = Kinds
          /\ \E fds \in SetToSeqs(ready) :
                batch' = [batch EXCEPT ![d] = [i \in DOMAIN fds |->
                   [fd |-> fds[i], file |-> kernel[d][fds[i]].file,
                    epoch |-> kernel[d][fds[i]].epoch, mask |-> got[fds[i]]]]]
    BY Zenon DEF EpollWait
  <1>1. PICK got \in [ready -> Masks], fds \in SetToSeqs(ready) :
          batch' = [batch EXCEPT ![d] = [i \in DOMAIN fds |->
             [fd |-> fds[i], file |-> kernel[d][fds[i]].file,
              epoch |-> kernel[d][fds[i]].epoch, mask |-> got[fds[i]]]]]
    BY <1>0
  <1>2. IsFiniteSet(ready) BY FS_Subset DEF FdAssumption
  <1>3. fds \in Seq(ready) BY <1>2, SetToSeqsFacts
  <1>4. Len(fds) \in Nat /\ DOMAIN fds = 1..Len(fds) /\ \A i \in DOMAIN fds : fds[i] \in ready
    BY <1>3, LenProperties, ElementOfSeq
  <1>5. PICK s : s = [i \in DOMAIN fds |->
             [fd |-> fds[i], file |-> kernel[d][fds[i]].file,
              epoch |-> kernel[d][fds[i]].epoch, mask |-> got[fds[i]]]]
    OBVIOUS
  <1>6. batch'[d] = s /\ (\A e \in Drivers \ {d} : batch'[e] = batch[e]) /\ batch' = [batch EXCEPT ![d] = s]
    BY <1>1, <1>5 DEF TypeOK
  <1>7. ASSUME NEW i \in DOMAIN s
        PROVE  /\ s[i] \in KernelEvents
               /\ s[i].epoch <= fdrec[d][s[i].fd].epoch /\ s[i].file = fdrec[d][s[i].fd].body
    <2>1. PICK k \in ready : k = fds[i] BY <1>4, <1>5
    <2>2. k \in Numbers /\ kernel[d][k] # None BY <2>1
    <2>3. s[i] = [fd |-> k, file |-> kernel[d][k].file, epoch |-> kernel[d][k].epoch, mask |-> got[k]]
      BY <1>5, <2>1
    <2>4. kernel[d][k].file \in Bodies /\ kernel[d][k].epoch \in Nat /\ got[k] \in Masks
      BY <2>1, <2>2, FieldTypes
    <2>5. fdctl[d][k] # {} /\ kernel[d][k].file = os[k] /\ kernel[d][k].epoch <= fdrec[d][k].epoch
      BY <2>2 DEF KernelInv
    <2>6. fdrec[d][k].body = os[k] BY <2>2, <2>5 DEF RecordInv
    <2> QED BY <2>2, <2>3, <2>4, <2>5, <2>6 DEF KernelEvents
  <1>8. TypeOK'
    <2>1. DOMAIN s = 1..Len(fds) BY <1>4, <1>5
    <2>2. s = [i \in 1..Len(fds) |-> s[i]] BY <1>5, <2>1
    <2>3. s \in Seq(KernelEvents) BY <1>4, <1>7, <2>1, <2>2
    <2> QED BY <1>6, <1>a, <2>3 DEF TypeOK
  <1>9. JobInv' /\ \A e \in Drivers : Task(e)' = Task(e) BY <1>a DEF JobInv, Task
  <1>10. BodyInv' /\ RecordInv' /\ KernelInv' /\ WatchInv' BY <1>a DEF BodyInv, RecordInv, KernelInv, WatchInv
  <1>11. TaskInv' BY <1>a, <1>9 DEF TaskInv, Using
  <1>12. RefInv'
    <2>1. \A e \in Drivers, b \in Bodies : Dropping(e, b)' <=> Dropping(e, b) BY <1>9 DEF Dropping
    <2> QED BY <1>a, <2>1, RefKeep DEF RefInv
  <1>13. EpochInv'
    <2> SUFFICES ASSUME NEW e \in Drivers, NEW i \in DOMAIN batch'[e]
                 PROVE  LET ev == batch'[e][i]
                        IN  /\ ev.epoch <= fdrec[e][ev.fd].epoch
                            /\ ev.epoch = fdrec[e][ev.fd].epoch => ev.file = fdrec[e][ev.fd].body
      BY <1>a DEF EpochInv
    <2>1. CASE e = d BY <1>6, <1>7, <2>1
    <2>2. CASE e # d BY <1>6, <2>2 DEF EpochInv
    <2> QED BY <2>1, <2>2
  <1>14. ToldInv'
    <2>1. \A e \in Drivers, k \in Numbers : Told(e, k)' <=> Told(e, k) BY <1>a DEF Told
    <2> QED BY <1>a, <2>1 DEF ToldInv
  <1> QED BY <1>8, <1>9, <1>10, <1>11, <1>12, <1>13, <1>14, <1>a

\* An event of the batch is processed: some watches leave a list and trigger.
LEMMA ProcessInv ==
    ASSUME FdAssumption, IInv, NEW d \in Drivers, Process(d)
    PROVE  IInv'
  <1> USE DEF IInv
  <1>a. /\ batch[d] # << >> /\ batch' = [batch EXCEPT ![d] = Tail(@)]
        /\ UNCHANGED <<os, body, held, fdctl, kernel, migrate, jobs, failed>>
    BY Zenon DEF Process
  <1>b. batch[d] \in Seq(KernelEvents) BY DEF TypeOK
  <1>c. PICK k \in Numbers : k = Head(batch[d]).fd 
    <2>1. Head(batch[d]) \in KernelEvents BY <1>a, <1>b, HeadTailProperties
    <2> QED BY <2>1 DEF KernelEvents
  <1>d. /\ Tail(batch[d]) \in Seq(KernelEvents)
        /\ \A i \in DOMAIN Tail(batch[d]) : i + 1 \in DOMAIN batch[d] /\ Tail(batch[d])[i] = batch[d][i + 1]
    BY <1>a, <1>b, HeadTailProperties, LenProperties
  <1>e. batch'[d] = Tail(batch[d]) /\ \A e \in Drivers \ {d} : batch'[e] = batch[e] BY <1>a DEF TypeOK
  <1>0. PICK taken \in SUBSET Watches :
          \/ /\ fdrec' = [fdrec EXCEPT ![d][k].watches = @ \ taken]
             /\ dirty' = [dirty EXCEPT ![d] = @ \union {k}]
             /\ watch' = [w \in Watches |->
                   IF w \in taken /\ watch[w].st = "pending" THEN Done("ready") ELSE watch[w]]
          \/ UNCHANGED <<fdrec, dirty, watch>>
    <2> DEFINE t == {w \in fdrec[d][Head(batch[d]).fd].watches :
                       watch[w].st = "dropped" \/ watch[w].mask \intersect Head(batch[d]).mask # {}}
    <2>1. \/ /\ fdrec' = [fdrec EXCEPT ![d][Head(batch[d]).fd].watches = @ \ t]
             /\ dirty' = [dirty EXCEPT ![d] = @ \union {Head(batch[d]).fd}]
             /\ watch' = [w \in Watches |->
                   IF w \in t /\ watch[w].st = "pending" THEN Done("ready") ELSE watch[w]]
          \/ UNCHANGED <<fdrec, dirty, watch>>
      BY Zenon DEF Process
    <2>2. t \in SUBSET Watches BY <1>c, FieldTypes
    <2> HIDE DEF t
    <2>3. \/ /\ fdrec' = [fdrec EXCEPT ![d][k].watches = @ \ t]
             /\ dirty' = [dirty EXCEPT ![d] = @ \union {k}]
             /\ watch' = [w \in Watches |->
                   IF w \in t /\ watch[w].st = "pending" THEN Done("ready") ELSE watch[w]]
          \/ UNCHANGED <<fdrec, dirty, watch>>
      BY <1>c, <2>1, Zenon
    <2> QED BY <2>2, <2>3, Zenon
  <1>1. /\ \A e \in Drivers, l \in Numbers :
              /\ fdrec'[e][l].body = fdrec[e][l].body /\ fdrec'[e][l].epoch = fdrec[e][l].epoch
              /\ fdrec'[e][l].watches \subseteq fdrec[e][l].watches
        /\ fdrec' \in [Drivers -> [Numbers -> FdRecords]]
    <2>1. CASE UNCHANGED <<fdrec, dirty, watch>> BY <2>1 DEF TypeOK
    <2>2. CASE fdrec' = [fdrec EXCEPT ![d][k].watches = @ \ taken]
      <3>1. fdrec[d][k] \in FdRecords /\ fdrec \in [Drivers -> [Numbers -> FdRecords]] BY DEF TypeOK
      <3>2. PICK r : r = [fdrec[d][k] EXCEPT !.watches = fdrec[d][k].watches \ taken] OBVIOUS
      <3>3. /\ r \in FdRecords /\ r.body = fdrec[d][k].body /\ r.epoch = fdrec[d][k].epoch
            /\ r.watches = fdrec[d][k].watches \ taken
        BY <3>1, <3>2 DEF FdRecords
      <3>4. fdrec' = [fdrec EXCEPT ![d][k] = r] BY <2>2, <3>1, <3>2
      <3> QED BY <3>1, <3>3, <3>4
    <2> QED BY <1>0, <2>1, <2>2
  <1>2. /\ \A w \in Watches : watch'[w] = watch[w] \/ (watch[w].st = "pending" /\ watch'[w] = Done("ready"))
        /\ watch' \in [Watches -> WatchRecords] /\ dirty' \in [Drivers -> SUBSET Numbers]
    <2>1. Done("ready") \in WatchRecords BY DEF Done, WatchRecords
    <2>2. CASE UNCHANGED <<fdrec, dirty, watch>> BY <2>2 DEF TypeOK
    <2>3. CASE /\ dirty' = [dirty EXCEPT ![d] = @ \union {k}]
               /\ watch' = [w \in Watches |->
                     IF w \in taken /\ watch[w].st = "pending" THEN Done("ready") ELSE watch[w]]
      <3>1. dirty' \in [Drivers -> SUBSET Numbers] BY <2>3 DEF TypeOK
      <3>2. watch' \in [Watches -> WatchRecords] BY <2>1, <2>3 DEF TypeOK
      <3> QED BY <2>3, <3>1, <3>2
    <2> QED BY <1>0, <2>2, <2>3
  <1>3. TypeOK' BY <1>1, <1>2, <1>a, <1>d DEF TypeOK
  <1>4. JobInv' /\ \A e \in Drivers : Task(e)' = Task(e) BY <1>a DEF JobInv, Task
  <1>5. BodyInv' BY <1>a DEF BodyInv
  <1>6. RecordInv'
    <2>1. \A b \in Bodies : \A e \in body[b].drivers : e \in Drivers /\ body[b].base \in Numbers
      BY DEF BodyInv, TypeOK, BodyRecords
    <2>2. \A e \in Drivers, l \in Numbers : fdrec[e][l].watches = {} => fdrec'[e][l].watches = {} BY <1>1
    <2>3. \A e \in Drivers, l \in Numbers : fdrec'[e][l].body = fdrec[e][l].body BY <1>1
    <2>4. \A e \in Drivers, l \in Numbers :
             /\ fdrec'[e][l].body = None => fdrec'[e][l].watches = {} /\ fdctl'[e][l] = {}
             /\ fdrec'[e][l].body # None =>
                  os'[l] = fdrec'[e][l].body /\ e \in body'[fdrec'[e][l].body].drivers
      BY <1>a, <2>2, <2>3 DEF RecordInv
    <2>5. \A b \in Bodies : \A e \in body'[b].drivers : fdrec'[e][body'[b].base].body = b
      BY <1>a, <2>1, <2>3 DEF RecordInv
    <2> QED BY <1>a, <2>4, <2>5 DEF RecordInv
  <1>7. KernelInv' BY <1>1, <1>a DEF KernelInv
  <1>8. TaskInv'
    <2>1. \A e \in Drivers : Task(e).op = "watch" => watch'[Task(e).to] = watch[Task(e).to]
      BY <1>2, TaskFacts DEF TaskInv, Tasks
    <2> QED BY <1>4, <1>a, <2>1 DEF TaskInv, Using
  <1>9. RefInv'
    <2>1. \A e \in Drivers, b \in Bodies : Dropping(e, b)' <=> Dropping(e, b) BY <1>4 DEF Dropping
    <2> QED BY <1>a, <2>1, RefKeep DEF RefInv
  <1>10. WatchInv'
    <2> SUFFICES ASSUME NEW e \in Drivers, NEW l \in Numbers, NEW w \in fdrec'[e][l].watches
                 PROVE  /\ watch'[w].st \notin {"new", "adding"}
                        /\ watch'[w].st = "pending" => fdrec'[e][l].body = watch'[w].on
      BY DEF WatchInv
    <2>1. w \in fdrec[e][l].watches /\ w \in Watches BY <1>1, FieldTypes
    <2> QED BY <1>1, <1>2, <2>1 DEF WatchInv, Done
  <1>11. EpochInv'
    <2> SUFFICES ASSUME NEW e \in Drivers, NEW i \in DOMAIN batch'[e]
                 PROVE  LET ev == batch'[e][i]
                        IN  /\ ev.epoch <= fdrec'[e][ev.fd].epoch
                            /\ ev.epoch = fdrec'[e][ev.fd].epoch => ev.file = fdrec'[e][ev.fd].body
      BY DEF EpochInv
    <2>1. PICK j \in DOMAIN batch[e] : batch'[e][i] = batch[e][j] BY <1>d, <1>e
    <2>2. batch[e][j] \in KernelEvents BY ElementOfSeq, LenProperties DEF TypeOK
    <2>3. batch[e][j].fd \in Numbers BY <2>2 DEF KernelEvents
    <2>4. PICK l \in Numbers : l = batch[e][j].fd BY <2>3
    <2>5. fdrec'[e][l].epoch = fdrec[e][l].epoch /\ fdrec'[e][l].body = fdrec[e][l].body BY <1>1
    <2>6. /\ batch[e][j].epoch <= fdrec[e][l].epoch
          /\ batch[e][j].epoch = fdrec[e][l].epoch => batch[e][j].file = fdrec[e][l].body
      BY <2>4 DEF EpochInv
    <2> QED BY <2>1, <2>4, <2>5, <2>6
  <1>12. ToldInv'
    <2>1. \A e \in Drivers, l \in Numbers : Told(e, l)' <=> Told(e, l) BY <1>a DEF Told
    <2> QED BY <1>1, <1>a, <2>1 DEF ToldInv
  <1> QED BY <1>3, <1>4, <1>5, <1>6, <1>7, <1>8, <1>9, <1>10, <1>11, <1>12, <1>a

-----------------------------------------------------------------------------
(* The invariant holds always, and what follows from it. *)

LEMMA InitIInv ==
    ASSUME FdAssumption, Init
    PROVE  IInv
  <1> USE DEF Init
  <1>1. TypeOK
    <2>1. [open |-> FALSE, base |-> None, ref |-> 0, drivers |-> {}, life |-> "new"] \in BodyRecords
      BY DEF BodyRecords
    <2>2. [body |-> None, epoch |-> 0, watches |-> {}] \in FdRecords BY DEF FdRecords
    <2>3. [st |-> "new", on |-> None, mask |-> {}] \in WatchRecords BY DEF WatchRecords
    <2>4. /\ body \in [Bodies -> BodyRecords] /\ fdrec \in [Drivers -> [Numbers -> FdRecords]]
          /\ watch \in [Watches -> WatchRecords]
      BY <2>1, <2>2, <2>3
    <2>5. /\ os \in [Numbers -> Bodies \union {None}] /\ held \in [Drivers -> [Bodies -> Nat]]
          /\ dirty \in [Drivers -> SUBSET Numbers] /\ fdctl \in [Drivers -> [Numbers -> SUBSET Kinds]]
          /\ kernel \in [Drivers -> [Numbers -> Registrations \union {None}]] /\ failed \in BOOLEAN
      OBVIOUS
    <2>6. /\ batch \in [Drivers -> Seq(KernelEvents)] /\ migrate \in [Drivers -> Seq(Numbers)]
          /\ jobs \in [Drivers -> Seq(Jobs)]
      OBVIOUS
    <2> QED BY <2>4, <2>5, <2>6 DEF TypeOK
  <1>2. JobInv /\ \A d \in Drivers : Task(d) = NoTask
    <2>1. \A d \in Drivers : jobs[d] = << >> OBVIOUS
    <2>2. << >> \in Seq(Notices) /\ DOMAIN << >> = {} OBVIOUS
    <2> QED BY <2>1, <2>2 DEF JobInv, Task
  <1>3. NoTask.op = "none" /\ NoTask.body = None BY DEF NoTask, Job
  <1>4. BodyInv /\ RecordInv /\ KernelInv /\ WatchInv /\ ToldInv
    BY DEF BodyInv, RecordInv, KernelInv, WatchInv, ToldInv
  <1>5. TaskInv BY <1>2, <1>3 DEF TaskInv, Using
  <1>6. RefInv
    <2> SUFFICES ASSUME NEW b \in Bodies
                 PROVE  IsFiniteSet(References(b)) /\ body[b].ref = Cardinality(References(b))
      BY DEF RefInv
    <2>1. \A e \in Drivers : ~Dropping(e, b) BY <1>2, <1>3 DEF Dropping
    <2>2. ASSUME NEW e \in Drivers, NEW n \in Nat PROVE <<e, n>> \notin References(b)
      <3>1. held[e][b] = 0 OBVIOUS
      <3> QED BY <2>1, <3>1, ReferencesIn
    <2>3. References(b) = {} BY <2>2 DEF References
    <2>4. body[b].ref = 0 OBVIOUS
    <2> QED BY <2>3, <2>4, FS_EmptySet
  <1>7. EpochInv
    <2>1. \A d \in Drivers : DOMAIN batch[d] = {} OBVIOUS
    <2> QED BY <2>1 DEF EpochInv
  <1> QED BY <1>1, <1>2, <1>4, <1>5, <1>6, <1>7 DEF IInv

LEMMA StutterIInv ==
    ASSUME IInv, UNCHANGED vars
    PROVE  IInv'
  <1> USE DEF IInv, vars, kset, thread
  <1>1. TypeOK' /\ JobInv' BY DEF TypeOK, JobInv
  <1>2. \A e \in Drivers : Task(e)' = Task(e) BY DEF Task
  <1>3. BodyInv' /\ RecordInv' /\ KernelInv' BY DEF BodyInv, RecordInv, KernelInv
  <1>4. TaskInv' BY <1>2 DEF TaskInv, Using
  <1>5. RefInv'
    <2>1. \A e \in Drivers, b \in Bodies : Dropping(e, b)' <=> Dropping(e, b) BY <1>2 DEF Dropping
    <2> QED BY <2>1, RefKeep DEF RefInv
  <1>6. WatchInv' /\ EpochInv' BY DEF WatchInv, EpochInv
  <1>7. ToldInv' BY DEF ToldInv, Told
  <1> QED BY <1>1, <1>3, <1>4, <1>5, <1>6, <1>7

LEMMA NextIInv ==
    ASSUME FdAssumption, Serial, IInv, [Next]_vars
    PROVE  IInv'
  <1>1. ASSUME NEW d \in Drivers, Use(d) PROVE IInv'
    BY <1>1, OpenInv, CopyInv, WatchBeginInv, CloseInv, DerefInv DEF Use
  <1>2. ASSUME NEW d \in Drivers, Finish(d) PROVE IInv'
    BY <1>2, WatchAddInv, DerefSubInv, CloseBodyInv, PostInv, NotifyCloseInv DEF Finish
  <1>3. ASSUME NEW d \in Drivers, Loop(d) \/ EpollWait(d) PROVE IInv'
    BY <1>3, ImportInv, ApplyUpdatesInv, ProcessInv, EpollWaitInv DEF Loop
  <1>4. CASE UNCHANGED vars BY <1>4, StutterIInv
  <1> QED BY <1>1, <1>2, <1>3, <1>4, ForgetInv DEF Next

LEMMA IInvAlways ==
    ASSUME Serial
    PROVE  Spec => []IInv
  <1>1. Init => IInv BY InitIInv, FdAssumption
  <1>2. IInv /\ [Next]_vars => IInv' BY NextIInv, FdAssumption
  <1> QED BY <1>1, <1>2, PTL DEF Spec

\* The bodies, the records, the queues and the watches keep their types, however
\* many threads share the descriptors.
THEOREM FdTypeCorrect ==
    ASSUME Serial
    PROVE  Spec => []TypeOK
  <1>1. IInv => TypeOK BY DEF IInv
  <1> QED BY <1>1, IInvAlways, PTL

\* No epoll_ctl of any driver fails, and no record meets a second open body
\* (io.cc:73).
THEOREM FdCtlNeverFails ==
    ASSUME Serial
    PROVE  Spec => []CtlNeverFails
  <1>1. IInv => CtlNeverFails BY DEF IInv, CtlNeverFails
  <1> QED BY <1>1, IInvAlways, PTL

\* As long as a driver has a closed body in its table, the notice that makes it let
\* go and wake the watchers is on its way.
THEOREM FdClosedWakes ==
    ASSUME Serial
    PROVE  Spec => []ClosedWakes
  <1>1. IInv => ClosedWakes BY DEF IInv, WatchInv, ToldInv, ClosedWakes
  <1> QED BY <1>1, IInvAlways, PTL

\* A deleted body is out of use: no thread holds it or is about to act on it, no
\* driver listens to it, however its copies are dropped and closed.
THEOREM FdInUseAlive ==
    ASSUME Serial
    PROVE  Spec => []InUseAlive
  <1>1. ASSUME IInv PROVE InUseAlive
    <2> USE DEF IInv
    <2>1. FdAssumption /\ None \notin Bodies BY FdAssumption DEF FdAssumption
    <2>2. ASSUME NEW b \in Bodies, body[b].life = "deleted", NEW d \in Drivers
          PROVE  /\ held[d][b] = 0 /\ \A i \in DOMAIN jobs[d] : jobs[d][i].body # b
                 /\ \A k \in Numbers : fdrec[d][k].body # b
      <3>1. body[b].ref = 0 /\ body[b].base = None /\ body[b].drivers = {}
        BY <1>1, <2>2 DEF BodyInv
      <3>2. held[d][b] = 0 /\ ~Dropping(d, b)
        <4>1. References(b) = {} BY <1>1, <3>1, RefFacts
        <4>2. held[d][b] \in Nat /\ ~(held[d][b] > 0) /\ ~Dropping(d, b) BY <1>1, <4>1, RefFacts
        <4> QED BY <4>2
      <3>3. ASSUME NEW i \in DOMAIN jobs[d] PROVE jobs[d][i].body # b
        <4>1. CASE Task(d) = NoTask
          <5>1. jobs[d] \in Seq(Notices) BY <1>1, <2>1, <4>1, TaskFacts
          <5>2. jobs[d][i] \in Notices BY <5>1, ElementOfSeq, LenProperties
          <5> QED BY <2>1, <5>2 DEF Notices
        <4>2. CASE Task(d) # NoTask
          <5>1. Task(d) \in Tasks /\ jobs[d] = <<Task(d)>> BY <1>1, <2>1, <4>2, TaskFacts
          <5>2. jobs[d][i] = Task(d) BY <5>1
          <5>3. Task(d).body = b => Dropping(d, b) \/ Using(d) BY <5>1 DEF Tasks, Dropping, Using
          <5>4. Using(d) => Task(d).body # b BY <1>1, <3>2 DEF TaskInv
          <5> QED BY <3>2, <5>2, <5>3, <5>4
        <4> QED BY <4>1, <4>2
      <3>4. \A k \in Numbers : fdrec[d][k].body # b BY <1>1, <2>1, <3>1 DEF RecordInv
      <3> QED BY <3>2, <3>3, <3>4
    <2>3. \A b \in Bodies : body[b].open => os[body[b].base] = b BY <1>1 DEF BodyInv
    <2> QED BY <2>2, <2>3 DEF InUseAlive
  <1> QED BY <1>1, IInvAlways, PTL

\* The watches that one step may trigger.
LEMMA OnlyThese ==
    ASSUME FdAssumption, TypeOK, JobInv, Next, NEW w \in Watches, watch[w].st = "pending"
    PROVE  \/ watch'[w] = watch[w] \/ watch'[w].st \notin {"ready", "closed"}
           \/ \E d \in Drivers : Process(d) \/ NotifyClose(d)
  <1>1. ASSUME NEW d \in Drivers, Use(d)
        PROVE  watch'[w] = watch[w] \/ watch'[w].st \notin {"ready", "closed"}
    <2>1. CASE watch' = watch BY <2>1
    <2>2. CASE \E b \in Bodies, x \in Watches, m \in Masks : Watch(d, b, x, m)
      <3>1. PICK b \in Bodies, x \in Watches, m \in Masks : Watch(d, b, x, m) BY <2>2
      <3>2. watch' = [watch EXCEPT ![x] = [st |-> "adding", on |-> b, mask |-> m]] BY <3>1 DEF Watch
      <3> QED BY <3>2 DEF TypeOK
    <2> QED BY <1>1, <2>1, <2>2 DEF Use, Close, Deref, Open, Copy
  <1>2. ASSUME NEW d \in Drivers, Finish(d), ~NotifyClose(d)
        PROVE  watch'[w] = watch[w] \/ watch'[w].st \notin {"ready", "closed"}
    <2>1. CASE WatchAdd(d)
      <3>1. PICK x : watch' = [watch EXCEPT ![x].st = "pending"]
        BY <2>1, Zenon DEF WatchAdd
      <3> QED BY <3>1 DEF TypeOK, WatchRecords
    <2>2. CASE DerefSub(d) \/ CloseBody(d) \/ Post(d)
      <3>1. watch' = watch BY <2>2, Zenon DEF DerefSub, CloseBody, Post
      <3> QED BY <3>1
    <2> QED BY <1>2, <2>1, <2>2 DEF Finish
  <1>3. ASSUME NEW d \in Drivers, (Loop(d) /\ ~Process(d)) \/ EpollWait(d) PROVE watch' = watch
    BY <1>3, Zenon DEF Loop, Import, ApplyUpdates, EpollWait
  <1>4. ASSUME NEW x \in Watches, Forget(x)
        PROVE  watch'[w] = watch[w] \/ watch'[w].st \notin {"ready", "closed"}
    <2>1. watch' = [watch EXCEPT ![x] = Done("dropped")] BY <1>4 DEF Forget
    <2> QED BY <2>1 DEF Done, TypeOK
  <1> QED BY <1>1, <1>2, <1>3, <1>4 DEF Next, Finish, Loop

\* A kernel event triggers only watches on its file: the epoch tells the
\* registrations of a number apart.
LEMMA ProcessRight ==
    ASSUME FdAssumption, IInv, NEW d \in Drivers, Process(d), NEW w \in Watches,
           watch[w].st = "pending", watch'[w] # watch[w]
    PROVE  /\ watch'[w].st = "ready"
           /\ batch[d] # << >> /\ Head(batch[d]).file = watch[w].on
  <1> USE DEF IInv
  <1>1. PICK ev, taken :
           /\ ev = Head(batch[d]) /\ batch[d] # << >>
           /\ taken \subseteq fdrec[d][ev.fd].watches /\ Fresh(d, ev)
           /\ watch' = [x \in Watches |->
                 IF x \in taken /\ watch[x].st = "pending" THEN Done("ready") ELSE watch[x]]
    <2> DEFINE ev == Head(batch[d])
               taken == {x \in fdrec[d][ev.fd].watches :
                            watch[x].st = "dropped" \/ watch[x].mask \intersect ev.mask # {}}
    <2>1. /\ batch[d] # << >>
          /\ \/ watch' = watch
             \/ /\ Fresh(d, ev)
                /\ watch' = [x \in Watches |->
                      IF x \in taken /\ watch[x].st = "pending" THEN Done("ready") ELSE watch[x]]
      BY Zenon DEF Process
    <2>2. watch' # watch OBVIOUS
    <2>3. taken \subseteq fdrec[d][ev.fd].watches /\ ev = Head(batch[d]) OBVIOUS
    <2> HIDE DEF ev, taken
    <2>4. /\ ev = Head(batch[d]) /\ batch[d] # << >>
          /\ taken \subseteq fdrec[d][ev.fd].watches /\ Fresh(d, ev)
          /\ watch' = [x \in Watches |->
                IF x \in taken /\ watch[x].st = "pending" THEN Done("ready") ELSE watch[x]]
      BY <2>1, <2>2, <2>3
    <2> QED BY <2>4
  <1>2. batch[d] \in Seq(KernelEvents) BY DEF TypeOK
  <1>3. 1 \in DOMAIN batch[d] /\ ev = batch[d][1] /\ ev \in KernelEvents
    BY <1>1, <1>2, HeadTailProperties, LenProperties
  <1>4. PICK k \in Numbers : k = ev.fd BY <1>3, SMTT(60) DEF KernelEvents
  <1>5. ev.file = fdrec[d][k].body BY <1>1, <1>3, <1>4 DEF EpochInv, Fresh
  <1>6. w \in taken /\ watch'[w] = Done("ready") BY <1>1
  <1>7. fdrec[d][k].body = watch[w].on BY <1>1, <1>4, <1>6 DEF WatchInv
  <1> QED BY <1>1, <1>5, <1>6, <1>7 DEF Done

\* A notice of a close triggers only watches on a closed body.
LEMMA NotifyRight ==
    ASSUME FdAssumption, IInv, NEW d \in Drivers, NotifyClose(d), NEW w \in Watches,
           watch[w].st = "pending", watch'[w] # watch[w]
    PROVE  watch'[w].st = "closed" /\ ~body[watch[w].on].open
  <1> USE DEF IInv
  <1>1. Head(jobs[d]).fd \in Numbers
    <2>1. Begun(d, "notify") BY Zenon DEF NotifyClose
    <2> QED BY <2>1, BegunFacts DEF Notices
  <1>2. PICK k \in Numbers : k = Head(jobs[d]).fd BY <1>1
  <1>3. watch' = watch \/
           (/\ ~(fdrec[d][k].body = None \/ body[fdrec[d][k].body].open)
            /\ watch' = [x \in Watches |->
                   IF x \in fdrec[d][k].watches /\ watch[x].st = "pending"
                   THEN Done("closed") ELSE watch[x]])
    BY <1>2, Zenon DEF NotifyClose
  <1>4. /\ ~body[fdrec[d][k].body].open
        /\ w \in fdrec[d][k].watches /\ watch'[w] = Done("closed")
    BY <1>3
  <1>5. fdrec[d][k].body = watch[w].on BY <1>4 DEF WatchInv
  <1> QED BY <1>4, <1>5 DEF Done

\* A readiness event triggers because of its own file, never by a stale kernel
\* event or a late notice for its number.
THEOREM FdRightFile ==
    ASSUME Serial
    PROVE  Spec => RightFile
  <1> DEFINE Right(w) ==
        /\ watch[w].st = "pending" /\ watch'[w].st = "ready" =>
              \E d \in Drivers : batch[d] # << >> /\ Head(batch[d]).file = watch[w].on
        /\ watch[w].st = "pending" /\ watch'[w].st = "closed" => ~body[watch[w].on].open
  <1>1. ASSUME IInv, Next PROVE \A w \in Watches : Right(w)
    <2> SUFFICES ASSUME NEW w \in Watches, watch[w].st = "pending", watch'[w].st \in {"ready", "closed"}
                 PROVE  /\ watch'[w].st = "ready" =>
                             \E d \in Drivers : batch[d] # << >> /\ Head(batch[d]).file = watch[w].on
                        /\ watch'[w].st = "closed" => ~body[watch[w].on].open
      OBVIOUS
    <2>1. watch'[w] # watch[w] OBVIOUS
    <2>2. PICK d \in Drivers : Process(d) \/ NotifyClose(d)
      BY <1>1, <2>1, OnlyThese, FdAssumption DEF IInv
    <2>3. CASE Process(d) BY <1>1, <2>1, <2>3, ProcessRight, FdAssumption
    <2>4. CASE NotifyClose(d) BY <1>1, <2>1, <2>4, NotifyRight, FdAssumption
    <2> QED BY <2>2, <2>3, <2>4
  <1>2. IInv /\ [Next]_vars => [\A w \in Watches : Right(w)]_vars BY <1>1
  <1> QED BY <1>2, IInvAlways, PTL DEF Spec, RightFile

=============================================================================
