--------------------------- MODULE JobQueueProofs ---------------------------
(***************************************************************************)
(* Proofs about JobQueue, for any jobs, workers, stages, leases and delays *)
(* (JobsSettle: for those below a billion)                                 *)
(***************************************************************************)
EXTENDS JobQueue, FiniteSetTheorems, TLAPS

----------------------------------------------------------------------------
(* Types *)

\* A saved document replaces one entry of the collection and no other.
LEMMA SaveDocument ==
    ASSUME job \in [Jobs -> Document], NEW j \in Jobs, NEW doc \in Document, Save(j, doc)
    PROVE  /\ job' \in [Jobs -> Document]
           /\ job'[j] = doc
           /\ \A i \in Jobs : i # j => job'[i] = job[i]
  BY DEF Save

\* The two functions every published write goes through keep a document well formed.
LEMMA WriteTypes ==
    ASSUME NEW doc \in Document
    PROVE  /\ EventUpdate(doc) \in Document
           /\ EventUpdate(doc) = [doc EXCEPT !.version = doc.version + 1]
           /\ FreshAttempt(doc) \in Document
           /\ FreshAttempt(doc) = [doc EXCEPT !.attempt = doc.version]
  BY DEF EventUpdate, FreshAttempt, Document

\* The values of a document's fields.
LEMMA DocumentFields ==
    ASSUME NEW doc \in Document
    PROVE  /\ doc.status \in Statuses /\ doc.ready \in BOOLEAN
           /\ doc.percent \in 0 .. LastStage /\ doc.attempts \in 0 .. MaxAttempts
           /\ doc.next \in Int /\ doc.lease \in NoLease .. LeaseTicks
           /\ doc.attempt \in Nat /\ doc.index \in Nat /\ doc.version \in Nat
  BY DEF Document

LEMMA OneMoreAttempt ==
    ASSUME NEW n \in 0 .. MaxAttempts, n < MaxAttempts
    PROVE  n + 1 \in 0 .. MaxAttempts
  BY QueueAssumption

LEMMA OneMoreStage ==
    ASSUME NEW n \in 0 .. LastStage, n + 1 < LastStage
    PROVE  n + 1 \in 0 .. LastStage
  BY QueueAssumption

\* The combinations of fields that the handlers set leave a document well formed.
LEMMA DocumentWrites ==
    ASSUME NEW doc \in Document
    PROVE  /\ \A b \in BOOLEAN, n \in Int : [doc EXCEPT !.ready = b, !.next = n] \in Document
           /\ \A n \in Int : [doc EXCEPT !.ready = TRUE, !.next = n] \in Document
           /\ \A s \in Statuses : [doc EXCEPT !.status = s] \in Document
           /\ \A s \in Statuses, l \in NoLease .. LeaseTicks :
                [doc EXCEPT !.status = s, !.lease = l] \in Document
           /\ \A s \in Statuses, b \in BOOLEAN, l \in NoLease .. LeaseTicks :
                [doc EXCEPT !.status = s, !.ready = b, !.lease = l] \in Document
           /\ \A s \in Statuses, l \in NoLease .. LeaseTicks, n \in Int :
                [doc EXCEPT !.status = s, !.lease = l, !.next = n] \in Document
           /\ \A s \in Statuses, p \in 0 .. LastStage, a \in 0 .. MaxAttempts,
                 l \in NoLease .. LeaseTicks :
                [doc EXCEPT !.status = s, !.percent = p, !.attempts = a, !.lease = l] \in Document
           /\ \A p \in 0 .. LastStage : [doc EXCEPT !.percent = p] \in Document
           /\ \A l \in NoLease .. LeaseTicks : [doc EXCEPT !.lease = l] \in Document
           /\ \A n \in Int, l \in NoLease .. LeaseTicks :
                [doc EXCEPT !.next = n, !.lease = l] \in Document
           /\ \A s \in Statuses, p \in 0 .. LastStage, a \in Nat :
                [doc EXCEPT !.status = s, !.percent = p, !.index = a] \in Document
<1>1. \A b \in BOOLEAN, n \in Int : [doc EXCEPT !.ready = b, !.next = n] \in Document
  BY DEF Document
<1>0. \A n \in Int : [doc EXCEPT !.ready = TRUE, !.next = n] \in Document
  BY <1>1, Zenon
<1>2. \A s \in Statuses : [doc EXCEPT !.status = s] \in Document
  BY DEF Document
<1>3. \A s \in Statuses, l \in NoLease .. LeaseTicks :
        [doc EXCEPT !.status = s, !.lease = l] \in Document
  BY DEF Document
<1>4. \A s \in Statuses, b \in BOOLEAN, l \in NoLease .. LeaseTicks :
        [doc EXCEPT !.status = s, !.ready = b, !.lease = l] \in Document
  BY DEF Document
<1>5. \A s \in Statuses, l \in NoLease .. LeaseTicks, n \in Int :
        [doc EXCEPT !.status = s, !.lease = l, !.next = n] \in Document
  BY DEF Document
<1>6. \A s \in Statuses, p \in 0 .. LastStage, a \in 0 .. MaxAttempts,
         l \in NoLease .. LeaseTicks :
        [doc EXCEPT !.status = s, !.percent = p, !.attempts = a, !.lease = l] \in Document
  BY DEF Document
<1>7. \A p \in 0 .. LastStage : [doc EXCEPT !.percent = p] \in Document
  BY DEF Document
<1>8. \A l \in NoLease .. LeaseTicks : [doc EXCEPT !.lease = l] \in Document
  BY DEF Document
<1>9. \A n \in Int, l \in NoLease .. LeaseTicks : [doc EXCEPT !.next = n, !.lease = l] \in Document
  BY DEF Document
<1>10. \A s \in Statuses, p \in 0 .. LastStage, a \in Nat :
        [doc EXCEPT !.status = s, !.percent = p, !.index = a] \in Document
  BY DEF Document
<1> QED
  BY <1>0, <1>1, <1>2, <1>3, <1>4, <1>5, <1>6, <1>7, <1>8, <1>9, <1>10

\* Dates stay integers, and leases within one lease of now.
LEMMA TimerTypes ==
    /\ Floor \in Int /\ NoLease \in Int /\ NoLease < Floor /\ Floor < 0
    /\ \A a \in 0 .. MaxLag : LeaseTicks - a \in NoLease .. LeaseTicks
    /\ NoLease \in NoLease .. LeaseTicks
    /\ \A t \in Int : Earlier(t) \in Int
    /\ \A t \in NoLease .. LeaseTicks : Earlier(t) \in NoLease .. LeaseTicks
    /\ \A a \in Nat : RetryDelay(a) \in Int
    /\ \A t \in Int : Renewed(t) \in NoLease .. LeaseTicks
<1>1. /\ MaxLag \in Nat /\ LeaseTicks \in Nat /\ LeaseTicks > 0
      /\ Floor = -(MaxLag + 1) /\ NoLease = Floor - 1
  BY QueueAssumption DEF Floor, NoLease
<1>2. /\ Floor \in Int /\ NoLease \in Int /\ NoLease < Floor /\ Floor < 0
  BY <1>1
<1>3. \A a \in 0 .. MaxLag : LeaseTicks - a \in NoLease .. LeaseTicks
  BY <1>1
<1>4. NoLease \in NoLease .. LeaseTicks
  BY <1>1
<1>5. \A t \in Int : Earlier(t) \in Int
  BY <1>2 DEF Earlier
<1>6. \A t \in NoLease .. LeaseTicks : Earlier(t) \in NoLease .. LeaseTicks
  BY <1>1 DEF Earlier
<1>7. \A a \in Nat : RetryDelay(a) \in Int
  <2>1. /\ RetryDelays \in Seq(Nat) /\ Len(RetryDelays) \in Nat \ {0}
        /\ \A n \in 1 .. Len(RetryDelays) : RetryDelays[n] \in Nat
    BY QueueAssumption
  <2> QED  BY <2>1 DEF RetryDelay
<1>8. \A t \in Int : Renewed(t) \in NoLease .. LeaseTicks
  BY <1>1 DEF Renewed
<1> QED
  BY <1>2, <1>3, <1>4, <1>5, <1>6, <1>7, <1>8

\* The captured "now" of a worker grows older up to the bound.
LEMMA OlderTypes ==
    ASSUME age \in [Workers -> 0 .. MaxLag], NEW S
    PROVE  [w \in Workers |-> IF pc[w] \in S /\ age[w] < MaxLag THEN age[w] + 1 ELSE age[w]]
             \in [Workers -> 0 .. MaxLag]
  BY QueueAssumption

\* The values the handlers write.
LEMMA StatusValues ==
    /\ "queued" \in Statuses /\ "processing" \in Statuses /\ "deleting" \in Statuses
    /\ "completed" \in Statuses /\ "failed" \in Statuses /\ "cancelled" \in Statuses
    /\ 0 \in 0 .. LastStage /\ LastStage \in 0 .. LastStage
  BY QueueAssumption DEF Statuses, Settled

\* The write that publishes a result.
LEMMA ResultTypes ==
    ASSUME TypeOK, NEW w \in Workers, task[w] \in Task, StoreResult(w)
    PROVE  job' \in [Jobs -> Document]
<1> DEFINE j == task[w].job
<1>1. j \in Jobs /\ task[w].attempt \in Nat /\ job[j] \in Document
  BY DEF Task, TypeOK
<1>2. [job[j] EXCEPT !.status = "completed", !.percent = LastStage, !.index = task[w].attempt]
        \in Document
  BY <1>1, DocumentWrites, StatusValues
<1> QED
  BY <1>1, <1>2, SaveDocument, WriteTypes DEF StoreResult, TypeOK

\* The initial state is well typed.
LEMMA InitTypes == Init => TypeOK
<1> SUFFICES ASSUME Init PROVE TypeOK
  OBVIOUS
<1>1. job \in [Jobs -> Document]
  BY TimerTypes, QueueAssumption DEF Init, Document, Statuses, NoAttempt
<1>2. /\ faults \in 0 .. MaxFaults
      /\ age \in [Workers -> 0 .. MaxLag]
  BY QueueAssumption DEF Init
<1>3. /\ pc \in [Workers -> Idle \cup Running]
      /\ \A w \in Workers : pc[w] \notin Running
  BY DEF Init, Idle, Running
<1>4. beating \in [Workers -> BOOLEAN] /\ \A w \in Workers : ~beating[w]
  BY DEF Init
<1>5. /\ collections \in [Jobs -> SUBSET Nat]
      /\ task \in [Workers -> Task \cup {NoTask}]
      /\ snap \in [Workers -> SUBSET Expired]
  BY DEF Init
<1> QED
  BY <1>1, <1>2, <1>3, <1>4, <1>5 DEF TypeOK

\* No action takes a variable out of its type.
LEMMA StepTypes == TypeOK /\ [Next]_vars => TypeOK'
<1> SUFFICES ASSUME TypeOK, [Next]_vars PROVE TypeOK'
  OBVIOUS
<1> USE DEF TypeOK
<1>1. ASSUME NEW j \in Jobs, Accept(j) PROVE TypeOK'
  <2>1. [job[j] EXCEPT !.ready = TRUE, !.next = 0] \in Document
    <3>1. 0 \in Int /\ job[j] \in Document
      OBVIOUS
    <3> QED  BY <3>1, DocumentWrites, Zenon
  <2> QED  BY <1>1, <2>1, SaveDocument DEF Accept, workerVars
<1>2. ASSUME NEW j \in Jobs, CancelJob(j) PROVE TypeOK'
  <2>1. [job[j] EXCEPT !.status = "cancelled", !.lease = NoLease] \in Document
    BY DocumentWrites, StatusValues, TimerTypes
  <2> QED  BY <1>2, <2>1, SaveDocument, WriteTypes DEF CancelJob, workerVars
<1>3. ASSUME NEW j \in Jobs, Mark(j), UNCHANGED <<collections, workerVars, faults>>
      PROVE  TypeOK'
  <2>1. [job[j] EXCEPT !.status = "deleting", !.ready = FALSE, !.lease = NoLease] \in Document
    BY DocumentWrites, StatusValues, TimerTypes
  <2> QED  BY <1>3, <2>1, SaveDocument, WriteTypes DEF Mark, workerVars
<1>4. ASSUME NEW w \in Workers, LoopStep(w) PROVE TypeOK'
  <2>1. CASE LoopTop(w)
    BY <2>1, QueueAssumption DEF LoopTop, Idle, Running
  <2>2. CASE FindExpired(w)
    <3>1. {[job |-> j, attempt |-> job[j].attempt, attempts |-> job[j].attempts] :
              j \in {i \in Jobs : /\ job[i].status = "processing"
                                  /\ job[i].lease # NoLease
                                  /\ job[i].lease < -age[w]}} \in SUBSET Expired
      BY DEF Expired, Document
    <3> QED  BY <2>2, <3>1 DEF FindExpired, Idle, Running
  <2>3. CASE RecoverExpired(w)
    <3>1. PICK e \in snap[w] :
            /\ snap' = [snap EXCEPT ![w] = @ \ {e}]
            /\ IF StillExpired(w, e)
               THEN Save(e.job, EventUpdate(
                        IF Exhausted(e.attempts)
                        THEN [job[e.job] EXCEPT !.status = "failed"]
                        ELSE [job[e.job] EXCEPT !.status = "queued", !.lease = NoLease,
                                  !.next = RetryDelay(e.attempts) - age[w]]))
               ELSE UNCHANGED job
      BY <2>3 DEF RecoverExpired
    <3>2. e.job \in Jobs /\ e.attempts \in Nat /\ job[e.job] \in Document
      BY DEF Expired
    <3>3. [job[e.job] EXCEPT !.status = "failed"] \in Document
      BY <3>2, DocumentWrites, StatusValues
    <3>4. RetryDelay(e.attempts) - age[w] \in Int
      BY <3>2, TimerTypes
    <3>5. [job[e.job] EXCEPT !.status = "queued", !.lease = NoLease,
               !.next = RetryDelay(e.attempts) - age[w]] \in Document
      BY <3>2, <3>4, DocumentWrites, StatusValues, TimerTypes
    <3>6. job' \in [Jobs -> Document]
      BY <3>1, <3>2, <3>3, <3>5, SaveDocument, WriteTypes
    <3> QED  BY <2>3, <3>1, <3>6 DEF RecoverExpired
  <2>4. CASE Claim(w)
    <3>1. PICK j \in Jobs :
            LET doc == FreshAttempt(EventUpdate(
                  [job[j] EXCEPT !.status = "processing", !.percent = 0,
                                 !.attempts = @ + 1, !.lease = LeaseTicks - age[w]]))
            IN  /\ Claimable(w, j)
                /\ Save(j, doc)
                /\ task' = [task EXCEPT ![w] =
                     [job |-> j, attempt |-> doc.attempt, attempts |-> doc.attempts, stage |-> 0]]
      BY <2>4 DEF Claim
    <3> DEFINE new == [job[j] EXCEPT !.status = "processing", !.percent = 0,
                                     !.attempts = @ + 1, !.lease = LeaseTicks - age[w]]
               doc == FreshAttempt(EventUpdate(new))
               run == [job |-> j, attempt |-> doc.attempt, attempts |-> doc.attempts, stage |-> 0]
    <3>2. new \in Document
      <4>0. job[j].attempts < MaxAttempts
        BY <3>1 DEF Claimable
      <4>1. job[j].attempts + 1 \in 0 .. MaxAttempts
        <5>1. job[j].attempts \in 0 .. MaxAttempts
          BY DocumentFields
        <5> QED  BY <4>0, <5>1, OneMoreAttempt
      <4>2. LeaseTicks - age[w] \in NoLease .. LeaseTicks
        BY TimerTypes
      <4> QED  BY <4>1, <4>2, DocumentWrites, StatusValues
    <3>3. doc \in Document
      BY <3>2, WriteTypes
    <3>4. job' \in [Jobs -> Document] /\ task' = [task EXCEPT ![w] = run]
      BY <3>1, <3>3, SaveDocument
    <3> HIDE DEF doc
    <3>5. run \in Task
      BY <3>3, DocumentFields, StatusValues DEF Task
    <3> HIDE DEF run
    <3>6. /\ task' \in [Workers -> Task \cup {NoTask}]
          /\ \A v \in Workers : pc'[v] \in Running => task'[v] \in Task
      BY <2>4, <3>4, <3>5 DEF Claim, Running
    <3> QED  BY <2>4, <3>4, <3>6, QueueAssumption DEF Claim, Running
  <2>5. CASE Poll(w)
    BY <2>5, QueueAssumption DEF Poll, Idle, Running
  <2> QED  BY <1>4, <2>1, <2>2, <2>3, <2>4, <2>5 DEF LoopStep
<1>5. ASSUME NEW w \in Workers, PipelineStep(w) PROVE TypeOK'
  <2>0. pc[w] \in Running /\ task[w] \in Task /\ task[w].job \in Jobs
    BY <1>5 DEF PipelineStep, Report, EnterIndex, WriteIndex, Complete, StoreResult,
                PipelineFails, FailAttempt, Running, Task
  <2> DEFINE j == task[w].job
  <2>1. CASE Report(w)
    <3>1. task[w].stage + 1 \in 0 .. LastStage
      BY <2>0, <2>1, QueueAssumption DEF Report, Task
    <3>2. [job[j] EXCEPT !.percent = task[w].stage + 1] \in Document
      BY <2>0, <3>1, DocumentWrites
    <3>3. job' \in [Jobs -> Document]
      BY <2>0, <2>1, <3>2, SaveDocument, WriteTypes DEF Report
    <3>4. [task[w] EXCEPT !.stage = task[w].stage + 1] \in Task
      BY <2>0, <3>1 DEF Task
    <3>5. task' = [task EXCEPT ![w] = [task[w] EXCEPT !.stage = task[w].stage + 1]]
      BY <2>1 DEF Report
    <3> QED  BY <2>1, <3>3, <3>4, <3>5 DEF Report
  <2>2. CASE EnterIndex(w)
    BY <2>0, <2>2 DEF EnterIndex, Running
  <2>3. CASE WriteIndex(w)
    <3>1. collections' \in [Jobs -> SUBSET Nat]
      BY <2>0, <2>3 DEF WriteIndex, CollectionName, Task
    <3> QED  BY <2>0, <2>3, <3>1 DEF WriteIndex, Running
  <2>4. CASE Complete(w)
    <3>1. job' \in [Jobs -> Document]
      BY <2>0, <2>4, ResultTypes DEF Complete
    <3> QED  BY <2>4, <3>1 DEF Complete, Return, Idle, Running
  <2>5. CASE PipelineFails(w)
    BY <2>0, <2>5 DEF PipelineFails, Running
  <2>6. CASE FailAttempt(w)
    <3>1. [job[j] EXCEPT !.status = "failed", !.lease = NoLease] \in Document
      BY <2>0, DocumentWrites, StatusValues, TimerTypes
    <3>2. [job[j] EXCEPT !.status = "queued", !.lease = NoLease,
                         !.next = RetryDelay(task[w].attempts)] \in Document
      <4>1. RetryDelay(task[w].attempts) \in Int
        BY <2>0, TimerTypes DEF Task
      <4> QED  BY <2>0, <4>1, DocumentWrites, StatusValues, TimerTypes
    <3>3. job' \in [Jobs -> Document]
      BY <2>0, <2>6, <3>1, <3>2, SaveDocument, WriteTypes DEF FailAttempt
    <3> QED  BY <2>6, <3>3 DEF FailAttempt, Return, Idle, Running
  <2> QED  BY <1>5, <2>1, <2>2, <2>3, <2>4, <2>5, <2>6 DEF PipelineStep
<1>6. ASSUME NEW w \in Workers, Heartbeat(w) PROVE TypeOK'
  <2>1. pc[w] \in Running /\ task[w] \in Task /\ task[w].job \in Jobs
    BY <1>6 DEF Heartbeat, Task
  <2>2. CASE Mine(w)
    <3>1. [job[task[w].job] EXCEPT !.lease = Renewed(@)] \in Document
      BY <2>1, DocumentWrites, QueueAssumption, TimerTypes DEF Renewed
    <3>2. job' \in [Jobs -> Document]
      BY <1>6, <2>1, <2>2, <3>1, SaveDocument DEF Heartbeat
    <3> QED  BY <1>6, <2>2, <3>2 DEF Heartbeat
  <2>3. CASE ~Mine(w)
    BY <1>6, <2>1, <2>3 DEF Heartbeat
  <2> QED  BY <2>2, <2>3
<1>7. ASSUME NEW w \in Workers, FaultStep(w) PROVE TypeOK'
  <2>1. faults + 1 \in 0 .. MaxFaults
    BY <1>7, QueueAssumption DEF FaultStep, Interrupt, CompleteUnknown, FailWriteLost, Crash
  <2>2. CASE Interrupt(w)
    BY <2>1, <2>2, QueueAssumption DEF Interrupt, Idle, Running
  <2>3. CASE CompleteUnknown(w)
    <3>1. pc[w] \in Running /\ task[w] \in Task
      BY <2>3 DEF CompleteUnknown, StoreResult, Running
    <3>2. job' \in [Jobs -> Document]
      BY <2>3, <3>1, ResultTypes DEF CompleteUnknown
    <3> QED  BY <2>1, <2>3, <3>1, <3>2 DEF CompleteUnknown, Running
  <2>4. CASE FailWriteLost(w)
    BY <2>1, <2>4 DEF FailWriteLost, Return, Idle, Running
  <2>5. CASE Crash(w)
    BY <2>1, <2>5, QueueAssumption DEF Crash, Idle, Running
  <2> QED  BY <1>7, <2>2, <2>3, <2>4, <2>5 DEF FaultStep
<1>8. ASSUME NEW w \in Workers, Restart(w) PROVE TypeOK'
  BY <1>8 DEF Restart, Idle, Running
<1>9. CASE Tick
  <2>1. job' \in [Jobs -> Document]
    <3>1. \A j \in Jobs : [job[j] EXCEPT !.next = Earlier(@), !.lease = Earlier(@)] \in Document
      BY DocumentFields, DocumentWrites, TimerTypes
    <3> QED  BY <1>9, <3>1 DEF Tick
  <2>2. age' \in [Workers -> 0 .. MaxLag]
    BY <1>9, OlderTypes DEF Tick
  <2> QED  BY <1>9, <2>1, <2>2 DEF Tick
<1>10. CASE UNCHANGED vars
  BY <1>10 DEF vars, workerVars
<1> QED
  BY <1>1, <1>2, <1>3, <1>4, <1>5, <1>6, <1>7, <1>8, <1>9, <1>10
  DEF Next, GatewayStep, DeleteJob, ExpireJob

\* Every reachable state is well typed.
THEOREM TypeCorrect == Spec => []TypeOK
  BY InitTypes, StepTypes, PTL DEF Spec

----------------------------------------------------------------------------
(* The inductive invariant *)

\* A document keeps its execution: what the invariant reads of it is unchanged.
SameRun(j) ==
    /\ job'[j].status = job[j].status
    /\ job'[j].percent = job[j].percent
    /\ job'[j].attempts = job[j].attempts
    /\ job'[j].attempt = job[j].attempt
    /\ job'[j].index = job[j].index
    /\ job'[j].version = job[j].version

\* A worker goes on with the task it has, or drops it.
NoNewTask(w) ==
    /\ pc'[w] \in Running =>
         /\ pc[w] \in Running
         /\ task'[w] = task[w]
         /\ pc'[w] = "indexed" => pc[w] = "indexed"
         /\ pc[w] = "failing" => pc'[w] = "failing"
    /\ snap'[w] \subseteq snap[w]

\* What the tasks, snapshots and documents of a well typed state are.
LEMMA TaskFields ==
    ASSUME TypeOK
    PROVE  /\ \A w \in Workers : pc[w] \in Running =>
                /\ task[w].job \in Jobs /\ task[w].attempt \in Nat
                /\ task[w].attempts \in 0 .. MaxAttempts /\ task[w].stage \in 0 .. LastStage
           /\ \A w \in Workers : \A e \in snap[w] :
                e.job \in Jobs /\ e.attempt \in Nat /\ e.attempts \in 0 .. MaxAttempts
           /\ \A j \in Jobs : job[j] \in Document
  BY DEF TypeOK, Task, Expired

\* What a step of the queue is to the owners of the jobs.
LifecycleStep == [Lifecycle!Next]_(Lifecycle!vars)

\* A write to one document changes what its owner sees and nothing else.
LEMMA OneJobChanges ==
    ASSUME NEW j \in Jobs, \A i \in Jobs : i # j => SameRun(i)
    PROVE  /\ [i \in Jobs |-> job'[i].status] =
                [[i \in Jobs |-> job[i].status] EXCEPT ![j] = job'[j].status]
           /\ [i \in Jobs |-> job'[i].percent] =
                [[i \in Jobs |-> job[i].percent] EXCEPT ![j] = job'[j].percent]
           /\ [i \in Jobs |-> job'[i].attempts] =
                [[i \in Jobs |-> job[i].attempts] EXCEPT ![j] = job'[j].attempts]
           /\ [i \in Jobs |-> job'[i].version] =
                [[i \in Jobs |-> job[i].version] EXCEPT ![j] = job'[j].version]
  BY DEF SameRun

\* What is unchanged for every reader is a stutter of the lifecycle.
LEMMA QuietMaps ==
    ASSUME \A j \in Jobs : SameRun(j)
    PROVE  LifecycleStep
  BY DEF LifecycleStep, Lifecycle!vars, SameRun

\* A step that starts and ends no execution preserves the invariant.
LEMMA QuietStep ==
    ASSUME QueueInv, TypeOK',
           \A j \in Jobs : SameRun(j),
           \A w \in Workers : NoNewTask(w),
           \A j \in Jobs : collections[j] \subseteq collections'[j]
    PROVE  QueueInv' /\ LifecycleStep
<1> USE TaskFields DEF QueueInv
<1>1. AttemptsIssued'
  BY DEF AttemptsIssued, SameRun, NoNewTask
<1>2. CountersExact'
  BY DEF CountersExact, SameRun, NoNewTask
<1>3. ExclusiveAttempt'
  BY DEF ExclusiveAttempt, SameRun, NoNewTask
<1>4. CurrentProgress'
  BY DEF CurrentProgress, SameRun, NoNewTask
<1>5. RetryLeft'
  BY DEF RetryLeft, SameRun
<1>6. IndexPublished'
  <2>1. \A w \in Workers :
          pc'[w] = "indexed" => CollectionName(task'[w].attempt) \in collections'[task'[w].job]
    BY DEF IndexPublished, NoNewTask, CollectionName, Running
  <2>2. ASSUME NEW j \in Jobs, job'[j].status = "completed"
        PROVE  /\ job'[j].index <= job'[j].version
               /\ CollectionName(job'[j].index) \in collections'[j]
               /\ \A w \in Workers :
                    pc'[w] \in Running /\ task'[w].job = j /\ task'[w].attempt = job'[j].index
                      => pc'[w] = "failing"
    BY <2>2 DEF IndexPublished, SameRun, NoNewTask, CollectionName
  <2> QED  BY <2>1, <2>2 DEF IndexPublished, CollectionName
<1>7. LifecycleStep
  BY QuietMaps
<1> QED
  BY <1>1, <1>2, <1>3, <1>4, <1>5, <1>6, <1>7

\* No execution has started in an initial state.
LEMMA InitInv == Init => QueueInv
<1> SUFFICES ASSUME Init PROVE QueueInv
  OBVIOUS
<1>1. \A w \in Workers : pc[w] \notin Running /\ snap[w] = {}
  BY DEF Init, Running
<1>2. \A j \in Jobs : /\ job[j].status = "queued" /\ job[j].attempts = 0
                      /\ job[j].attempt = 0 /\ job[j].version = 0
  BY DEF Init, NoAttempt
<1>3. AttemptsIssued /\ CountersExact
  BY <1>1, <1>2 DEF AttemptsIssued, CountersExact
<1>4. ExclusiveAttempt /\ CurrentProgress
  BY <1>1 DEF ExclusiveAttempt, CurrentProgress
<1>5. RetryLeft /\ IndexPublished
  BY <1>1, <1>2, QueueAssumption DEF RetryLeft, IndexPublished, Running
<1> QED
  BY <1>3, <1>4, <1>5, InitTypes DEF QueueInv

\* What a save leaves of the other documents and of the saved one.
LEMMA SavedRun ==
    ASSUME TypeOK, NEW j \in Jobs, NEW doc \in Document, Save(j, doc)
    PROVE  /\ job'[j] = doc
           /\ \A i \in Jobs : i # j => SameRun(i)
  BY SaveDocument DEF TypeOK, SameRun

\* The fields of the two functions every published write goes through.
LEMMA PublishedFields ==
    ASSUME NEW doc \in Document
    PROVE  /\ EventUpdate(doc).status = doc.status
           /\ EventUpdate(doc).percent = doc.percent
           /\ EventUpdate(doc).attempts = doc.attempts
           /\ EventUpdate(doc).index = doc.index
           /\ EventUpdate(doc).attempt = doc.attempt
           /\ EventUpdate(doc).version = doc.version + 1
           /\ FreshAttempt(doc).status = doc.status
           /\ FreshAttempt(doc).percent = doc.percent
           /\ FreshAttempt(doc).attempts = doc.attempts
           /\ FreshAttempt(doc).index = doc.index
           /\ FreshAttempt(doc).attempt = doc.version
           /\ FreshAttempt(doc).version = doc.version
  BY DEF EventUpdate, FreshAttempt, Document

\* The same for a published change ...
LEMMA SavedPublished ==
    ASSUME TypeOK, NEW j \in Jobs, NEW doc \in Document, Save(j, EventUpdate(doc))
    PROVE  /\ job'[j].status = doc.status /\ job'[j].percent = doc.percent
           /\ job'[j].attempts = doc.attempts /\ job'[j].index = doc.index
           /\ job'[j].version = doc.version + 1
           /\ job'[j].attempt = doc.attempt
           /\ \A i \in Jobs : i # j => SameRun(i)
<1>1. /\ job'[j] = EventUpdate(doc)
      /\ \A i \in Jobs : i # j => SameRun(i)
  BY SavedRun, WriteTypes
<1> QED
  BY <1>1, PublishedFields

\* ... and for one under a new attempt identifier.
LEMMA SavedFenced ==
    ASSUME TypeOK, NEW j \in Jobs, NEW doc \in Document, Save(j, FreshAttempt(EventUpdate(doc)))
    PROVE  /\ job'[j] = FreshAttempt(EventUpdate(doc))
           /\ job'[j].status = doc.status /\ job'[j].percent = doc.percent
           /\ job'[j].attempts = doc.attempts /\ job'[j].index = doc.index
           /\ job'[j].version = doc.version + 1
           /\ job'[j].attempt = doc.version + 1
           /\ \A i \in Jobs : i # j => SameRun(i)
<1>1. EventUpdate(doc) \in Document
  BY WriteTypes
<1>2. /\ job'[j] = FreshAttempt(EventUpdate(doc))
      /\ \A i \in Jobs : i # j => SameRun(i)
  BY <1>1, SavedRun, WriteTypes
<1> QED
  BY <1>1, <1>2, PublishedFields

\* Cancelling or deleting a job takes it away from whoever executes it.
LEMMA FenceStep ==
    ASSUME QueueInv, TypeOK', NEW j \in Jobs,
           job[j].status # "deleting",
           \/ job'[j].status = "deleting"
           \/ job'[j].status = "cancelled" /\ job[j].status \in {"queued", "processing"},
           job'[j].percent = job[j].percent, job'[j].attempts = job[j].attempts,
           job'[j].version = job[j].version + 1,
           job'[j].attempt = job'[j].version,
           \A i \in Jobs : i # j => SameRun(i),
           UNCHANGED <<collections, pc, task, snap>>
    PROVE  QueueInv' /\ LifecycleStep
<1> USE TaskFields, DocumentFields DEF QueueInv
<1>1. AttemptsIssued'
  BY DEF AttemptsIssued, SameRun
<1>2. CountersExact'
  BY DEF CountersExact, AttemptsIssued, SameRun
<1>3. ExclusiveAttempt'
  BY DEF ExclusiveAttempt
<1>4. CurrentProgress'
  BY DEF CurrentProgress, SameRun
<1>5. RetryLeft'
  BY DEF RetryLeft, SameRun
<1>6. IndexPublished'
  BY DEF IndexPublished, SameRun, CollectionName
<1>7. LifecycleStep
  <2>1. CASE job'[j].status = "deleting"
    <3>1. Lifecycle!Delete(j)
      BY <2>1, OneJobChanges DEF Lifecycle!Delete, Lifecycle!Publish
    <3> QED  BY <3>1 DEF LifecycleStep, Lifecycle!Next
  <2>2. CASE job'[j].status = "cancelled" /\ job[j].status \in {"queued", "processing"}
    <3>1. Lifecycle!Cancel(j)
      BY <2>2, OneJobChanges DEF Lifecycle!Cancel, Lifecycle!Publish
    <3> QED  BY <3>1 DEF LifecycleStep, Lifecycle!Next
  <2> QED  BY <2>1, <2>2
<1> QED
  BY <1>1, <1>2, <1>3, <1>4, <1>5, <1>6, <1>7

\* The end of an execution without a result: the job is queued again while
\* attempts are left, and has failed otherwise.
LEMMA GiveUpStep ==
    ASSUME QueueInv, TypeOK', NEW j \in Jobs,
           \/ job'[j].status = "queued" /\ job[j].attempts < MaxAttempts
           \/ job'[j].status = "failed" /\ job[j].attempts = MaxAttempts,
           job[j].status = "processing", job'[j].percent = job[j].percent,
           job'[j].version = job[j].version + 1,
           job'[j].attempt = job[j].attempt,
           job'[j].attempts = job[j].attempts,
           \A i \in Jobs : i # j => SameRun(i),
           \A w \in Workers : NoNewTask(w),
           UNCHANGED collections
    PROVE  QueueInv' /\ LifecycleStep
<1> USE TaskFields, DocumentFields DEF QueueInv
<1>1. AttemptsIssued'
  BY DEF AttemptsIssued, SameRun, NoNewTask
<1>2. CountersExact'
  BY DEF CountersExact, SameRun, NoNewTask
<1>3. ExclusiveAttempt'
  BY DEF ExclusiveAttempt, NoNewTask
<1>4. CurrentProgress'
  BY DEF CurrentProgress, SameRun, NoNewTask
<1>5. RetryLeft'
  BY DEF RetryLeft, SameRun
<1>6. IndexPublished'
  <2>1. \A w \in Workers :
          pc'[w] = "indexed" => CollectionName(task'[w].attempt) \in collections'[task'[w].job]
    BY DEF IndexPublished, NoNewTask, CollectionName, Running
  <2>2. ASSUME NEW i \in Jobs, job'[i].status = "completed"
        PROVE  /\ i # j
               /\ job'[i].index <= job'[i].version
               /\ CollectionName(job'[i].index) \in collections'[i]
               /\ \A w \in Workers :
                    pc'[w] \in Running /\ task'[w].job = i /\ task'[w].attempt = job'[i].index
                      => pc'[w] = "failing"
    BY <2>2 DEF IndexPublished, SameRun, NoNewTask, CollectionName
  <2> QED  BY <2>1, <2>2 DEF IndexPublished, CollectionName
<1>7. LifecycleStep
  <2>1. CASE job'[j].status = "queued" /\ job[j].attempts < MaxAttempts
    <3>1. Lifecycle!Requeue(j)
      BY <2>1, OneJobChanges DEF Lifecycle!Requeue, Lifecycle!Publish
    <3> QED  BY <3>1 DEF LifecycleStep, Lifecycle!Next
  <2>2. CASE job'[j].status = "failed" /\ job[j].attempts = MaxAttempts
    <3>1. Lifecycle!Fail(j)
      BY <2>2, OneJobChanges DEF Lifecycle!Fail, Lifecycle!Publish
    <3> QED  BY <3>1 DEF LifecycleStep, Lifecycle!Next
  <2> QED  BY <2>1, <2>2
<1> QED
  BY <1>1, <1>2, <1>3, <1>4, <1>5, <1>6, <1>7

\* Publishing the result of the attempt a worker holds.
LEMMA ResultStep ==
    ASSUME QueueInv, TypeOK', NEW w \in Workers, StoreResult(w),
           pc'[w] \in {"top", "failing"},
           \A v \in Workers : NoNewTask(v),
           \A v \in Workers : v # w => pc'[v] = pc[v],
           UNCHANGED collections
    PROVE  QueueInv' /\ LifecycleStep
<1> USE TaskFields, DocumentFields DEF QueueInv
<1> DEFINE j == task[w].job
           new == [job[j] EXCEPT !.status = "completed", !.percent = LastStage,
                                 !.index = task[w].attempt]
<1>1. /\ pc[w] = "indexed" /\ pc[w] \in Running
      /\ j \in Jobs
      /\ job[j].status = "processing" /\ job[j].attempt = task[w].attempt
      /\ Save(j, EventUpdate(new))
  BY DEF StoreResult, CanReport, Mine, Owned, Running
<1>2. new \in Document
  BY <1>1, DocumentWrites, StatusValues
<1>3. \A i \in Jobs : i # j => SameRun(i)
  BY <1>1, <1>2, SavedRun, WriteTypes
<1>4. /\ job'[j].status = "completed"
      /\ job'[j].percent = LastStage
      /\ job'[j].index = task[w].attempt
      /\ job'[j].attempt = job[j].attempt
      /\ job'[j].attempts = job[j].attempts
      /\ job'[j].version = job[j].version + 1
  <2>1. /\ EventUpdate(new) \in Document
        /\ EventUpdate(new) = [new EXCEPT !.version = new.version + 1]
    <3> HIDE DEF new
    <3> QED  BY <1>2, WriteTypes
  <2>2. /\ new.status = "completed" /\ new.percent = LastStage /\ new.index = task[w].attempt
        /\ new.attempt = job[j].attempt /\ new.attempts = job[j].attempts
        /\ new.version = job[j].version
    BY <1>1 DEF Document
  <2> HIDE DEF new
  <2>3. job'[j] = EventUpdate(new)
    BY <1>1, <2>1, SavedRun
  <2> QED  BY <1>2, <2>1, <2>2, <2>3 DEF Document
<1> HIDE DEF new
<1>5. AttemptsIssued'
  BY <1>1, <1>3, <1>4 DEF AttemptsIssued, SameRun, NoNewTask
<1>6. CountersExact'
  BY <1>1, <1>3, <1>4 DEF CountersExact, SameRun, NoNewTask
<1>7. ExclusiveAttempt'
  BY DEF ExclusiveAttempt, NoNewTask
<1>8. CurrentProgress'
  BY <1>1, <1>3, <1>4 DEF CurrentProgress, SameRun, NoNewTask
<1>9. RetryLeft'
  BY <1>1, <1>3, <1>4 DEF RetryLeft, SameRun
<1>10. IndexPublished'
  <2>1. \A v \in Workers :
          pc'[v] = "indexed" => CollectionName(task'[v].attempt) \in collections'[task'[v].job]
    BY DEF IndexPublished, NoNewTask, CollectionName, Running
  <2>2. ASSUME NEW i \in Jobs, job'[i].status = "completed"
        PROVE  /\ job'[i].index <= job'[i].version
               /\ CollectionName(job'[i].index) \in collections'[i]
               /\ \A v \in Workers :
                    pc'[v] \in Running /\ task'[v].job = i /\ task'[v].attempt = job'[i].index
                      => pc'[v] = "failing"
    <3>1. CASE i # j
      BY <1>3, <2>2, <3>1 DEF IndexPublished, SameRun, NoNewTask, CollectionName
    <3>2. CASE i = j
      <4>1. job'[i].index <= job'[i].version /\ CollectionName(job'[i].index) \in collections'[i]
        BY <1>1, <1>4, <3>2 DEF IndexPublished, AttemptsIssued, CollectionName
      <4>2. ASSUME NEW v \in Workers, pc'[v] \in Running, task'[v].job = i,
                   task'[v].attempt = job'[i].index
            PROVE  v = w
        BY <1>1, <1>4, <3>2, <4>2 DEF ExclusiveAttempt, NoNewTask
      <4> QED  BY <4>1, <4>2 DEF Running
    <3> QED  BY <3>1, <3>2
  <2> QED  BY <2>1, <2>2 DEF IndexPublished, CollectionName
<1>11. LifecycleStep
  <2>1. PICK i \in Jobs : i = j
    BY <1>1
  <2>2. Lifecycle!Complete(i)
    BY <1>1, <1>3, <1>4, <2>1, OneJobChanges DEF Lifecycle!Complete, Lifecycle!Publish
  <2> QED  BY <2>2 DEF LifecycleStep, Lifecycle!Next
<1> QED
  BY <1>5, <1>6, <1>7, <1>8, <1>9, <1>10, <1>11

\* A claim is the start of an execution.
LEMMA StartMaps ==
    ASSUME NEW j \in Jobs,
           job[j].status = "queued", job'[j].status = "processing", job'[j].percent = 0,
           job[j].attempts < MaxAttempts, job'[j].attempts = job[j].attempts + 1,
           job'[j].version = job[j].version + 1,
           \A i \in Jobs : i # j => SameRun(i)
    PROVE  LifecycleStep
<1>1. Lifecycle!Start(j)
  <2>1. /\ [i \in Jobs |-> job'[i].status] =
             [[i \in Jobs |-> job[i].status] EXCEPT ![j] = "processing"]
        /\ [i \in Jobs |-> job'[i].version] =
             [[i \in Jobs |-> job[i].version] EXCEPT ![j] = job[j].version + 1]
    BY OneJobChanges
  <2>2. [i \in Jobs |-> job'[i].attempts] =
             [[i \in Jobs |-> job[i].attempts] EXCEPT ![j] = job[j].attempts + 1]
    BY OneJobChanges
  <2>3. [i \in Jobs |-> job'[i].percent] =
             [[i \in Jobs |-> job[i].percent] EXCEPT ![j] = 0]
    BY OneJobChanges
  <2> QED  BY <2>1, <2>2, <2>3 DEF Lifecycle!Start, Lifecycle!Publish
<1> QED
  BY <1>1 DEF LifecycleStep, Lifecycle!Next

\* A worker starts an attempt that nobody has held before.
LEMMA ClaimStep ==
    ASSUME QueueInv, TypeOK', NEW w \in Workers, NEW j \in Jobs,
           pc[w] \notin Running, pc'[w] = "run",
           job[j].status = "queued", job'[j].status = "processing", job'[j].percent = 0,
           job[j].attempts < MaxAttempts, job'[j].attempts = job[j].attempts + 1,
           job'[j].version = job[j].version + 1,
           job'[j].attempt = job'[j].version,
           task'[w].job = j, task'[w].attempt = job'[j].attempt,
           task'[w].attempts = job'[j].attempts, task'[w].stage = 0,
           \A i \in Jobs : i # j => SameRun(i),
           \A v \in Workers : v # w => pc'[v] = pc[v] /\ task'[v] = task[v],
           UNCHANGED <<collections, snap>>
    PROVE  QueueInv' /\ LifecycleStep
<1> USE TaskFields, DocumentFields DEF QueueInv
<1>1. AttemptsIssued'
  BY DEF AttemptsIssued, SameRun
<1>2. CountersExact'
  BY DEF CountersExact, AttemptsIssued, SameRun
<1>3. ExclusiveAttempt'
  BY DEF ExclusiveAttempt, AttemptsIssued
<1>4. CurrentProgress'
  BY DEF CurrentProgress, AttemptsIssued, SameRun
<1>5. RetryLeft'
  BY DEF RetryLeft, SameRun
<1>6. IndexPublished'
  <2>1. \A v \in Workers :
          pc'[v] = "indexed" => CollectionName(task'[v].attempt) \in collections'[task'[v].job]
    BY DEF IndexPublished, CollectionName, Running
  <2>2. ASSUME NEW i \in Jobs, job'[i].status = "completed"
        PROVE  /\ job'[i].index <= job'[i].version
               /\ CollectionName(job'[i].index) \in collections'[i]
               /\ \A v \in Workers :
                    pc'[v] \in Running /\ task'[v].job = i /\ task'[v].attempt = job'[i].index
                      => pc'[v] = "failing"
    BY <2>2 DEF IndexPublished, SameRun, CollectionName
  <2> QED  BY <2>1, <2>2 DEF IndexPublished, CollectionName
<1>7. LifecycleStep
  BY StartMaps
<1> QED
  BY <1>1, <1>2, <1>3, <1>4, <1>5, <1>6, <1>7

\* The worker that holds the current attempt reports a stage.
LEMMA ReportStep ==
    ASSUME QueueInv, TypeOK', NEW w \in Workers, NEW j \in Jobs,
           pc[w] = "run", UNCHANGED pc, task[w].job = j,
           job[j].status = "processing", job[j].attempt = task[w].attempt,
           job'[j].status = "processing", job'[j].percent = task'[w].stage,
           job'[j].attempt = job[j].attempt, job'[j].attempts = job[j].attempts,
           job'[j].percent \in job[j].percent .. (LastStage - 1),
           job'[j].version = job[j].version + 1,
           task'[w].job = j, task'[w].attempt = task[w].attempt,
           task'[w].attempts = task[w].attempts,
           \A i \in Jobs : i # j => SameRun(i),
           \A v \in Workers : v # w => task'[v] = task[v],
           UNCHANGED <<collections, snap>>
    PROVE  QueueInv' /\ LifecycleStep
<1> USE TaskFields, DocumentFields DEF QueueInv
<1>0. pc[w] \in Running
  BY DEF Running
<1>1. AttemptsIssued'
  BY <1>0 DEF AttemptsIssued, SameRun
<1>2. CountersExact'
  BY <1>0 DEF CountersExact, SameRun
<1>3. ExclusiveAttempt'
  BY <1>0 DEF ExclusiveAttempt
<1>4. CurrentProgress'
  <2>1. ASSUME NEW v \in Workers, pc'[v] \in Running, v # w,
               job'[task'[v].job].status = "processing",
               job'[task'[v].job].attempt = task'[v].attempt
        PROVE  job'[task'[v].job].percent = task'[v].stage
    <3>1. task[v].job # j
      BY <1>0, <2>1 DEF ExclusiveAttempt
    <3> QED  BY <2>1, <3>1 DEF CurrentProgress, SameRun
  <2> QED  BY <2>1 DEF CurrentProgress
<1>5. RetryLeft'
  BY DEF RetryLeft, SameRun
<1>6. IndexPublished'
  <2>1. \A v \in Workers :
          pc'[v] = "indexed" => CollectionName(task'[v].attempt) \in collections'[task'[v].job]
    BY DEF IndexPublished, CollectionName
  <2>2. ASSUME NEW i \in Jobs, job'[i].status = "completed"
        PROVE  /\ job'[i].index <= job'[i].version
               /\ CollectionName(job'[i].index) \in collections'[i]
               /\ \A v \in Workers :
                    pc'[v] \in Running /\ task'[v].job = i /\ task'[v].attempt = job'[i].index
                      => pc'[v] = "failing"
    BY <2>2 DEF IndexPublished, SameRun, CollectionName
  <2> QED  BY <2>1, <2>2 DEF IndexPublished, CollectionName
<1>7. LifecycleStep
  <2>1. Lifecycle!Advance(j)
    BY OneJobChanges DEF Lifecycle!Advance, Lifecycle!Publish
  <2> QED  BY <2>1 DEF LifecycleStep, Lifecycle!Next
<1> QED
  BY <1>1, <1>2, <1>3, <1>4, <1>5, <1>6, <1>7

\* The collection of an attempt is written; its worker may have lost the job.
LEMMA WriteIndexStep ==
    ASSUME QueueInv, TypeOK', NEW w \in Workers, WriteIndex(w)
    PROVE  QueueInv' /\ LifecycleStep
<1> USE TaskFields, DocumentFields DEF QueueInv
<1>0. /\ pc[w] = "indexing" /\ pc[w] \in Running
      /\ pc' = [pc EXCEPT ![w] = IF Mine(w) THEN "indexed" ELSE "failing"]
      /\ collections' = [collections EXCEPT ![task[w].job] =
                            @ \cup {CollectionName(task[w].attempt)}]
      /\ UNCHANGED <<job, task, snap>>
      /\ collections \in [Jobs -> SUBSET Nat] /\ pc \in [Workers -> Idle \cup Running]
  BY DEF WriteIndex, Running, TypeOK
<1>1. \A v \in Workers : pc'[v] \in Running <=> pc[v] \in Running
  BY <1>0 DEF Running
<1>2. AttemptsIssued'
  BY <1>0, <1>1 DEF AttemptsIssued
<1>3. CountersExact'
  BY <1>0, <1>1 DEF CountersExact
<1>4. ExclusiveAttempt'
  BY <1>0, <1>1 DEF ExclusiveAttempt
<1>5. CurrentProgress'
  BY <1>0, <1>1 DEF CurrentProgress
<1>6. RetryLeft'
  BY <1>0 DEF RetryLeft
<1>7. IndexPublished'
  <2>1. \A j \in Jobs : collections[j] \subseteq collections'[j]
    BY <1>0
  <2>2. CollectionName(task[w].attempt) \in collections'[task[w].job]
    BY <1>0
  <2>3. \A v \in Workers :
          pc'[v] = "indexed" => CollectionName(task'[v].attempt) \in collections'[task'[v].job]
    BY <1>0, <2>1, <2>2 DEF IndexPublished, Running
  <2>4. ASSUME NEW i \in Jobs, job'[i].status = "completed"
        PROVE  /\ job'[i].index <= job'[i].version
               /\ CollectionName(job'[i].index) \in collections'[i]
               /\ \A v \in Workers :
                    pc'[v] \in Running /\ task'[v].job = i /\ task'[v].attempt = job'[i].index
                      => pc'[v] = "failing"
    BY <1>0, <1>1, <2>1, <2>4 DEF IndexPublished
  <2> QED  BY <1>0, <2>3, <2>4 DEF IndexPublished, CollectionName
<1>8. LifecycleStep
  BY <1>0, QuietMaps DEF SameRun
<1> QED
  BY <1>2, <1>3, <1>4, <1>5, <1>6, <1>7, <1>8

\* The cursor of recover_expired copies the documents it finds.
LEMMA SnapshotStep ==
    ASSUME QueueInv, TypeOK', NEW w \in Workers, FindExpired(w)
    PROVE  QueueInv' /\ LifecycleStep
<1> USE TaskFields, DocumentFields DEF QueueInv
<1>0. /\ UNCHANGED <<job, task, collections>>
      /\ \A v \in Workers : pc'[v] \in Running <=> pc[v] \in Running
      /\ \A v \in Workers : pc'[v] \in Running => pc'[v] = pc[v]
      /\ \A v \in Workers : v # w => snap'[v] = snap[v]
      /\ \A e \in snap'[w] : \E j \in Jobs :
           e = [job |-> j, attempt |-> job[j].attempt, attempts |-> job[j].attempts]
  BY DEF FindExpired, Running, TypeOK
<1>1. AttemptsIssued'
  <2>1. \A e \in snap'[w] : e.attempt <= job[e.job].version
    BY <1>0 DEF AttemptsIssued
  <2> QED  BY <1>0, <2>1 DEF AttemptsIssued
<1>2. CountersExact'
  <2>1. \A e \in snap'[w] : e.attempts = job[e.job].attempts
    BY <1>0
  <2> QED  BY <1>0, <2>1 DEF CountersExact
<1>3. ExclusiveAttempt' /\ CurrentProgress'
  BY <1>0 DEF ExclusiveAttempt, CurrentProgress
<1>4. RetryLeft'
  BY <1>0 DEF RetryLeft
<1>5. IndexPublished'
  BY <1>0 DEF IndexPublished, CollectionName, Running
<1>6. LifecycleStep
  BY <1>0, QuietMaps DEF SameRun
<1> QED
  BY <1>1, <1>2, <1>3, <1>4, <1>5, <1>6

\* A worker requeues or fails a job whose lease it found expired.
LEMMA RecoverStep ==
    ASSUME QueueInv, TypeOK', NEW w \in Workers, RecoverExpired(w)
    PROVE  QueueInv' /\ LifecycleStep
<1>0. TypeOK
  BY DEF QueueInv
<1> USE <1>0, TaskFields
<1>1. PICK e \in snap[w] :
        /\ snap' = [snap EXCEPT ![w] = @ \ {e}]
        /\ IF StillExpired(w, e)
           THEN Save(e.job, EventUpdate(
                    IF Exhausted(e.attempts)
                    THEN [job[e.job] EXCEPT !.status = "failed"]
                    ELSE [job[e.job] EXCEPT !.status = "queued", !.lease = NoLease,
                              !.next = RetryDelay(e.attempts) - age[w]]))
           ELSE UNCHANGED job
  BY DEF RecoverExpired
<1>2. /\ UNCHANGED <<collections, pc, task>>
      /\ \A v \in Workers : NoNewTask(v)
  BY <1>1 DEF RecoverExpired, NoNewTask, TypeOK
<1>3. e.job \in Jobs /\ e.attempts \in 0 .. MaxAttempts /\ job[e.job] \in Document
  BY <1>1
<1>4. CASE StillExpired(w, e)
  <2>1. e.attempts = job[e.job].attempts /\ job[e.job].status = "processing"
    BY <1>1, <1>4 DEF StillExpired, QueueInv, CountersExact
  <2>2. CASE Exhausted(e.attempts)
    <3> DEFINE new == [job[e.job] EXCEPT !.status = "failed"]
    <3>1. new \in Document
      BY <1>3, DocumentWrites, StatusValues
    <3>2. /\ new.status = "failed" /\ new.version = job[e.job].version
          /\ new.attempt = job[e.job].attempt /\ new.attempts = job[e.job].attempts
          /\ new.percent = job[e.job].percent
      BY <1>3 DEF Document
    <3>3. Save(e.job, EventUpdate(new))
      BY <1>1, <1>4, <2>2
    <3> HIDE DEF new
    <3>4. /\ job'[e.job].status = "failed"
          /\ job'[e.job].version = job[e.job].version + 1
          /\ job'[e.job].attempt = job[e.job].attempt
          /\ job'[e.job].attempts = job[e.job].attempts
          /\ job'[e.job].percent = job[e.job].percent
          /\ \A i \in Jobs : i # e.job => SameRun(i)
      BY <1>3, <3>1, <3>2, <3>3, SavedPublished
    <3>5. job[e.job].attempts = MaxAttempts
      BY <1>3, <2>1, <2>2, QueueAssumption DEF Exhausted
    <3> QED  BY <1>2, <1>3, <2>1, <3>4, <3>5, GiveUpStep
  <2>3. CASE ~Exhausted(e.attempts)
    <3> DEFINE new == [job[e.job] EXCEPT !.status = "queued", !.lease = NoLease,
                              !.next = RetryDelay(e.attempts) - age[w]]
    <3>1. new \in Document
      <4>1. RetryDelay(e.attempts) - age[w] \in Int
        BY <1>3, TimerTypes DEF TypeOK
      <4> QED  BY <1>3, <4>1, DocumentWrites, StatusValues, TimerTypes
    <3>2. /\ new.status = "queued" /\ new.version = job[e.job].version
          /\ new.attempt = job[e.job].attempt /\ new.attempts = job[e.job].attempts
          /\ new.percent = job[e.job].percent
      BY <1>3 DEF Document
    <3>3. Save(e.job, EventUpdate(new))
      BY <1>1, <1>4, <2>3
    <3> HIDE DEF new
    <3>4. /\ job'[e.job].status = "queued"
          /\ job'[e.job].version = job[e.job].version + 1
          /\ job'[e.job].attempt = job[e.job].attempt
          /\ job'[e.job].attempts = job[e.job].attempts
          /\ job'[e.job].percent = job[e.job].percent
          /\ \A i \in Jobs : i # e.job => SameRun(i)
      BY <1>3, <3>1, <3>2, <3>3, SavedPublished
    <3>5. job[e.job].attempts < MaxAttempts
      BY <1>3, <2>1, <2>3, QueueAssumption DEF Exhausted
    <3> QED  BY <1>2, <1>3, <2>1, <3>4, <3>5, GiveUpStep
  <2> QED  BY <2>2, <2>3
<1>5. CASE ~StillExpired(w, e)
  BY <1>1, <1>2, <1>5, QuietStep DEF SameRun
<1> QED
  BY <1>4, <1>5

\* The handler of a failed execution does the same for the job it still holds.
LEMMA FailStep ==
    ASSUME QueueInv, TypeOK', NEW w \in Workers, FailAttempt(w)
    PROVE  QueueInv' /\ LifecycleStep
<1>0. TypeOK
  BY DEF QueueInv
<1> USE <1>0, TaskFields
<1> DEFINE j == task[w].job
<1>1. /\ UNCHANGED <<collections, snap>>
      /\ \A v \in Workers : NoNewTask(v)
  BY DEF FailAttempt, Return, NoNewTask, Running, TypeOK
<1>2. /\ pc[w] \in Running /\ j \in Jobs /\ job[j] \in Document
      /\ task[w].attempts \in 0 .. MaxAttempts
  BY DEF FailAttempt, Running
<1>3. CASE Mine(w)
  <2>1. task[w].attempts = job[j].attempts /\ job[j].status = "processing"
    BY <1>2, <1>3 DEF Mine, Owned, QueueInv, CountersExact
  <2>2. CASE Exhausted(task[w].attempts)
    <3> DEFINE new == [job[j] EXCEPT !.status = "failed", !.lease = NoLease]
    <3>1. new \in Document
      BY <1>2, DocumentWrites, StatusValues, TimerTypes
    <3>2. /\ new.status = "failed" /\ new.version = job[j].version
          /\ new.attempt = job[j].attempt /\ new.attempts = job[j].attempts
          /\ new.percent = job[j].percent
      BY <1>2 DEF Document
    <3>3. Save(j, EventUpdate(new))
      BY <1>3, <2>2 DEF FailAttempt
    <3> HIDE DEF new
    <3>4. /\ job'[j].status = "failed" /\ job'[j].version = job[j].version + 1
          /\ job'[j].attempt = job[j].attempt /\ job'[j].attempts = job[j].attempts
          /\ job'[j].percent = job[j].percent
          /\ \A i \in Jobs : i # j => SameRun(i)
      BY <1>2, <3>1, <3>2, <3>3, SavedPublished
    <3>5. job[j].attempts = MaxAttempts
      BY <1>2, <2>1, <2>2, QueueAssumption DEF Exhausted
    <3> QED  BY <1>1, <1>2, <2>1, <3>4, <3>5, GiveUpStep
  <2>3. CASE ~Exhausted(task[w].attempts)
    <3> DEFINE new == [job[j] EXCEPT !.status = "queued", !.lease = NoLease,
                                     !.next = RetryDelay(task[w].attempts)]
    <3>1. new \in Document
      <4>1. RetryDelay(task[w].attempts) \in Int
        BY <1>2, TimerTypes
      <4> QED  BY <1>2, <4>1, DocumentWrites, StatusValues, TimerTypes
    <3>2. /\ new.status = "queued" /\ new.version = job[j].version
          /\ new.attempt = job[j].attempt /\ new.attempts = job[j].attempts
          /\ new.percent = job[j].percent
      BY <1>2 DEF Document
    <3>3. Save(j, EventUpdate(new))
      BY <1>3, <2>3 DEF FailAttempt
    <3> HIDE DEF new
    <3>4. /\ job'[j].status = "queued" /\ job'[j].version = job[j].version + 1
          /\ job'[j].attempt = job[j].attempt /\ job'[j].attempts = job[j].attempts
          /\ job'[j].percent = job[j].percent
          /\ \A i \in Jobs : i # j => SameRun(i)
      BY <1>2, <3>1, <3>2, <3>3, SavedPublished
    <3>5. job[j].attempts < MaxAttempts
      BY <1>2, <2>1, <2>3, QueueAssumption DEF Exhausted
    <3> QED  BY <1>1, <1>2, <2>1, <3>4, <3>5, GiveUpStep
  <2> QED  BY <2>2, <2>3
<1>4. CASE ~Mine(w)
  BY <1>1, <1>4, QuietStep DEF FailAttempt, SameRun
<1> QED
  BY <1>3, <1>4

\* A claim, from the action to the fields ClaimStep reads.
LEMMA NewAttemptStep ==
    ASSUME QueueInv, TypeOK', NEW w \in Workers, Claim(w)
    PROVE  QueueInv' /\ LifecycleStep
<1>0. TypeOK
  BY DEF QueueInv
<1> USE <1>0, TaskFields
<1>1. PICK j \in Jobs :
        LET doc == FreshAttempt(EventUpdate(
              [job[j] EXCEPT !.status = "processing", !.percent = 0,
                             !.attempts = @ + 1, !.lease = LeaseTicks - age[w]]))
        IN  /\ Claimable(w, j)
            /\ Save(j, doc)
            /\ task' = [task EXCEPT ![w] =
                 [job |-> j, attempt |-> doc.attempt, attempts |-> doc.attempts, stage |-> 0]]
  BY DEF Claim
<1> DEFINE new == [job[j] EXCEPT !.status = "processing", !.percent = 0,
                                 !.attempts = @ + 1, !.lease = LeaseTicks - age[w]]
           doc == FreshAttempt(EventUpdate(new))
<1>2. new \in Document
  <2>0. job[j].attempts < MaxAttempts
    BY <1>1 DEF Claimable
  <2>1. job[j].attempts + 1 \in 0 .. MaxAttempts
    <3>1. job[j] \in Document
      BY DEF TypeOK
    <3>2. job[j].attempts \in 0 .. MaxAttempts
      BY <3>1, DocumentFields
    <3> QED  BY <2>0, <3>2, OneMoreAttempt
  <2>2. LeaseTicks - age[w] \in NoLease .. LeaseTicks
    BY TimerTypes DEF TypeOK
  <2>3. job[j] \in Document /\ "processing" \in Statuses /\ 0 \in 0 .. LastStage
    BY StatusValues DEF TypeOK
  <2> QED  BY <2>1, <2>2, <2>3, DocumentWrites
<1>3. /\ new.status = "processing" /\ new.percent = 0 /\ new.version = job[j].version
      /\ new.attempts = job[j].attempts + 1
  BY DEF Document
<1>4. Save(j, doc)
  BY <1>1
<1> HIDE DEF new
<1>5. /\ job'[j] = doc
      /\ job'[j].status = "processing" /\ job'[j].percent = 0
      /\ job'[j].attempts = job[j].attempts + 1
      /\ job'[j].version = job[j].version + 1
      /\ job'[j].attempt = job'[j].version
      /\ \A i \in Jobs : i # j => SameRun(i)
  BY <1>2, <1>3, <1>4, SavedFenced
<1> USE DEF new
<1>6. task' = [task EXCEPT ![w] =
         [job |-> j, attempt |-> doc.attempt, attempts |-> doc.attempts, stage |-> 0]]
  BY <1>1
<1> HIDE DEF new, doc
<1>7. /\ task'[w].job = j /\ task'[w].attempt = job'[j].attempt
      /\ task'[w].attempts = job'[j].attempts /\ task'[w].stage = 0
      /\ \A v \in Workers : v # w => task'[v] = task[v]
  BY <1>5, <1>6 DEF TypeOK
<1>8. /\ pc[w] \notin Running /\ pc'[w] = "run"
      /\ \A v \in Workers : v # w => pc'[v] = pc[v]
      /\ UNCHANGED <<collections, snap>>
  BY DEF Claim, Running, TypeOK
<1>9. job[j].status = "queued" /\ job[j].attempts < MaxAttempts
  BY <1>1 DEF Claimable
<1> QED
  BY <1>5, <1>7, <1>8, <1>9, ClaimStep

\* A report, from the action to the fields ReportStep reads.
LEMMA StageStep ==
    ASSUME QueueInv, TypeOK', NEW w \in Workers, Report(w)
    PROVE  QueueInv' /\ LifecycleStep
<1>0. TypeOK
  BY DEF QueueInv
<1> USE <1>0, TaskFields
<1> DEFINE j == task[w].job
           stage == task[w].stage + 1
           new == [job[j] EXCEPT !.percent = stage]
<1>1. /\ pc[w] = "run" /\ pc[w] \in Running /\ stage < LastStage
      /\ job[j].status = "processing" /\ job[j].attempt = task[w].attempt
      /\ job[j].percent <= stage
      /\ Save(j, EventUpdate(new))
      /\ task' = [task EXCEPT ![w] = [task[w] EXCEPT !.stage = stage]]
      /\ UNCHANGED <<collections, pc, snap>>
  BY DEF Report, CanReport, Mine, Owned, Running
<1>2. j \in Jobs /\ task[w] \in Task /\ stage \in 0 .. LastStage
  <2>1. task[w] \in Task
    BY <1>1 DEF TypeOK
  <2>2. task[w].job \in Jobs /\ task[w].stage \in 0 .. LastStage
    BY <2>1 DEF Task
  <2>3. stage \in 0 .. LastStage
    BY <1>1, <2>2, OneMoreStage
  <2> QED  BY <2>1, <2>2, <2>3
<1>3. new \in Document
  BY <1>2, DocumentWrites
<1>4. /\ new.status = job[j].status /\ new.percent = stage /\ new.version = job[j].version
      /\ new.attempt = job[j].attempt /\ new.attempts = job[j].attempts
  BY <1>2 DEF Document
<1>5. /\ task'[w].job = j /\ task'[w].attempt = task[w].attempt
      /\ task'[w].attempts = task[w].attempts /\ task'[w].stage = stage
      /\ \A v \in Workers : v # w => task'[v] = task[v]
  BY <1>1, <1>2 DEF TypeOK, Task
<1> HIDE DEF new
<1>6. /\ job'[j].status = "processing" /\ job'[j].percent = stage
      /\ job'[j].attempt = job[j].attempt /\ job'[j].attempts = job[j].attempts
      /\ job'[j].version = job[j].version + 1
      /\ \A i \in Jobs : i # j => SameRun(i)
  BY <1>1, <1>2, <1>3, <1>4, SavedPublished
<1>8. stage \in job[j].percent .. (LastStage - 1)
  BY <1>1, <1>2, DocumentFields, QueueAssumption
<1> HIDE DEF j, stage
<1>7. task[w].job = j /\ UNCHANGED pc
  BY <1>1 DEF j
<1> QED
  BY <1>1, <1>2, <1>5, <1>6, <1>7, <1>8, ReportStep

\* The worker of a completed attempt is "failing", so none starts to index it.
LEMMA EnterStep ==
    ASSUME QueueInv, TypeOK', NEW w \in Workers, EnterIndex(w)
    PROVE  QueueInv' /\ LifecycleStep
<1>0. TypeOK
  BY DEF QueueInv
<1>1. \A v \in Workers : NoNewTask(v)
  BY <1>0 DEF EnterIndex, NoNewTask, Running, TypeOK
<1>2. /\ \A j \in Jobs : SameRun(j)
      /\ \A j \in Jobs : collections[j] \subseteq collections'[j]
  BY DEF EnterIndex, SameRun
<1> QED
  BY <1>1, <1>2, QuietStep

\* Every step preserves the invariant and is a step of the lifecycle.
LEMMA StepInv == QueueInv /\ [Next]_vars => QueueInv' /\ LifecycleStep
<1> SUFFICES ASSUME QueueInv, [Next]_vars PROVE QueueInv' /\ LifecycleStep
  OBVIOUS
<1>0. TypeOK /\ TypeOK'
  BY StepTypes DEF QueueInv
<1> USE <1>0, TaskFields
<1>1. ASSUME NEW j \in Jobs, Accept(j) PROVE QueueInv' /\ LifecycleStep
  <2>1. [job[j] EXCEPT !.ready = TRUE, !.next = 0] \in Document
    <3>1. 0 \in Int /\ job[j] \in Document
      OBVIOUS
    <3> QED  BY <3>1, DocumentWrites, Zenon
  <2>2. \A i \in Jobs : SameRun(i)
    <3>1. /\ job'[j] = [job[j] EXCEPT !.ready = TRUE, !.next = 0]
          /\ \A i \in Jobs : i # j => SameRun(i)
      BY <1>1, <2>1, SavedRun DEF Accept
    <3>2. SameRun(j)
      BY <3>1 DEF SameRun, Document
    <3> QED  BY <3>1, <3>2
  <2> QED  BY <1>1, <2>2, QuietStep DEF Accept, workerVars, NoNewTask
<1>2. ASSUME NEW j \in Jobs, CancelJob(j) PROVE QueueInv' /\ LifecycleStep
  <2> DEFINE new == [job[j] EXCEPT !.status = "cancelled", !.lease = NoLease]
  <2>1. new \in Document
    BY DocumentWrites, StatusValues, TimerTypes
  <2>2. /\ new.status = "cancelled" /\ new.version = job[j].version
        /\ new.percent = job[j].percent /\ new.attempts = job[j].attempts
    BY DEF Document
  <2>3. Save(j, FreshAttempt(EventUpdate(new)))
    BY <1>2 DEF CancelJob
  <2> HIDE DEF new
  <2>4. /\ job'[j].status = "cancelled" /\ job'[j].version = job[j].version + 1
        /\ job'[j].attempt = job'[j].version
        /\ job'[j].percent = job[j].percent /\ job'[j].attempts = job[j].attempts
        /\ \A i \in Jobs : i # j => SameRun(i)
    BY <2>1, <2>2, <2>3, SavedFenced
  <2> QED  BY <1>2, <2>4, FenceStep DEF CancelJob, workerVars
<1>3. ASSUME NEW j \in Jobs, Mark(j), UNCHANGED <<collections, workerVars, faults>>
      PROVE  QueueInv' /\ LifecycleStep
  <2> DEFINE new == [job[j] EXCEPT !.status = "deleting", !.ready = FALSE, !.lease = NoLease]
  <2>1. new \in Document
    BY DocumentWrites, StatusValues, TimerTypes
  <2>2. /\ new.status = "deleting" /\ new.version = job[j].version
        /\ new.percent = job[j].percent /\ new.attempts = job[j].attempts
    BY DEF Document
  <2>3. Save(j, FreshAttempt(EventUpdate(new)))
    BY <1>3 DEF Mark
  <2> HIDE DEF new
  <2>4. /\ job'[j].status = "deleting" /\ job'[j].version = job[j].version + 1
        /\ job'[j].attempt = job'[j].version
        /\ job'[j].percent = job[j].percent /\ job'[j].attempts = job[j].attempts
        /\ \A i \in Jobs : i # j => SameRun(i)
    BY <2>1, <2>2, <2>3, SavedFenced
  <2> QED  BY <1>3, <2>4, FenceStep DEF Mark, workerVars
<1>4. ASSUME NEW w \in Workers, LoopStep(w) PROVE QueueInv' /\ LifecycleStep
  <2>1. CASE LoopTop(w)
    <3>1. \A v \in Workers : NoNewTask(v)
      BY <2>1 DEF LoopTop, NoNewTask, Running, TypeOK
    <3> QED  BY <2>1, <3>1, QuietStep DEF LoopTop, SameRun
  <2>2. CASE FindExpired(w)
    BY <2>2, SnapshotStep
  <2>3. CASE RecoverExpired(w)
    BY <2>3, RecoverStep
  <2>4. CASE Claim(w)
    BY <2>4, NewAttemptStep
  <2>5. CASE Poll(w)
    <3>1. \A v \in Workers : NoNewTask(v)
      BY <2>5 DEF Poll, NoNewTask, Running, TypeOK
    <3> QED  BY <2>5, <3>1, QuietStep DEF Poll, SameRun
  <2> QED  BY <1>4, <2>1, <2>2, <2>3, <2>4, <2>5 DEF LoopStep
<1>5. ASSUME NEW w \in Workers, PipelineStep(w) PROVE QueueInv' /\ LifecycleStep
  <2>1. CASE Report(w)
    BY <2>1, StageStep
  <2>2. CASE EnterIndex(w)
    BY <2>2, EnterStep
  <2>3. CASE WriteIndex(w)
    BY <2>3, WriteIndexStep
  <2>4. CASE Complete(w)
    <3>1. \A v \in Workers : NoNewTask(v) /\ (v # w => pc'[v] = pc[v])
      BY <2>4 DEF Complete, Return, NoNewTask, Running, TypeOK
    <3>2. pc'[w] \in {"top", "failing"}
      BY <2>4 DEF Complete, Return, TypeOK
    <3> QED  BY <2>4, <3>1, <3>2, ResultStep DEF Complete
  <2>5. CASE PipelineFails(w)
    <3>1. \A v \in Workers : NoNewTask(v)
      BY <2>5 DEF PipelineFails, NoNewTask, Running, TypeOK
    <3> QED  BY <2>5, <3>1, QuietStep DEF PipelineFails, SameRun
  <2>6. CASE FailAttempt(w)
    BY <2>6, FailStep
  <2> QED  BY <1>5, <2>1, <2>2, <2>3, <2>4, <2>5, <2>6 DEF PipelineStep
<1>6. ASSUME NEW w \in Workers, Heartbeat(w) PROVE QueueInv' /\ LifecycleStep
  <2>1. \A j \in Jobs : SameRun(j)
    <3>1. CASE Mine(w)
      <4>1. pc[w] \in Running /\ task[w].job \in Jobs
        BY <1>6 DEF Heartbeat, TypeOK, Task
      <4>2. [job[task[w].job] EXCEPT !.lease = Renewed(@)] \in Document
        BY <4>1, DocumentWrites, QueueAssumption, TimerTypes DEF Renewed
      <4>3. /\ job'[task[w].job] = [job[task[w].job] EXCEPT !.lease = Renewed(@)]
            /\ \A i \in Jobs : i # task[w].job => SameRun(i)
        BY <1>6, <3>1, <4>1, <4>2, SavedRun DEF Heartbeat
      <4>4. SameRun(task[w].job)
        BY <4>1, <4>3 DEF SameRun, Document
      <4> QED  BY <4>3, <4>4
    <3>2. CASE ~Mine(w)
      BY <1>6, <3>2 DEF Heartbeat, SameRun
    <3> QED  BY <3>1, <3>2
  <2>2. \A v \in Workers : NoNewTask(v)
    BY <1>6 DEF Heartbeat, NoNewTask
  <2> QED  BY <1>6, <2>1, <2>2, QuietStep DEF Heartbeat
<1>7. ASSUME NEW w \in Workers, FaultStep(w) PROVE QueueInv' /\ LifecycleStep
  <2>1. CASE Interrupt(w)
    <3>1. \A v \in Workers : NoNewTask(v)
      BY <2>1 DEF Interrupt, NoNewTask, Running, TypeOK
    <3> QED  BY <2>1, <3>1, QuietStep DEF Interrupt, SameRun
  <2>2. CASE CompleteUnknown(w)
    <3>1. \A v \in Workers : NoNewTask(v) /\ (v # w => pc'[v] = pc[v])
      BY <2>2 DEF CompleteUnknown, StoreResult, NoNewTask, Running, TypeOK
    <3>2. pc'[w] \in {"top", "failing"}
      BY <2>2 DEF CompleteUnknown, TypeOK
    <3> QED  BY <2>2, <3>1, <3>2, ResultStep DEF CompleteUnknown
  <2>3. CASE FailWriteLost(w)
    <3>1. \A v \in Workers : NoNewTask(v)
      BY <2>3 DEF FailWriteLost, Return, NoNewTask, Running, TypeOK
    <3> QED  BY <2>3, <3>1, QuietStep DEF FailWriteLost, Return, SameRun
  <2>4. CASE Crash(w)
    <3>1. \A v \in Workers : NoNewTask(v)
      BY <2>4 DEF Crash, NoNewTask, Running, TypeOK
    <3> QED  BY <2>4, <3>1, QuietStep DEF Crash, SameRun
  <2> QED  BY <1>7, <2>1, <2>2, <2>3, <2>4 DEF FaultStep
<1>8. ASSUME NEW w \in Workers, Restart(w) PROVE QueueInv' /\ LifecycleStep
  <2>1. \A v \in Workers : NoNewTask(v)
    BY <1>8 DEF Restart, NoNewTask, Running, TypeOK
  <2> QED  BY <1>8, <2>1, QuietStep DEF Restart, SameRun
<1>9. CASE Tick
  <2>1. \A j \in Jobs : SameRun(j)
    BY <1>9 DEF Tick, SameRun, Document
  <2>2. \A v \in Workers : NoNewTask(v)
    BY <1>9 DEF Tick, NoNewTask
  <2> QED  BY <1>9, <2>1, <2>2, QuietStep DEF Tick
<1>10. CASE UNCHANGED vars
  BY <1>10, QuietStep DEF vars, workerVars, SameRun, NoNewTask
<1> QED
  BY <1>1, <1>2, <1>3, <1>4, <1>5, <1>6, <1>7, <1>8, <1>9, <1>10
  DEF Next, GatewayStep, DeleteJob, ExpireJob

\* In every reachable state no two workers execute one attempt, no report of a
\* superseded attempt is visible, the retry bound is kept and the index of a
\* completed job is whole: the invariant they hold by.
THEOREM InvCorrect == Spec => []QueueInv
<1>1. QueueInv /\ [Next]_vars => QueueInv'
  BY StepInv
<1> QED
  BY <1>1, InitInv, PTL DEF Spec

\* Two workers never execute the same attempt of a job.
THEOREM AttemptsExclusive == Spec => []ExclusiveAttempt
<1>1. QueueInv => ExclusiveAttempt
  BY DEF QueueInv
<1> QED
  BY <1>1, InvCorrect, PTL

\* The percentage of a job is the one its current attempt reported.
THEOREM ProgressCurrent == Spec => []CurrentProgress
<1>1. QueueInv => CurrentProgress
  BY DEF QueueInv
<1> QED
  BY <1>1, InvCorrect, PTL

\* A queued job has an attempt left and a failed one has none.
THEOREM RetriesBounded == Spec => []RetryLeft
<1>1. QueueInv => RetryLeft
  BY DEF QueueInv
<1> QED
  BY <1>1, InvCorrect, PTL

\* The index of a completed job is there and nobody writes to it.
THEOREM IndexWhole == Spec => []IndexIntact
<1>1. QueueInv => IndexIntact
  BY DEF QueueInv, IndexPublished, IndexIntact, CollectionName, Running
<1> QED
  BY <1>1, InvCorrect, PTL

\* The queue implements the lifecycle the owner of a job relies on.
THEOREM LifecycleImplemented == Spec => ImplementsLifecycle
<1>1. Init => Lifecycle!Init
  BY DEF Init, Lifecycle!Init
<1>2. QueueInv /\ [Next]_vars => LifecycleStep
  BY StepInv
<1> QED
  BY <1>1, <1>2, InvCorrect, PTL DEF Spec, ImplementsLifecycle, Lifecycle!Spec, LifecycleStep

\* A step of the lifecycle gives one job its next version and leaves the others.
LEMMA LifecyclePublishes ==
    ASSUME TypeOK, Lifecycle!Next
    PROVE  \A j \in Jobs : PublishedStep(j)
<1>1. PICK k \in Jobs :
        \/ Lifecycle!Start(k) \/ Lifecycle!Advance(k) \/ Lifecycle!Complete(k)
        \/ Lifecycle!Requeue(k) \/ Lifecycle!Fail(k) \/ Lifecycle!Cancel(k)
        \/ Lifecycle!Delete(k)
  BY DEF Lifecycle!Next
<1>2. PICK s : Lifecycle!Publish(k, s) /\ Kind(s) \in NextKinds(Kind(job[k].status))
  <2>1. CASE Lifecycle!Start(k)
    BY <2>1 DEF Lifecycle!Start, Kind, NextKinds
  <2>2. CASE Lifecycle!Advance(k)
    BY <2>2 DEF Lifecycle!Advance, Kind, NextKinds
  <2>3. CASE Lifecycle!Complete(k)
    BY <2>3 DEF Lifecycle!Complete, Kind, NextKinds
  <2>4. CASE Lifecycle!Requeue(k) \/ Lifecycle!Fail(k)
    BY <2>4 DEF Lifecycle!Requeue, Lifecycle!Fail, Kind, NextKinds
  <2>5. CASE Lifecycle!Cancel(k)
    BY <2>5 DEF Lifecycle!Cancel, Kind, NextKinds
  <2>6. CASE Lifecycle!Delete(k)
    <3>1. job[k].status \in Statuses \ {"deleting"}
      BY <2>6 DEF TypeOK, Document, Lifecycle!Delete
    <3>2. Kind("deleting") \in NextKinds(Kind(job[k].status))
      BY <3>1 DEF Statuses, Settled, Kind, NextKinds
    <3> QED
      BY <2>6, <3>2 DEF Lifecycle!Delete
  <2> QED
    BY <1>1, <2>1, <2>2, <2>3, <2>4, <2>5, <2>6
<1>3. ASSUME NEW j \in Jobs, j # k
      PROVE  UNCHANGED <<job[j].status, job[j].percent, job[j].attempts, job[j].version>>
  <2>1. job'[j].status = job[j].status /\ job'[j].version = job[j].version
    BY <1>2, <1>3 DEF Lifecycle!Publish
  <2>2. job'[j].percent = job[j].percent /\ job'[j].attempts = job[j].attempts
    BY <1>1, <1>3
    DEF Lifecycle!Start, Lifecycle!Advance, Lifecycle!Complete, Lifecycle!Requeue,
        Lifecycle!Fail, Lifecycle!Cancel, Lifecycle!Delete
  <2> QED
    BY <2>1, <2>2
<1>4. job'[k].version = job[k].version + 1 /\ job'[k].status = s
  BY <1>2 DEF Lifecycle!Publish
<1> QED
  BY <1>2, <1>3, <1>4 DEF PublishedStep

\* Whatever workers and owners do, what a version says of a job never changes, and
\* the next version follows it as the views of the job expect.
THEOREM ViewsMayMerge == Spec => PublishedInSteps
<1>1. QueueInv /\ [Next]_vars => \A j \in Jobs : PublishedStep(j)
  <2> SUFFICES ASSUME TypeOK, LifecycleStep PROVE \A j \in Jobs : PublishedStep(j)
    BY StepInv DEF QueueInv
  <2>1. CASE Lifecycle!Next
    BY <2>1, LifecyclePublishes
  <2>2. CASE UNCHANGED Lifecycle!vars
    BY <2>2 DEF Lifecycle!vars, PublishedStep
  <2> QED
    BY <2>1, <2>2 DEF LifecycleStep
<1> QED
  BY <1>1, InvCorrect, PTL DEF Spec, PublishedInSteps

----------------------------------------------------------------------------
(* What a step makes of one document *)

\* An execution holds a job when its attempt is the current one.
Holds(w, j) ==
    pc[w] \in Running /\ task[w].job = j /\ task[w].attempt = job[j].attempt

\* The counter of claims of a document, and whether it may run, are left alone.
CountKept(j) == job'[j].attempts = job[j].attempts
ReadyKept(j) == job'[j].ready = job[j].ready

\* Every step leaves the document of j alone or writes it in one of these ways.
Rests(j) == job'[j] = job[j]
Aged(j) ==
    Tick /\ job'[j] = [job[j] EXCEPT !.next = Earlier(@), !.lease = Earlier(@)]
Accepted(j) ==
    job[j].status = "queued" /\ ~job[j].ready
      /\ job'[j] = [job[j] EXCEPT !.ready = TRUE, !.next = 0]
Ended(j) ==
    /\ job'[j].status \in {"cancelled", "deleting", "failed"}
    /\ job'[j].next = job[j].next /\ CountKept(j)
Requeued(j) ==
    /\ job[j].status = "processing" /\ job'[j].status = "queued"
    /\ \E n \in Nat : job'[j].next <= RetryDelay(n)
    /\ CountKept(j) /\ ReadyKept(j)
Claimed(j) ==
    \E w \in Workers :
       /\ Claim(w) /\ job[j].status = "queued" /\ job'[j].status = "processing"
       /\ job'[j].lease = LeaseTicks - age[w] /\ job'[j].next = job[j].next
       /\ job[j].ready /\ job'[j].ready
       /\ job'[j].attempts = job[j].attempts + 1
Held(j) ==
    \E w \in Workers :
       /\ Holds(w, j) /\ job[j].status = "processing"
       /\ job'[j].status \in {"processing", "completed"}
       /\ job'[j].attempt = job[j].attempt /\ job'[j].next = job[j].next
       /\ job'[j].lease \in {job[j].lease, LeaseTicks}
       /\ CountKept(j) /\ ReadyKept(j)

DocumentMove(j) ==
    Rests(j) \/ Aged(j) \/ Accepted(j) \/ Ended(j) \/ Requeued(j) \/ Claimed(j) \/ Held(j)

\* A document that is written is the one that changes.
LEMMA OnlySaved ==
    ASSUME TypeOK, NEW i \in Jobs, NEW doc \in Document, Save(i, doc), NEW j \in Jobs
    PROVE  (i # j => Rests(j)) /\ (i = j => job'[j] = doc)
  BY SaveDocument DEF TypeOK, Rests

\* What recover_expired makes of a document ...
LEMMA RecoverMoves ==
    ASSUME QueueInv, NEW w \in Workers, RecoverExpired(w), NEW j \in Jobs
    PROVE  DocumentMove(j)
<1>0. TypeOK
  BY DEF QueueInv
<1>1. PICK e \in snap[w] :
         IF StillExpired(w, e)
           THEN Save(e.job, EventUpdate(
                    IF Exhausted(e.attempts)
                    THEN [job[e.job] EXCEPT !.status = "failed"]
                    ELSE [job[e.job] EXCEPT !.status = "queued", !.lease = NoLease,
                              !.next = RetryDelay(e.attempts) - age[w]]))
           ELSE UNCHANGED job
  BY DEF RecoverExpired
<1>2. e.job \in Jobs /\ e.attempts \in 0 .. MaxAttempts /\ job[e.job] \in Document
      /\ age[w] \in 0 .. MaxLag
  BY <1>0, TaskFields DEF TypeOK
<1>3. CASE StillExpired(w, e) /\ Exhausted(e.attempts)
  <2> DEFINE new == EventUpdate([job[e.job] EXCEPT !.status = "failed"])
  <2>1. new \in Document /\ new.status = "failed" /\ new.next = job[e.job].next
        /\ new.attempts = job[e.job].attempts
    <3>1. [job[e.job] EXCEPT !.status = "failed"] \in Document
      BY <1>2, DocumentWrites, StatusValues
    <3> QED
      BY <1>2, <3>1, WriteTypes DEF Document, EventUpdate
  <2>2. Save(e.job, new)
    BY <1>1, <1>3
  <2> HIDE DEF new
  <2> QED
    BY <1>0, <1>2, <2>1, <2>2, OnlySaved DEF DocumentMove, Ended, CountKept
<1>4. CASE StillExpired(w, e) /\ ~Exhausted(e.attempts)
  <2> DEFINE n == RetryDelay(e.attempts) - age[w]
             new == EventUpdate([job[e.job] EXCEPT !.status = "queued", !.lease = NoLease,
                                                   !.next = n])
  <2>1. n \in Int /\ n <= RetryDelay(e.attempts) /\ e.attempts \in Nat
    <3>1. e.attempts \in Nat /\ age[w] \in Nat
      BY <1>2, QueueAssumption
    <3>2. RetryDelay(e.attempts) \in Int
      BY <3>1, TimerTypes
    <3> HIDE DEF new
    <3> QED
      BY <3>1, <3>2
  <2> HIDE DEF n
  <2>2. new \in Document /\ new.status = "queued" /\ new.next = n
        /\ new.attempts = job[e.job].attempts /\ new.ready = job[e.job].ready
    <3>1. [job[e.job] EXCEPT !.status = "queued", !.lease = NoLease, !.next = n] \in Document
      BY <1>2, <2>1, DocumentWrites, StatusValues, TimerTypes
    <3> QED
      BY <1>2, <3>1, WriteTypes DEF Document, EventUpdate
  <2>3. Save(e.job, new) /\ job[e.job].status = "processing"
    BY <1>1, <1>4 DEF StillExpired, n
  <2> HIDE DEF new
  <2>4. CASE e.job = j
    <3>1. job'[j] = new
      BY <1>0, <1>2, <2>2, <2>3, <2>4, OnlySaved
    <3> QED
      BY <2>1, <2>2, <2>3, <2>4, <3>1 DEF DocumentMove, Requeued, CountKept, ReadyKept
  <2>5. CASE e.job # j
    BY <1>0, <1>2, <2>2, <2>3, <2>5, OnlySaved DEF DocumentMove
  <2> QED
    BY <2>4, <2>5
<1>5. CASE ~StillExpired(w, e)
  BY <1>1, <1>5 DEF DocumentMove, Rests
<1> QED
  BY <1>3, <1>4, <1>5

\* ... what a claim does, which writes the claimed one and no other ...
LEMMA ClaimMoves ==
    ASSUME QueueInv, NEW w \in Workers, Claim(w)
    PROVE  /\ \A j \in Jobs : Rests(j) \/ Claimed(j)
           /\ \E j \in Jobs : Claimed(j)
<1>0. TypeOK
  BY DEF QueueInv
<1>1. PICK i \in Jobs :
         /\ Claimable(w, i)
         /\ Save(i, FreshAttempt(EventUpdate(
                [job[i] EXCEPT !.status = "processing", !.percent = 0,
                               !.attempts = @ + 1, !.lease = LeaseTicks - age[w]])))
  BY DEF Claim
<1>2. job[i] \in Document /\ age[w] \in 0 .. MaxLag
  BY <1>0, TaskFields DEF TypeOK
<1>3. job[i].status = "queued" /\ job[i].attempts \in 0 .. MaxAttempts
      /\ job[i].attempts < MaxAttempts /\ job[i].ready
  BY <1>1, <1>2, DocumentFields DEF Claimable
<1> DEFINE l == LeaseTicks - age[w]  a == job[i].attempts + 1
           d == [job[i] EXCEPT !.status = "processing", !.percent = 0,
                               !.attempts = a, !.lease = l]
           new == FreshAttempt(EventUpdate(d))
<1>4. l \in NoLease .. LeaseTicks /\ a \in 0 .. MaxAttempts
  BY <1>2, <1>3, TimerTypes, OneMoreAttempt
<1>5. Save(i, new)
  BY <1>1
<1> HIDE DEF l, a
<1>6. /\ new \in Document /\ new.status = "processing" /\ new.lease = l
      /\ new.attempts = a /\ new.next = job[i].next /\ new.ready = job[i].ready
  <2>1. [job[i] EXCEPT !.status = "processing", !.percent = 0, !.attempts = a, !.lease = l]
           \in Document
    BY <1>2, <1>4, DocumentWrites, StatusValues
  <2>2. new \in Document
    <3>1. EventUpdate(d) \in Document
      BY <2>1, WriteTypes
    <3> QED
      BY <3>1, WriteTypes
  <2>3. /\ new.status = d.status /\ new.lease = d.lease /\ new.attempts = d.attempts
        /\ new.next = d.next /\ new.ready = d.ready
    <3> HIDE DEF d
    <3> QED
      BY <2>1 DEF Document, EventUpdate, FreshAttempt
  <2>4. /\ d.status = "processing" /\ d.lease = l /\ d.attempts = a
        /\ d.next = job[i].next /\ d.ready = job[i].ready
    BY <1>2 DEF Document
  <2> QED
    BY <2>2, <2>3, <2>4
<1> HIDE DEF new
<1>7. Claimed(i)
  <2>1. job'[i] = new
    BY <1>0, <1>5, <1>6, OnlySaved
  <2> QED
    BY <1>3, <1>6, <2>1 DEF Claimed, l, a
<1>8. \A j \in Jobs : j # i => Rests(j)
  BY <1>0, <1>5, <1>6, OnlySaved
<1> QED
  BY <1>7, <1>8

\* ... what an execution reports or its heartbeat renews, of the document it owns ...
LEMMA ExecutionMoves ==
    ASSUME QueueInv, NEW w \in Workers, NEW j \in Jobs,
           Report(w) \/ StoreResult(w) \/ Heartbeat(w)
    PROVE  Rests(j) \/ Held(j)
<1>0. TypeOK
  BY DEF QueueInv
<1> DEFINE i == task[w].job
<1>1. pc[w] \in Running
  BY <1>0 DEF Report, StoreResult, Heartbeat, Running, TypeOK
<1>2. i \in Jobs /\ job[i] \in Document /\ task[w].stage \in 0 .. LastStage
      /\ task[w].attempt \in Nat
  BY <1>0, <1>1, TaskFields
<1>3. CASE ~Mine(w)
  BY <1>3 DEF Report, StoreResult, CanReport, Heartbeat, Rests
<1>4. CASE Mine(w)
  <2>1. Holds(w, i) /\ job[i].status = "processing"
    BY <1>1, <1>4 DEF Mine, Owned, Holds
  <2>2. ASSUME NEW doc \in Document, Save(i, doc),
               doc.status \in {"processing", "completed"},
               doc.attempt = job[i].attempt, doc.next = job[i].next,
               doc.lease \in {job[i].lease, LeaseTicks},
               doc.attempts = job[i].attempts, doc.ready = job[i].ready
        PROVE  Rests(j) \/ Held(j)
    BY <1>0, <1>2, <2>1, <2>2, OnlySaved DEF Held, CountKept, ReadyKept
  <2>3. CASE Report(w)
    <3> DEFINE s == task[w].stage + 1
               new == EventUpdate([job[i] EXCEPT !.percent = s])
    <3>1. s \in 0 .. LastStage /\ Save(i, new)
      BY <1>2, <2>3, QueueAssumption DEF Report
    <3> HIDE DEF s
    <3>2. new \in Document /\ new.status = job[i].status
          /\ new.attempt = job[i].attempt /\ new.next = job[i].next /\ new.lease = job[i].lease
          /\ new.attempts = job[i].attempts /\ new.ready = job[i].ready
      <4>1. [job[i] EXCEPT !.percent = s] \in Document
        BY <1>2, <3>1, DocumentWrites
      <4> QED
        BY <1>2, <4>1, WriteTypes DEF Document, EventUpdate
    <3> HIDE DEF new
    <3> QED
      BY <2>1, <2>2, <3>1, <3>2
  <2>4. CASE StoreResult(w)
    <3> DEFINE new == EventUpdate([job[i] EXCEPT !.status = "completed", !.percent = LastStage,
                                                 !.index = task[w].attempt])
    <3>1. Save(i, new)
      BY <2>4 DEF StoreResult
    <3>2. new \in Document /\ new.status = "completed"
          /\ new.attempt = job[i].attempt /\ new.next = job[i].next /\ new.lease = job[i].lease
          /\ new.attempts = job[i].attempts /\ new.ready = job[i].ready
      <4>1. [job[i] EXCEPT !.status = "completed", !.percent = LastStage,
                           !.index = task[w].attempt] \in Document
        BY <1>2, DocumentWrites, StatusValues
      <4> QED
        BY <1>2, <4>1, WriteTypes DEF Document, EventUpdate
    <3> HIDE DEF new
    <3> QED
      BY <2>2, <3>1, <3>2
  <2>5. CASE Heartbeat(w)
    <3> DEFINE new == [job[i] EXCEPT !.lease = LeaseTicks]
    <3>1. Save(i, new)
      BY <1>4, <2>5 DEF Heartbeat, Renewed
    <3>2. new \in Document /\ new.status = job[i].status /\ new.lease = LeaseTicks
          /\ new.attempt = job[i].attempt /\ new.next = job[i].next
          /\ new.attempts = job[i].attempts /\ new.ready = job[i].ready
      <4>1. LeaseTicks \in NoLease .. LeaseTicks
        BY TimerTypes, QueueAssumption DEF Renewed
      <4>2. new \in Document
        BY <1>2, <4>1, DocumentWrites
      <4> QED
        BY <1>2, <4>2 DEF Document
    <3> HIDE DEF new
    <3> QED
      BY <2>1, <2>2, <3>1, <3>2
  <2> QED
    BY <2>3, <2>4, <2>5
<1> QED
  BY <1>3, <1>4

\* ... what the handler of a failed execution writes ...
LEMMA FailMoves ==
    ASSUME QueueInv, NEW w \in Workers, FailAttempt(w), NEW j \in Jobs
    PROVE  DocumentMove(j)
<1>0. TypeOK
  BY DEF QueueInv
<1> DEFINE i == task[w].job
<1>1. pc[w] \in Running
  BY DEF FailAttempt, Running
<1>2. i \in Jobs /\ job[i] \in Document /\ task[w].attempts \in 0 .. MaxAttempts
  BY <1>0, <1>1, TaskFields
<1>3. CASE ~Mine(w)
  BY <1>3 DEF FailAttempt, DocumentMove, Rests
<1>4. CASE Mine(w) /\ Exhausted(task[w].attempts)
  <2> DEFINE new == EventUpdate([job[i] EXCEPT !.status = "failed", !.lease = NoLease])
  <2>1. Save(i, new)
    BY <1>4 DEF FailAttempt
  <2>2. new \in Document /\ new.status = "failed" /\ new.next = job[i].next
        /\ new.attempts = job[i].attempts
    <3>1. [job[i] EXCEPT !.status = "failed", !.lease = NoLease] \in Document
      BY <1>2, DocumentWrites, StatusValues, TimerTypes
    <3> QED
      BY <1>2, <3>1, WriteTypes DEF Document, EventUpdate
  <2> HIDE DEF new
  <2> QED
    BY <1>0, <1>2, <2>1, <2>2, OnlySaved DEF DocumentMove, Ended, CountKept
<1>5. CASE Mine(w) /\ ~Exhausted(task[w].attempts)
  <2> DEFINE n == RetryDelay(task[w].attempts)
             new == EventUpdate([job[i] EXCEPT !.status = "queued", !.lease = NoLease, !.next = n])
  <2>1. n \in Int /\ task[w].attempts \in Nat
    <3>1. task[w].attempts \in Nat
      BY <1>2, QueueAssumption
    <3> HIDE DEF new
    <3> QED
      BY <3>1, TimerTypes
  <2>2. Save(i, new) /\ job[i].status = "processing"
    BY <1>5 DEF FailAttempt, Mine, Owned
  <2> HIDE DEF n
  <2>3. new \in Document /\ new.status = "queued" /\ new.next = n
        /\ new.attempts = job[i].attempts /\ new.ready = job[i].ready
    <3>1. [job[i] EXCEPT !.status = "queued", !.lease = NoLease, !.next = n] \in Document
      BY <1>2, <2>1, DocumentWrites, StatusValues, TimerTypes
    <3> QED
      BY <1>2, <3>1, WriteTypes DEF Document, EventUpdate
  <2> HIDE DEF new
  <2>4. CASE i = j
    <3>1. job'[j] = new /\ n <= RetryDelay(task[w].attempts)
      BY <1>0, <1>2, <2>1, <2>2, <2>3, <2>4, OnlySaved DEF n
    <3> QED
      BY <2>1, <2>2, <2>3, <2>4, <3>1 DEF DocumentMove, Requeued, CountKept, ReadyKept
  <2>5. CASE i # j
    BY <1>0, <1>2, <2>2, <2>3, <2>5, OnlySaved DEF DocumentMove
  <2> QED
    BY <2>4, <2>5
<1> QED
  BY <1>3, <1>4, <1>5

\* ... and what the gateway and the retention write.
LEMMA GatewayMoves ==
    ASSUME QueueInv, NEW i \in Jobs, CancelJob(i) \/ Mark(i) \/ Accept(i), NEW j \in Jobs
    PROVE  DocumentMove(j)
<1>0. TypeOK /\ job[i] \in Document
  BY TaskFields DEF QueueInv
<1>1. ASSUME NEW doc \in Document, Save(i, FreshAttempt(EventUpdate(doc))),
             doc.status \in {"cancelled", "deleting"}, doc.next = job[i].next,
             doc.attempts = job[i].attempts
      PROVE  DocumentMove(j)
  <2> DEFINE new == FreshAttempt(EventUpdate(doc))
  <2>1. new \in Document /\ new.status = doc.status /\ new.next = doc.next
        /\ new.attempts = doc.attempts
    BY WriteTypes DEF Document, EventUpdate, FreshAttempt
  <2>2. Save(i, new)
    BY <1>1
  <2> HIDE DEF new
  <2> QED
    BY <1>0, <1>1, <2>1, <2>2, OnlySaved DEF DocumentMove, Ended, CountKept
<1>2. CASE CancelJob(i)
  <2> DEFINE new == [job[i] EXCEPT !.status = "cancelled", !.lease = NoLease]
  <2>1. Save(i, FreshAttempt(EventUpdate(new)))
    BY <1>2 DEF CancelJob
  <2>2. new \in Document
    BY <1>0, DocumentWrites, StatusValues, TimerTypes
  <2>3. new.status = "cancelled" /\ new.next = job[i].next /\ new.attempts = job[i].attempts
    BY <1>0 DEF Document
  <2> HIDE DEF new
  <2> QED
    BY <1>1, <2>1, <2>2, <2>3
<1>3. CASE Mark(i)
  <2> DEFINE new == [job[i] EXCEPT !.status = "deleting", !.ready = FALSE, !.lease = NoLease]
  <2>1. Save(i, FreshAttempt(EventUpdate(new)))
    BY <1>3 DEF Mark
  <2>2. new \in Document
    BY <1>0, DocumentWrites, StatusValues, TimerTypes
  <2>3. new.status = "deleting" /\ new.next = job[i].next /\ new.attempts = job[i].attempts
    BY <1>0 DEF Document
  <2> HIDE DEF new
  <2> QED
    BY <1>1, <2>1, <2>2, <2>3
<1>4. CASE Accept(i)
  <2> DEFINE new == [job[i] EXCEPT !.ready = TRUE, !.next = 0]
  <2>1. Save(i, new)
    BY <1>4 DEF Accept
  <2>2. new \in Document
    <3>1. 0 \in Int
      OBVIOUS
    <3> QED
      BY <1>0, <3>1, DocumentWrites, Zenon
  <2> HIDE DEF new
  <2> QED
    BY <1>0, <1>4, <2>1, <2>2, OnlySaved DEF DocumentMove, Accepted, Accept, new
<1> QED
  BY <1>2, <1>3, <1>4

\* These are all the ways.
LEMMA DocumentNext ==
    ASSUME QueueInv, [Next]_vars, NEW j \in Jobs
    PROVE  DocumentMove(j)
<1>2. ASSUME NEW w \in Workers, FaultStep(w) PROVE DocumentMove(j)
  <2>1. Interrupt(w) \/ FailWriteLost(w) \/ Crash(w) => Rests(j)
    BY DEF Interrupt, FailWriteLost, Crash, Rests
  <2>2. CompleteUnknown(w) => StoreResult(w)
    BY DEF CompleteUnknown
  <2> QED
    BY <1>2, <2>1, <2>2, ExecutionMoves DEF FaultStep, DocumentMove
<1>3. ASSUME NEW w \in Workers, LoopStep(w) PROVE DocumentMove(j)
  <2>1. LoopTop(w) \/ FindExpired(w) \/ Poll(w) => Rests(j)
    BY DEF LoopTop, FindExpired, Poll, Rests
  <2> QED
    BY <1>3, <2>1, RecoverMoves, ClaimMoves DEF LoopStep, DocumentMove
<1>4. ASSUME NEW w \in Workers, PipelineStep(w) PROVE DocumentMove(j)
  <2>1. EnterIndex(w) \/ WriteIndex(w) \/ PipelineFails(w) => Rests(j)
    BY DEF EnterIndex, WriteIndex, PipelineFails, Rests
  <2>2. Complete(w) => StoreResult(w)
    BY DEF Complete
  <2> QED
    BY <1>4, <2>1, <2>2, ExecutionMoves, FailMoves DEF PipelineStep, DocumentMove
<1>5. ASSUME NEW w \in Workers, Heartbeat(w) PROVE DocumentMove(j)
  BY <1>5, ExecutionMoves DEF DocumentMove
<1>6. ASSUME NEW i \in Jobs, GatewayStep(i) PROVE DocumentMove(j)
  BY <1>6, GatewayMoves DEF GatewayStep, DeleteJob
<1>7. ASSUME NEW w \in Workers, NEW i \in Jobs, ExpireJob(w, i) PROVE DocumentMove(j)
  BY <1>7, GatewayMoves DEF ExpireJob
<1>8. ASSUME NEW w \in Workers, Restart(w) PROVE DocumentMove(j)
  BY <1>8 DEF Restart, DocumentMove, Rests
<1>9. UNCHANGED vars => DocumentMove(j)
  BY DEF vars, DocumentMove, Rests
<1>10. Tick => Aged(j)
  BY DEF Tick, Aged
<1> QED
  BY <1>2, <1>3, <1>4, <1>5, <1>6, <1>7, <1>8, <1>9, <1>10 DEF Next, DocumentMove

----------------------------------------------------------------------------
(* What a step makes of one worker *)

\* It takes no step.
Idles(w) == pc'[w] = pc[w] /\ task'[w] = task[w] /\ snap'[w] = snap[w]

\* A worker is where it was unless it takes a step itself.
LEMMA WorkerNext ==
    ASSUME TypeOK, [Next]_vars, NEW w \in Workers
    PROVE  Idles(w) \/ LoopStep(w) \/ PipelineStep(w) \/ FaultStep(w) \/ Restart(w)
<1> USE DEF TypeOK
<1>1. ASSUME NEW v \in Workers, LoopStep(v), v # w PROVE Idles(w)
  <2>1. LoopTop(v) \/ FindExpired(v) \/ RecoverExpired(v) \/ Poll(v) => Idles(w)
    BY <1>1 DEF LoopTop, FindExpired, RecoverExpired, Poll, Idles
  <2>2. Claim(v) => Idles(w)
    BY <1>1 DEF Claim, Idles
  <2> QED
    BY <1>1, <2>1, <2>2 DEF LoopStep
<1>2. ASSUME NEW v \in Workers, PipelineStep(v), v # w PROVE Idles(w)
  <2>1. Report(v) => Idles(w)
    BY <1>2 DEF Report, Idles
  <2>2. EnterIndex(v) \/ WriteIndex(v) \/ PipelineFails(v) => Idles(w)
    BY <1>2 DEF EnterIndex, WriteIndex, PipelineFails, Idles
  <2>3. Complete(v) \/ FailAttempt(v) => Idles(w)
    BY <1>2 DEF Complete, FailAttempt, Return, Idles
  <2> QED
    BY <1>2, <2>1, <2>2, <2>3 DEF PipelineStep
<1>3. ASSUME NEW v \in Workers, FaultStep(v), v # w PROVE Idles(w)
  BY <1>3 DEF FaultStep, Interrupt, CompleteUnknown, FailWriteLost, Crash, Return, Idles
<1>4. ASSUME NEW v \in Workers, Restart(v), v # w PROVE Idles(w)
  BY <1>4 DEF Restart, Idles
<1>5. ASSUME NEW v \in Workers, Heartbeat(v) PROVE Idles(w)
  BY <1>5 DEF Heartbeat, Idles
<1>6. ASSUME NEW j \in Jobs, GatewayStep(j) PROVE Idles(w)
  BY <1>6 DEF GatewayStep, Accept, CancelJob, DeleteJob, workerVars, Idles
<1>7. ASSUME NEW v \in Workers, NEW j \in Jobs, ExpireJob(v, j) PROVE Idles(w)
  BY <1>7 DEF ExpireJob, workerVars, Idles
<1>8. Tick \/ UNCHANGED vars => Idles(w)
  BY DEF Tick, vars, workerVars, Idles
<1> QED
  BY <1>1, <1>2, <1>3, <1>4, <1>5, <1>6, <1>7, <1>8 DEF Next

----------------------------------------------------------------------------
(* What the liveness of the queue needs besides QueueInv *)

\* No number of the system is above a billion.  The provers do no induction over numbers
\* in temporal formulas, so a descent needs a number it is sure to pass.
Billion == 1000000000
Moderate ==
    /\ Jobs \subseteq 0 .. Billion - 1
    /\ LastStage <= Billion /\ MaxAttempts <= Billion
    /\ LeaseTicks <= Billion /\ MaxLag <= Billion
    /\ \A n \in 1 .. Len(RetryDelays) : RetryDelays[n] <= Billion

\* All that the proofs need to know of the number.
LEMMA BillionType == Billion \in Nat \ {0}
  BY SMT DEF Billion

\* A job that is executed has a lease that ends, and a date that was set comes.
JobLive(j) ==
    /\ job[j].status = "processing" => job[j].ready /\ job[j].lease >= Floor
    /\ job[j].next <= Billion

\* What a worker has before it ends.
WorkerLive(w) ==
    /\ IsFiniteSet(snap[w]) /\ Cardinality(snap[w]) <= Billion
    /\ pc[w] = "run" => task[w].stage < LastStage

LiveInv ==
    /\ QueueInv
    /\ \A j \in Jobs : JobLive(j)
    /\ \A w \in Workers : WorkerLive(w)

\* It holds when nothing has been submitted.
LEMMA InitLive ==
    ASSUME Moderate, Init
    PROVE  LiveInv
<1>1. \A w \in Workers : snap[w] = {} /\ pc[w] = "top"
  BY DEF Init
<1>2. \A j \in Jobs : job[j].status = "queued" /\ job[j].next = 0
  BY DEF Init
<1>3. \A j \in Jobs : JobLive(j)
  BY <1>2, BillionType DEF JobLive
<1>4. \A w \in Workers : WorkerLive(w)
  <2>1. IsFiniteSet({}) /\ Cardinality({}) = 0
    BY FS_EmptySet
  <2> QED
    BY <1>1, <2>1, BillionType DEF WorkerLive
<1> QED
  BY <1>3, <1>4, InitInv DEF LiveInv

\* A retry is put off by one of the delays.
LEMMA DelaysModerate ==
    ASSUME Moderate, NEW n \in Nat
    PROVE  RetryDelay(n) \in Int /\ RetryDelay(n) <= Billion
<1>1. /\ RetryDelays \in Seq(Nat) /\ Len(RetryDelays) \in Nat \ {0}
      /\ \A k \in 1 .. Len(RetryDelays) : RetryDelays[k] \in Nat /\ RetryDelays[k] <= Billion
  BY QueueAssumption DEF Moderate
<1> QED
  BY <1>1 DEF RetryDelay

\* The values of a document of the collection.
LEMMA DocumentValues ==
    ASSUME TypeOK, NEW j \in Jobs
    PROVE  /\ job[j] \in Document /\ job[j].next \in Int
           /\ job[j].lease \in Int /\ job[j].lease <= LeaseTicks /\ job[j].lease >= NoLease
           /\ job[j].attempts \in Nat /\ job[j].attempts <= MaxAttempts
           /\ job[j].attempt \in Nat /\ job[j].ready \in BOOLEAN /\ job[j].status \in Statuses
<1>1. job[j] \in Document
  BY DEF TypeOK
<1>2. /\ job[j].status \in Statuses /\ job[j].ready \in BOOLEAN
      /\ job[j].attempts \in 0 .. MaxAttempts
      /\ job[j].next \in Int /\ job[j].lease \in NoLease .. LeaseTicks
      /\ job[j].attempt \in Nat
  BY <1>1, DocumentFields
<1>3. NoLease \in Int /\ LeaseTicks \in Int /\ MaxAttempts \in Int
  BY QueueAssumption, TimerTypes
<1> QED
  BY <1>1, <1>2, <1>3

\* What the clock makes of a document.
LEMMA AgedFields ==
    ASSUME TypeOK, NEW j \in Jobs, Aged(j)
    PROVE  /\ job'[j].status = job[j].status /\ job'[j].ready = job[j].ready
           /\ job'[j].attempt = job[j].attempt /\ job'[j].attempts = job[j].attempts
           /\ job'[j].next = Earlier(job[j].next) /\ job'[j].lease = Earlier(job[j].lease)
  BY DEF TypeOK, Aged, Document

\* Every write keeps what is said of a document: a claim gives it a lease that runs from
\* a recent now, and a retry is put off by a delay of the table.
LEMMA JobLiveStays ==
    ASSUME Moderate, QueueInv, [Next]_vars, NEW j \in Jobs, JobLive(j)
    PROVE  JobLive(j)'
<1>0. TypeOK
  BY DEF QueueInv
<1>1. job[j].next \in Int /\ job[j].lease \in Int /\ Floor \in Int /\ Floor < 0
      /\ NoLease < Floor /\ NoLease \in Int
      /\ MaxLag \in Nat /\ LeaseTicks \in Nat \ {0} /\ Floor = -(MaxLag + 1)
      /\ \A w \in Workers : age[w] \in 0 .. MaxLag
  BY <1>0, DocumentValues, TimerTypes, QueueAssumption DEF Floor, TypeOK
<1>2. CASE Rests(j)
  BY <1>2 DEF Rests, JobLive
<1>3. CASE Aged(j)
  <2>1. /\ job'[j].status = job[j].status /\ job'[j].ready = job[j].ready
        /\ job'[j].next = Earlier(job[j].next) /\ job'[j].lease = Earlier(job[j].lease)
    BY <1>0, <1>3, AgedFields
  <2>2. Earlier(job[j].next) <= Billion
    BY <1>1, BillionType DEF JobLive, Earlier
  <2>3. job[j].lease >= Floor => Earlier(job[j].lease) >= Floor
    BY <1>1 DEF Earlier
  <2> QED
    BY <2>1, <2>2, <2>3 DEF JobLive
<1>4. CASE Accepted(j)
  <2>1. job'[j].status = "queued" /\ job'[j].next = 0
    BY <1>0, <1>4, DocumentValues DEF Accepted, Document
  <2> QED
    BY <2>1, BillionType DEF JobLive
<1>5. CASE Ended(j)
  BY <1>5 DEF Ended, JobLive
<1>6. CASE Requeued(j)
  <2>1. PICK n \in Nat : job'[j].next <= RetryDelay(n)
    BY <1>6 DEF Requeued
  <2>2. job'[j].next \in Int
    BY <1>0, StepTypes DEF TypeOK, Document
  <2>3. job'[j].next <= Billion
    <3>1. RetryDelay(n) \in Int /\ RetryDelay(n) <= Billion
      BY DelaysModerate
    <3> QED
      BY <2>1, <2>2, <3>1, BillionType
  <2> QED
    BY <1>6, <2>3 DEF Requeued, JobLive
<1>7. CASE Claimed(j)
  BY <1>1, <1>7 DEF Claimed, JobLive
<1>8. CASE Held(j)
  BY <1>1, <1>8 DEF Held, JobLive, ReadyKept
<1> QED
  BY <1>2, <1>3, <1>4, <1>5, <1>6, <1>7, <1>8, DocumentNext DEF DocumentMove

\* The query of recover_expired returns each job at most once.
LEMMA SnapshotSmall ==
    ASSUME Moderate, NEW w \in Workers, FindExpired(w), TypeOK
    PROVE  IsFiniteSet(snap'[w]) /\ Cardinality(snap'[w]) <= Billion
<1> DEFINE S == {i \in Jobs : /\ job[i].status = "processing"
                              /\ job[i].lease # NoLease
                              /\ job[i].lease < -age[w]}
           e == [j \in S |-> [job |-> j, attempt |-> job[j].attempt,
                              attempts |-> job[j].attempts]]
<1>1. snap'[w] = {e[j] : j \in S}
  <2>1. snap'[w] = {[job |-> j, attempt |-> job[j].attempt, attempts |-> job[j].attempts] : j \in S}
    BY DEF FindExpired, TypeOK
  <2> QED
    BY <2>1
<1>2. IsFiniteSet(S) /\ Cardinality(S) <= Billion
  <2>1. S \in SUBSET Nat /\ Billion - 1 \in Nat /\ \A s \in S : s <= Billion - 1
    <3>1. S \subseteq Jobs /\ Jobs \subseteq 0 .. Billion - 1
      BY DEF Moderate
    <3> HIDE DEF S
    <3> QED
      BY <3>1, BillionType
  <2> HIDE DEF S
  <2>2. IsFiniteSet(S) /\ Cardinality(S) <= (Billion - 1) + 1
    BY <2>1, FS_BoundedSetOfNaturals
  <2> QED
    BY <2>2, BillionType
<1>3. e \in Surjection(S, snap'[w])
  BY <1>1 DEF Surjection
<1>4. Cardinality(S) \in Nat
  BY <1>2, FS_CardinalityType
<1> HIDE DEF S, e
<1>5. IsFiniteSet(snap'[w]) /\ Cardinality(snap'[w]) <= Cardinality(S)
  BY <1>2, <1>3, FS_Surjection
<1>6. Cardinality(snap'[w]) \in Nat
  BY <1>5, FS_CardinalityType
<1> QED
  BY <1>2, <1>4, <1>5, <1>6, BillionType

\* One entry of the snapshot is done.
LEMMA RecoverTakes ==
    ASSUME TypeOK, NEW w \in Workers, RecoverExpired(w), IsFiniteSet(snap[w])
    PROVE  /\ IsFiniteSet(snap'[w])
           /\ Cardinality(snap[w]) \in Nat /\ Cardinality(snap'[w]) \in Nat
           /\ Cardinality(snap'[w]) = Cardinality(snap[w]) - 1
           /\ pc'[w] = "recover"
<1>1. PICK e \in snap[w] : snap' = [snap EXCEPT ![w] = @ \ {e}]
  BY DEF RecoverExpired
<1>2. snap'[w] = snap[w] \ {e}
  BY <1>1 DEF TypeOK
<1>3. IsFiniteSet(snap[w] \ {e}) /\ Cardinality(snap[w] \ {e}) = Cardinality(snap[w]) - 1
  BY FS_RemoveElement
<1>4. Cardinality(snap[w]) \in Nat /\ Cardinality(snap[w] \ {e}) \in Nat
  BY <1>3, FS_CardinalityType
<1> QED
  BY <1>2, <1>3, <1>4 DEF RecoverExpired

\* And every step what is said of a worker.
LEMMA WorkerLiveStays ==
    ASSUME Moderate, QueueInv, [Next]_vars, NEW w \in Workers, WorkerLive(w)
    PROVE  WorkerLive(w)'
<1>0. TypeOK
  BY DEF QueueInv
<1>1. CASE Idles(w)
  BY <1>1 DEF Idles, WorkerLive
<1>2. CASE FindExpired(w)
  <2>1. pc'[w] = "recover"
    BY <1>0, <1>2 DEF FindExpired, TypeOK
  <2> QED
    BY <1>0, <1>2, <2>1, SnapshotSmall DEF WorkerLive
<1>3. CASE RecoverExpired(w)
  <2>1. /\ IsFiniteSet(snap'[w])
        /\ Cardinality(snap[w]) \in Nat /\ Cardinality(snap'[w]) \in Nat
        /\ Cardinality(snap'[w]) = Cardinality(snap[w]) - 1 /\ pc'[w] = "recover"
    BY <1>0, <1>3, RecoverTakes DEF WorkerLive
  <2> QED
    BY <2>1, BillionType DEF WorkerLive
<1>4. CASE Claim(w)
  <2>1. snap'[w] = snap[w] /\ task'[w].stage = 0 /\ 0 < LastStage
    <3>1. PICK doc : \E j : task' = [task EXCEPT ![w] =
                [job |-> j, attempt |-> doc.attempt, attempts |-> doc.attempts, stage |-> 0]]
      BY <1>4 DEF Claim
    <3> QED
      BY <1>0, <1>4, <3>1, QueueAssumption DEF Claim, TypeOK
  <2> QED
    BY <2>1 DEF WorkerLive
<1>5. CASE Report(w)
  <2>1. snap'[w] = snap[w] /\ task'[w].stage < LastStage
    BY <1>0, <1>5, TaskFields DEF Report, TypeOK, Running, Task
  <2> QED
    BY <2>1 DEF WorkerLive
<1>6. ASSUME snap'[w] \in {snap[w], {}}, pc'[w] # "run"
      PROVE  WorkerLive(w)'
  <2>1. IsFiniteSet({}) /\ Cardinality({}) = 0
    BY FS_EmptySet
  <2> QED
    BY <1>6, <2>1, BillionType DEF WorkerLive
<1>7. CASE LoopTop(w) \/ Poll(w) \/ Restart(w)
  BY <1>0, <1>6, <1>7 DEF LoopTop, Poll, Restart, TypeOK
<1>8. CASE EnterIndex(w) \/ WriteIndex(w) \/ PipelineFails(w)
  BY <1>0, <1>6, <1>8 DEF EnterIndex, WriteIndex, PipelineFails, TypeOK
<1>9. CASE Complete(w) \/ FailAttempt(w)
  BY <1>0, <1>6, <1>9 DEF Complete, FailAttempt, Return, TypeOK
<1>10. CASE FaultStep(w)
  BY <1>0, <1>6, <1>10 DEF FaultStep, Interrupt, CompleteUnknown, FailWriteLost, Crash, Return, TypeOK
<1> QED
  BY <1>0, <1>1, <1>2, <1>3, <1>4, <1>5, <1>7, <1>8, <1>9, <1>10, WorkerNext DEF LoopStep, PipelineStep

\* So both hold for ever.
LEMMA LiveInvariant ==
    ASSUME Moderate
    PROVE  Spec => []LiveInv
<1>1. Init => LiveInv
  BY InitLive
<1>2. LiveInv /\ [Next]_vars => LiveInv'
  BY StepInv, JobLiveStays, WorkerLiveStays DEF LiveInv
<1> QED
  BY <1>1, <1>2, PTL DEF Spec

----------------------------------------------------------------------------
(* What is counted down *)

\* No job is claimed.
Quiet == \A j \in Jobs : CountKept(j)

\* How many steps a worker is away from the top of its loop if it claims nothing.
WorkerLeft(w) ==
    CASE pc[w] = "top"                   -> 0
      [] pc[w] \in {"failing", "down"}   -> 1
      [] pc[w] = "indexed"               -> 2
      [] pc[w] = "indexing"              -> 3
      [] pc[w] = "run"                   -> 3 + (LastStage - task[w].stage)
      [] pc[w] = "recover"               -> 1 + Cardinality(snap[w])
      [] OTHER                           -> 2 + Billion

\* What is counted: the steps of a worker, the attempts a job has left, the ticks
\* until a queued job may be claimed, and those until the lease ends of a job
\* that is executed by nobody.
On(kind, i) ==
    CASE kind = "queued"     -> job[i].status = "queued" /\ job[i].ready
      [] kind = "processing" -> job[i].status = "processing" /\ \A w \in Workers : ~Holds(w, i)
      [] OTHER               -> TRUE
Left(kind, i) ==
    CASE kind = "worker"     -> WorkerLeft(i)
      [] kind = "attempts"   -> MaxAttempts - job[i].attempts
      [] kind = "queued"     -> job[i].next - Floor
      [] OTHER               -> job[i].lease - Floor

\* It is over, it is within n of its end, and from within n + m of its end it comes
\* within n.
Over(kind, i) == ~On(kind, i)
Under(kind, i, n) == On(kind, i) /\ Left(kind, i) <= n
Drops(kind, i, n, m) == Under(kind, i, n + m) ~> (Over(kind, i) \/ Under(kind, i, n))

\* As many again come after as many.
LEMMA DropsTwice ==
    ASSUME NEW kind, NEW i, NEW n \in Nat, NEW m \in Nat
    PROVE  Drops(kind, i, n + m, m) /\ Drops(kind, i, n, m) => Drops(kind, i, n, 2 * m)
<1>1. Under(kind, i, (n + m) + m) <=> Under(kind, i, n + 2 * m)
  <2>1. (n + m) + m = n + 2 * m
    OBVIOUS
  <2> QED
    BY <2>1
<1> QED
  BY <1>1, PTL DEF Drops

\* So twice as many come as do from everywhere.
LEMMA DropsDouble ==
    ASSUME NEW kind, NEW i, NEW m \in Nat
    PROVE  (\A n \in Nat : Drops(kind, i, n, m)) => \A n \in Nat : Drops(kind, i, n, 2 * m)
<1>1. \A n \in Nat : n + m \in Nat
  OBVIOUS
<1>2. \A n \in Nat : Drops(kind, i, n + m, m) /\ Drops(kind, i, n, m) => Drops(kind, i, n, 2 * m)
  BY DropsTwice
<1> QED
  BY <1>1, <1>2

\* 2^31.
Far == 2147483648

\* And with 31 doublings more than there are of anything.
LEMMA DropsFar ==
    ASSUME NEW kind, NEW i
    PROVE  (\A n \in Nat : Drops(kind, i, n, 1)) => Drops(kind, i, 0, Far)
<1> DEFINE D(m) == \A n \in Nat : Drops(kind, i, n, m)
<1>1. \A m \in Nat : D(m) => D(2 * m)
  BY DropsDouble
<1>2. D(Far) => Drops(kind, i, 0, Far)
  OBVIOUS
<1> HIDE DEF D
<1>3. D(1) => D(32)
  BY <1>1, SMT
<1>4. D(32) => D(1024)
  BY <1>1, SMT
<1>5. D(1024) => D(32768)
  BY <1>1, SMT
<1>6. D(32768) => D(1048576)
  BY <1>1, SMT
<1>7. D(1048576) => D(33554432)
  BY <1>1, SMT
<1>8. D(33554432) => D(2147483648)
  BY <1>1, SMT
<1> QED
  BY <1>2, <1>3, <1>4, <1>5, <1>6, <1>7, <1>8, SMT DEF D, Far

\* The rank of a worker is bounded, and only at the top it is zero.
LEMMA WorkerRange ==
    ASSUME Moderate, LiveInv, NEW w \in Workers
    PROVE  /\ WorkerLeft(w) \in Int /\ WorkerLeft(w) >= 0 /\ WorkerLeft(w) <= 3 + Billion
           /\ WorkerLeft(w) = 0 <=> pc[w] = "top"
<1>1. pc[w] \in Idle \cup Running /\ TypeOK
  BY DEF LiveInv, QueueInv, TypeOK
<1>2. pc[w] = "run" => /\ task[w].stage \in Nat /\ task[w].stage < LastStage
                       /\ LastStage \in Nat /\ LastStage <= Billion
  BY <1>1, TaskFields, QueueAssumption DEF LiveInv, WorkerLive, Running, Moderate
<1>3. Cardinality(snap[w]) \in Nat /\ Cardinality(snap[w]) <= Billion
  BY FS_CardinalityType DEF LiveInv, WorkerLive
<1> QED
  BY <1>1, <1>2, <1>3, BillionType DEF WorkerLeft, Idle, Running

\* A step of a worker that is not at the top and claims nothing brings it nearer.
Nearer(w) == pc[w] # "top" /\ WorkerLeft(w)' < WorkerLeft(w)

\* So do the steps of its loop ...
LEMMA LoopNearer ==
    ASSUME Moderate, LiveInv, LiveInv', Quiet, NEW w \in Workers, LoopStep(w)
    PROVE  \/ pc[w] = "top" /\ pc'[w] = "sweep"
           \/ Nearer(w)
<1>0. QueueInv /\ TypeOK /\ WorkerLive(w)
  BY DEF LiveInv, QueueInv
<1>1. CASE LoopTop(w)
  BY <1>0, <1>1 DEF LoopTop, TypeOK
<1>2. CASE FindExpired(w)
  <2>1. pc[w] = "sweep" /\ pc'[w] = "recover"
    BY <1>0, <1>2 DEF FindExpired, TypeOK
  <2>2. Cardinality(snap'[w]) \in Nat /\ Cardinality(snap'[w]) <= Billion
    BY FS_CardinalityType DEF LiveInv, WorkerLive
  <2>3. WorkerLeft(w) = 2 + Billion /\ WorkerLeft(w)' = 1 + Cardinality(snap'[w])
    BY <2>1 DEF WorkerLeft
  <2> QED
    BY <2>1, <2>2, <2>3, BillionType DEF Nearer
<1>3. CASE RecoverExpired(w)
  <2>1. /\ Cardinality(snap[w]) \in Nat /\ Cardinality(snap'[w]) \in Nat
        /\ Cardinality(snap'[w]) = Cardinality(snap[w]) - 1
        /\ pc[w] = "recover" /\ pc'[w] = "recover"
    BY <1>0, <1>3, RecoverTakes DEF WorkerLive, RecoverExpired
  <2>2. WorkerLeft(w) = 1 + Cardinality(snap[w]) /\ WorkerLeft(w)' = 1 + Cardinality(snap'[w])
    BY <2>1 DEF WorkerLeft
  <2> QED
    BY <2>1, <2>2 DEF Nearer
<1>4. CASE Claim(w)
  <2>1. PICK j \in Jobs : Claimed(j)
    BY <1>0, <1>4, ClaimMoves
  <2> QED
    BY <1>0, <2>1, DocumentValues DEF Claimed, Quiet, CountKept
<1>5. CASE Poll(w)
  <2>1. pc[w] = "recover" /\ pc'[w] = "top"
    BY <1>0, <1>5 DEF Poll, TypeOK
  <2>2. Cardinality(snap[w]) \in Nat
    BY FS_CardinalityType DEF LiveInv, WorkerLive
  <2>3. WorkerLeft(w) = 1 + Cardinality(snap[w]) /\ WorkerLeft(w)' = 0
    BY <2>1 DEF WorkerLeft
  <2> QED
    BY <2>1, <2>2, <2>3 DEF Nearer
<1> QED
  BY <1>1, <1>2, <1>3, <1>4, <1>5 DEF LoopStep

\* ... those of an execution, and the restart.
LEMMA PipelineNearer ==
    ASSUME Moderate, LiveInv, NEW w \in Workers, PipelineStep(w) \/ Restart(w)
    PROVE  Nearer(w)
<1>0. TypeOK /\ WorkerLive(w)
  BY DEF LiveInv, QueueInv
<1>1. pc[w] = "run" => /\ task[w].stage \in Nat /\ task[w].stage < LastStage
                       /\ LastStage \in Nat
  BY <1>0, TaskFields, QueueAssumption DEF WorkerLive, Running
<1>2. CASE Report(w)
  <2>1. pc[w] = "run" /\ pc'[w] = "run" /\ task'[w].stage = task[w].stage + 1
    BY <1>0, <1>2 DEF Report, TypeOK, Running, Task
  <2>2. /\ WorkerLeft(w) = 3 + (LastStage - task[w].stage)
        /\ WorkerLeft(w)' = 3 + (LastStage - task'[w].stage)
    BY <2>1 DEF WorkerLeft
  <2> QED
    BY <1>1, <2>1, <2>2 DEF Nearer
<1>3. CASE EnterIndex(w)
  <2>1. pc[w] = "run" /\ pc'[w] = "indexing"
    BY <1>0, <1>3 DEF EnterIndex, TypeOK
  <2> QED
    BY <1>1, <2>1 DEF Nearer, WorkerLeft
<1>4. CASE WriteIndex(w)
  <2>1. pc[w] = "indexing" /\ pc'[w] \in {"indexed", "failing"}
    BY <1>0, <1>4 DEF WriteIndex, TypeOK
  <2> QED
    BY <2>1 DEF Nearer, WorkerLeft
<1>5. CASE Complete(w)
  <2>1. pc[w] = "indexed" /\ pc'[w] = "top"
    BY <1>0, <1>5 DEF Complete, StoreResult, Return, TypeOK
  <2> QED
    BY <2>1 DEF Nearer, WorkerLeft
<1>6. CASE PipelineFails(w)
  <2>1. pc[w] \in {"run", "indexing", "indexed"} /\ pc'[w] = "failing"
    BY <1>0, <1>6 DEF PipelineFails, Running, TypeOK
  <2> QED
    BY <1>1, <2>1 DEF Nearer, WorkerLeft
<1>7. CASE FailAttempt(w)
  <2>1. pc[w] = "failing" /\ pc'[w] = "top"
    BY <1>0, <1>7 DEF FailAttempt, Return, TypeOK
  <2> QED
    BY <2>1 DEF Nearer, WorkerLeft
<1>8. CASE Restart(w)
  <2>1. pc[w] = "down" /\ pc'[w] = "top"
    BY <1>0, <1>8 DEF Restart, TypeOK
  <2> QED
    BY <2>1 DEF Nearer, WorkerLeft
<1> QED
  BY <1>2, <1>3, <1>4, <1>5, <1>6, <1>7, <1>8 DEF PipelineStep

\* Nothing else moves it, once nothing fails and nothing is claimed.
LEMMA WorkerMoves ==
    ASSUME Moderate, LiveInv, LiveInv', [Next]_vars, faults' = faults, Quiet, NEW w \in Workers
    PROVE  \/ Idles(w)
           \/ pc[w] = "top" /\ pc'[w] = "sweep" /\ LoopTop(w)
           \/ Nearer(w) /\ (LoopStep(w) \/ PipelineStep(w) \/ Restart(w))
<1>0. TypeOK /\ faults \in Nat
  BY QueueAssumption DEF LiveInv, QueueInv, TypeOK
<1>1. ~FaultStep(w)
  BY <1>0 DEF FaultStep, Interrupt, CompleteUnknown, FailWriteLost, Crash
<1>2. pc[w] = "top" /\ LoopStep(w) => LoopTop(w)
  BY DEF LoopStep, FindExpired, RecoverExpired, Claim, Poll
<1>3. LoopStep(w) => (pc[w] = "top" /\ pc'[w] = "sweep") \/ Nearer(w)
  BY LoopNearer
<1>4. PipelineStep(w) \/ Restart(w) => Nearer(w)
  BY PipelineNearer
<1> QED
  BY <1>0, <1>1, <1>2, <1>3, <1>4, WorkerNext

\* Far is more than the distance of a date, a rank and a counter.
LEMMA FarEnough == Far \in Nat /\ 2 * Billion + 1 <= Far /\ 3 + Billion <= Far
  BY SMT DEF Far, Billion

\* What a worker goes on with as long as it can: what makes LoopStep, PipelineStep
\* and Restart possible.
Goes(w) ==
    /\ <>[](pc[w] \in {"top", "sweep", "recover"}) => []<><<LoopStep(w)>>_vars
    /\ <>[](pc[w] \in Running) => []<><<PipelineStep(w)>>_vars
    /\ <>[](pc[w] = "down") => []<><<Restart(w)>>_vars

WorkersGo == \A w \in Workers : Goes(w)

\* A date of a job that is still ahead comes nearer.
DatesAhead(j) == job[j].next > Floor \/ job[j].lease > Floor
Passes(j) == <>[]DatesAhead(j) => []<><<Tick>>_vars

TimePasses == \A j \in Jobs : Passes(j)

\* The invariant holds, and the workers go on, from now on.
Steady == []LiveInv /\ [][Next]_vars /\ []WorkersGo

\* From when on nothing fails and nothing is claimed.
Calm == Steady /\ [][faults' = faults]_vars /\ [][Quiet]_vars

\* It is free again and again.
GetsTop(w) == []<>(pc[w] = "top")

\* The worker is at this rank, and in this part of its life.
At(w, n, S) == WorkerLeft(w) = n + 1 /\ pc[w] \in S

\* A worker keeps its rank until it takes a step, and then it has a smaller one.
LEMMA AtMoves ==
    ASSUME Moderate, LiveInv, LiveInv', [Next]_vars, [faults' = faults]_vars, [Quiet]_vars,
           NEW w \in Workers, NEW n \in Nat, NEW S, At(w, n, S)
    PROVE  \/ Idles(w) /\ At(w, n, S)'
           \/ WorkerLeft(w)' <= n
<1>1. WorkerLeft(w) \in Int /\ WorkerLeft(w)' \in Int
      /\ (WorkerLeft(w) = 0 <=> pc[w] = "top")
  <2>1. WorkerLeft(w)' \in Int
    <3>1. pc'[w] \in Idle \cup Running /\ TypeOK'
      BY DEF LiveInv, QueueInv, TypeOK
    <3>2. pc'[w] = "run" => task'[w].stage \in Nat /\ LastStage \in Nat
      BY <3>1, QueueAssumption DEF TypeOK, Task, Running
    <3>3. Cardinality(snap'[w]) \in Nat
      BY FS_CardinalityType DEF LiveInv, WorkerLive
    <3> QED
      BY <3>1, <3>2, <3>3, BillionType DEF WorkerLeft, Idle, Running
  <2> QED
    BY <2>1, WorkerRange
<1>2. UNCHANGED vars => Idles(w)
  BY DEF vars, workerVars, Idles
<1>3. Idles(w) \/ Nearer(w)
  <2>1. CASE faults' = faults /\ Quiet
    BY <1>1, <2>1, WorkerMoves DEF At
  <2> QED
    BY <1>2, <2>1
<1>4. Nearer(w) => WorkerLeft(w)' <= n
  BY <1>1 DEF Nearer, At
<1>5. Idles(w) => At(w, n, S)'
  BY DEF Idles, At, WorkerLeft
<1> QED
  BY <1>3, <1>4, <1>5

\* One step comes.
LEMMA WorkerOne ==
    ASSUME Moderate, NEW w \in Workers, NEW n \in Nat
    PROVE  Calm /\ Goes(w) => Drops("worker", w, n, 1)
<1> DEFINE P == Under("worker", w, n + 1)
           Q == Over("worker", w) \/ Under("worker", w, n)
           A == At(w, n, {"sweep", "recover"})  B == At(w, n, Running)  C == At(w, n, {"down"})
           IA == pc[w] \in {"top", "sweep", "recover"}  IB == pc[w] \in Running
           IC == pc[w] = "down"
<1>1. LiveInv /\ P => A \/ B \/ C \/ Q
  <2> SUFFICES ASSUME LiveInv, P, ~Q PROVE A \/ B \/ C
    OBVIOUS
  <2>1. WorkerLeft(w) <= n + 1 /\ ~(WorkerLeft(w) <= n)
    BY DEF Under, On, Left
  <2>2. WorkerLeft(w) \in Int /\ (WorkerLeft(w) = 0 <=> pc[w] = "top")
        /\ WorkerLeft(w) >= 0
    BY WorkerRange
  <2>3. WorkerLeft(w) = n + 1 /\ pc[w] # "top" /\ pc[w] \in Idle \cup Running
    BY <2>1, <2>2 DEF LiveInv, QueueInv, TypeOK
  <2> QED
    BY <2>3 DEF At, Idle
<1>2. LiveInv /\ LiveInv' /\ [Next]_vars /\ [faults' = faults]_vars /\ [Quiet]_vars
        => /\ A => A' \/ Q'
           /\ B => B' \/ Q'
           /\ C => C' \/ Q'
  <2>1. WorkerLeft(w)' <= n => Q'
    BY DEF Under, On, Left
  <2> QED
    BY <2>1, AtMoves
<1>3. LiveInv /\ LiveInv' /\ [Next]_vars /\ [faults' = faults]_vars /\ [Quiet]_vars
        => /\ A /\ <<LoopStep(w)>>_vars => Q'
           /\ B /\ <<PipelineStep(w)>>_vars => Q'
           /\ C /\ <<Restart(w)>>_vars => Q'
  <2> SUFFICES ASSUME LiveInv, LiveInv', [Next]_vars, [faults' = faults]_vars, [Quiet]_vars
               PROVE  /\ A /\ <<LoopStep(w)>>_vars => Q'
                      /\ B /\ <<PipelineStep(w)>>_vars => Q'
                      /\ C /\ <<Restart(w)>>_vars => Q'
    OBVIOUS
  <2>1. WorkerLeft(w)' <= n => Q'
    BY DEF Under, On, Left
  <2>2. ASSUME NEW S, At(w, n, S), Nearer(w) PROVE WorkerLeft(w)' <= n
    <3>1. \/ Idles(w) /\ At(w, n, S)'
          \/ WorkerLeft(w)' <= n
      BY <2>2, AtMoves
    <3>2. WorkerLeft(w) \in Int
      BY WorkerRange
    <3> QED
      BY <2>2, <3>1, <3>2 DEF Nearer, At
  <2>3. ASSUME LoopStep(w), vars' # vars, A PROVE Nearer(w)
    <3>1. Quiet
      BY <2>3
    <3> QED
      BY <2>3, <3>1, LoopNearer DEF At
  <2>4. ASSUME PipelineStep(w) \/ Restart(w) PROVE Nearer(w)
    BY <2>4, PipelineNearer
  <2> QED
    BY <2>1, <2>2, <2>3, <2>4
<1>4. (A => IA) /\ (B => IB) /\ (C => IC)
  BY DEF At
<1>5. Goes(w) => /\ <>[]IA => []<><<LoopStep(w)>>_vars
                 /\ <>[]IB => []<><<PipelineStep(w)>>_vars
                 /\ <>[]IC => []<><<Restart(w)>>_vars
  BY DEF Goes
<1> HIDE DEF P, Q, A, B, C, IA, IB, IC
<1>6. Calm /\ Goes(w) => (P ~> Q)
  BY <1>1, <1>2, <1>3, <1>4, <1>5, PTL DEF Calm, Steady, Goes, IA, IB, IC
<1> QED
  BY <1>6, PTL DEF Drops, P, Q

\* A worker comes back to the top of its loop again and again.
LEMMA TopAgain ==
    ASSUME Moderate, NEW w \in Workers
    PROVE  Calm => GetsTop(w)
<1> DEFINE T == pc[w] = "top"
<1>1. Calm /\ Goes(w) => \A n \in Nat : Drops("worker", w, n, 1)
  BY WorkerOne
<1>2. Calm /\ Goes(w) => Drops("worker", w, 0, Far)
  BY <1>1, DropsFar
<1>3. LiveInv => /\ Under("worker", w, 0 + Far)
                 /\ Under("worker", w, 0) => T
                 /\ ~Over("worker", w)
  <2> SUFFICES ASSUME LiveInv
               PROVE  /\ Under("worker", w, 0 + Far)
                      /\ Under("worker", w, 0) => T
                      /\ ~Over("worker", w)
    OBVIOUS
  <2>1. /\ WorkerLeft(w) \in Int /\ WorkerLeft(w) >= 0 /\ WorkerLeft(w) <= 3 + Billion
        /\ WorkerLeft(w) = 0 <=> pc[w] = "top"
    BY WorkerRange
  <2>2. WorkerLeft(w) <= 0 + Far
    BY <2>1, FarEnough, BillionType
  <2> QED
    BY <2>1, <2>2 DEF Under, On, Left, Over
<1>4. WorkersGo => Goes(w)
  BY DEF WorkersGo
<1> HIDE DEF T
<1>5. Calm /\ Goes(w) => <>T
  BY <1>2, <1>3, PTL DEF Calm, Steady, Drops
<1> QED
  BY <1>4, <1>5, PTL DEF Calm, Steady, GetsTop, T

\* The counter of attempts never goes back, and a claim adds one.
LEMMA CountsUp ==
    ASSUME QueueInv, [Next]_vars, NEW j \in Jobs
    PROVE  CountKept(j) \/ job'[j].attempts = job[j].attempts + 1
<1>0. TypeOK /\ job[j] \in Document
  BY DEF QueueInv, TypeOK
<1>1. Aged(j) => CountKept(j)
  BY <1>0, AgedFields DEF CountKept
<1>2. Accepted(j) => CountKept(j)
  BY <1>0 DEF Accepted, CountKept, Document
<1> QED
  BY <1>1, <1>2, DocumentNext
  DEF DocumentMove, Rests, Ended, Requeued, Claimed, Held, CountKept

\* It is claimed again and again.
Busy(i) == []<><<~CountKept(i)>>_vars

\* With every claim a job has one attempt less.
LEMMA AttemptsOne ==
    ASSUME NEW i \in Jobs, NEW n \in Nat
    PROVE  Steady /\ Busy(i) => Drops("attempts", i, n, 1)
<1> DEFINE P == Under("attempts", i, n + 1)
           Q == Over("attempts", i) \/ Under("attempts", i, n)
           K == CountKept(i)
<1>1. LiveInv /\ [Next]_vars /\ P => (~K => Q') /\ (K => P')
  <2> SUFFICES ASSUME LiveInv, [Next]_vars, P PROVE (~K => Q') /\ (K => P')
    OBVIOUS
  <2>1. job[i].attempts \in Nat /\ MaxAttempts \in Nat
    BY DocumentValues, QueueAssumption DEF LiveInv, QueueInv
  <2>2. CountKept(i) \/ job'[i].attempts = job[i].attempts + 1
    BY CountsUp DEF LiveInv
  <2>3. MaxAttempts - job[i].attempts <= n + 1
    BY DEF Under, On, Left
  <2>4. ~K => MaxAttempts - job'[i].attempts <= n
    BY <2>1, <2>2, <2>3
  <2>5. K => MaxAttempts - job'[i].attempts <= n + 1
    BY <2>3 DEF CountKept
  <2> QED
    BY <2>4, <2>5 DEF Under, On, Left
<1> HIDE DEF P, Q, K
<1>2. Steady /\ Busy(i) => (P ~> Q)
  BY <1>1, PTL DEF Steady, Busy, K
<1> QED
  BY <1>2, PTL DEF Drops, P, Q

\* At last it is not any more, and neither are those of a range.
StillOne(i) == <>[][CountKept(i)]_vars

\* So a job is claimed only finitely often ...
LEMMA ClaimsOfOneEnd ==
    ASSUME Moderate, NEW i \in Jobs
    PROVE  Steady => StillOne(i)
<1> DEFINE K == CountKept(i)  N == Under("attempts", i, 0)
<1>1. Steady /\ Busy(i) => \A n \in Nat : Drops("attempts", i, n, 1)
  BY AttemptsOne
<1>2. Steady /\ Busy(i) => Drops("attempts", i, 0, Far)
  BY <1>1, DropsFar
<1>3. LiveInv => Under("attempts", i, 0 + Far) /\ ~Over("attempts", i)
  <2> SUFFICES ASSUME LiveInv PROVE Under("attempts", i, 0 + Far) /\ ~Over("attempts", i)
    OBVIOUS
  <2>1. job[i].attempts \in Nat /\ MaxAttempts \in Nat /\ MaxAttempts <= Billion
    BY DocumentValues, QueueAssumption DEF LiveInv, QueueInv, Moderate
  <2>2. MaxAttempts - job[i].attempts <= 0 + Far
    BY <2>1, FarEnough, BillionType
  <2> QED
    BY <2>2 DEF Under, On, Left, Over
<1>4. LiveInv /\ LiveInv' /\ [Next]_vars /\ N => K /\ N'
  <2> SUFFICES ASSUME LiveInv, LiveInv', [Next]_vars, N PROVE K /\ N'
    OBVIOUS
  <2>1. /\ job[i].attempts \in Nat /\ MaxAttempts \in Nat
        /\ MaxAttempts - job[i].attempts <= 0
    BY DocumentValues, QueueAssumption DEF LiveInv, QueueInv, Under, On, Left
  <2>2. job'[i].attempts \in Nat /\ job'[i].attempts <= MaxAttempts
    <3>1. job'[i] \in Document
      BY DEF LiveInv, QueueInv, TypeOK
    <3> QED
      BY <3>1, <2>1 DEF Document
  <2>3. K
    BY <2>1, <2>2, CountsUp DEF LiveInv
  <2> QED
    BY <2>1, <2>3 DEF CountKept, Under, On, Left
<1> HIDE DEF K, N
<1>5. Steady /\ Busy(i) => FALSE
  BY <1>2, <1>3, <1>4, PTL DEF Steady, Busy, Drops, K, N
<1> QED
  BY <1>5, PTL DEF Busy, StillOne

StillIn(a, m) == <>[][\A i \in Jobs : a <= i /\ i < a + m => CountKept(i)]_vars

\* ... two ranges of job numbers without claims are one without claims ...
LEMMA StillTwice ==
    ASSUME Jobs \subseteq Nat, NEW a \in Nat, NEW m \in Nat
    PROVE  StillIn(a, m) /\ StillIn(a + m, m) => StillIn(a, 2 * m)
<1> DEFINE A == \A i \in Jobs : a <= i /\ i < a + m => CountKept(i)
           B == \A i \in Jobs : a + m <= i /\ i < (a + m) + m => CountKept(i)
           C == \A i \in Jobs : a <= i /\ i < a + 2 * m => CountKept(i)
<1>1. A /\ B => C
  <2>1. \A i \in Jobs : a <= i /\ i < a + 2 * m =>
          \/ a <= i /\ i < a + m
          \/ a + m <= i /\ i < (a + m) + m
    OBVIOUS
  <2> QED
    BY <2>1
<1> HIDE DEF A, B, C
<1>2. <>[][A]_vars /\ <>[][B]_vars => <>[][C]_vars
  BY <1>1, PTL
<1> QED
  BY <1>2 DEF StillIn, A, B, C

\* ... and if all ranges of one length end to be claimed, all twice as long do.
LEMMA StillDouble ==
    ASSUME Jobs \subseteq Nat, NEW m \in Nat
    PROVE  (\A a \in Nat : StillIn(a, m)) => \A a \in Nat : StillIn(a, 2 * m)
<1>1. \A a \in Nat : a + m \in Nat
  OBVIOUS
<1>2. \A a \in Nat : StillIn(a, m) /\ StillIn(a + m, m) => StillIn(a, 2 * m)
  BY StillTwice
<1> QED
  BY <1>1, <1>2

\* So the claims of as many jobs as there are end.
LEMMA StillFar ==
    ASSUME Jobs \subseteq Nat
    PROVE  (\A a \in Nat : StillIn(a, 1)) => StillIn(0, Far)
<1> DEFINE D(m) == \A a \in Nat : StillIn(a, m)
<1>1. \A m \in Nat : D(m) => D(2 * m)
  BY StillDouble
<1>2. D(Far) => StillIn(0, Far)
  OBVIOUS
<1> HIDE DEF D
<1>3. D(1) => D(32)
  BY <1>1, SMT
<1>4. D(32) => D(1024)
  BY <1>1, SMT
<1>5. D(1024) => D(32768)
  BY <1>1, SMT
<1>6. D(32768) => D(1048576)
  BY <1>1, SMT
<1>7. D(1048576) => D(33554432)
  BY <1>1, SMT
<1>8. D(33554432) => D(2147483648)
  BY <1>1, SMT
<1> QED
  BY <1>2, <1>3, <1>4, <1>5, <1>6, <1>7, <1>8, SMT DEF D, Far

\* At last no job is claimed any more.
LEMMA ClaimsEnd ==
    ASSUME Moderate
    PROVE  Steady => <>[][Quiet]_vars
<1>0. Jobs \subseteq Nat
  BY QueueAssumption
<1>1. ASSUME NEW a \in Nat PROVE Steady => StillIn(a, 1)
  <2> DEFINE A == \A i \in Jobs : a <= i /\ i < a + 1 => CountKept(i)
  <2>1. CASE a \in Jobs
    <3>1. Steady => StillOne(a)
      BY <2>1, ClaimsOfOneEnd
    <3>2. CountKept(a) => A
      <4>1. \A i \in Jobs : a <= i /\ i < a + 1 => i = a
        BY <1>0
      <4> QED
        BY <4>1
    <3> HIDE DEF A
    <3>3. Steady => <>[][A]_vars
      BY <3>1, <3>2, PTL DEF StillOne
    <3> QED
      BY <3>3 DEF StillIn, A
  <2>2. CASE a \notin Jobs
    <3>1. A
      <4>1. \A i \in Jobs : a <= i /\ i < a + 1 => i = a
        BY <1>0
      <4> QED
        BY <2>2, <4>1
    <3> HIDE DEF A
    <3>2. Steady => <>[][A]_vars
      BY <3>1, PTL
    <3> QED
      BY <3>2 DEF StillIn, A
  <2> QED
    BY <2>1, <2>2
<1>2. Steady => \A a \in Nat : StillIn(a, 1)
  BY <1>1
<1>3. Steady => StillIn(0, Far)
  BY <1>0, <1>2, StillFar
<1> DEFINE A == \A i \in Jobs : 0 <= i /\ i < 0 + Far => CountKept(i)
<1>4. A => Quiet
  <2>1. \A i \in Jobs : 0 <= i /\ i < 0 + Far
    BY FarEnough, BillionType DEF Moderate
  <2> QED
    BY <2>1 DEF Quiet
<1>5. StillIn(0, Far) => <>[][A]_vars
  BY DEF StillIn
<1> HIDE DEF A
<1> QED
  BY <1>3, <1>4, <1>5, PTL

----------------------------------------------------------------------------
(* What becomes of a job while nothing is claimed *)

\* Settled or deleted, and in the hands of one worker.
Closed(j) == job[j].status \notin {"queued", "processing"}
HeldBy(w, j) == job[j].status = "processing" /\ Holds(w, j)

\* As long as a job is executed its attempt is the same.
LEMMA AttemptKept ==
    ASSUME QueueInv, [Next]_vars, NEW j \in Jobs,
           job[j].status = "processing", job'[j].status = "processing"
    PROVE  job'[j].attempt = job[j].attempt
<1>0. TypeOK /\ job[j] \in Document
  BY DEF QueueInv, TypeOK
<1>1. Aged(j) => job'[j].attempt = job[j].attempt
  BY <1>0, AgedFields
<1> QED
  BY <1>1, DocumentNext DEF DocumentMove, Rests, Accepted, Ended, Requeued, Claimed, Held

\* A worker gets a task only by claiming it.
LEMMA TaskKept ==
    ASSUME TypeOK, [Next]_vars, NEW w \in Workers, ~Claim(w), pc'[w] \in Running
    PROVE  /\ pc[w] \in Running
           /\ task'[w].job = task[w].job /\ task'[w].attempt = task[w].attempt
<1>1. CASE Idles(w)
  BY <1>1 DEF Idles
<1>2. CASE LoopStep(w)
  <2>1. pc'[w] \in {"sweep", "recover", "top"}
    BY <1>2 DEF LoopStep, LoopTop, FindExpired, RecoverExpired, Poll, TypeOK
  <2> QED
    BY <2>1 DEF Running
<1>3. CASE Report(w)
  BY <1>3 DEF Report, TypeOK, Running, Task
<1>4. CASE EnterIndex(w) \/ WriteIndex(w) \/ PipelineFails(w)
  BY <1>4 DEF EnterIndex, WriteIndex, PipelineFails, Running
<1>5. CASE Complete(w) \/ FailAttempt(w)
  <2>1. pc'[w] = "top"
    BY <1>5 DEF Complete, FailAttempt, Return, TypeOK
  <2> QED
    BY <2>1 DEF Running
<1>6. CASE CompleteUnknown(w)
  BY <1>6 DEF CompleteUnknown, StoreResult, Running
<1>7. CASE Interrupt(w) \/ FailWriteLost(w) \/ Crash(w) \/ Restart(w)
  <2>1. pc'[w] \in {"top", "down"}
    BY <1>7 DEF Interrupt, FailWriteLost, Crash, Restart, Return, TypeOK
  <2> QED
    BY <2>1 DEF Running
<1> QED
  BY <1>1, <1>2, <1>3, <1>4, <1>5, <1>6, <1>7, WorkerNext DEF PipelineStep, FaultStep

\* A claim counts.
LEMMA QuietClaims ==
    ASSUME QueueInv, Quiet, NEW w \in Workers
    PROVE  ~Claim(w)
<1> SUFFICES ASSUME Claim(w) PROVE FALSE
  OBVIOUS
<1>1. PICK j \in Jobs : Claimed(j)
  BY ClaimMoves
<1>2. job[j].attempts \in Nat
  BY DocumentValues DEF QueueInv
<1> QED
  BY <1>1, <1>2 DEF Claimed, Quiet, CountKept

\* Nobody else takes hold of a job that goes on being executed.
LEMMA NoNewHolder ==
    ASSUME QueueInv, [Next]_vars, Quiet, NEW w \in Workers, NEW j \in Jobs,
           job[j].status = "processing", job'[j].status = "processing", Holds(w, j)'
    PROVE  Holds(w, j)
<1>1. job'[j].attempt = job[j].attempt
  BY AttemptKept
<1>2. pc[w] \in Running /\ task'[w].job = task[w].job /\ task'[w].attempt = task[w].attempt
  BY QuietClaims, TaskKept DEF Holds, QueueInv
<1> QED
  BY <1>1, <1>2 DEF Holds

\* What waits in the queue or is executed by nobody stays that or goes on, and its
\* date is not put off.
LEMMA OnStays ==
    ASSUME LiveInv, [Next]_vars, Quiet, NEW j \in Jobs
    PROVE  /\ On("queued", j) =>
                 \/ On("queued", j)' /\ job'[j].next \in {job[j].next, Earlier(job[j].next)}
                 \/ Closed(j)'
           /\ On("processing", j) =>
                 \/ On("processing", j)' /\ job'[j].lease \in {job[j].lease, Earlier(job[j].lease)}
                 \/ On("queued", j)'
                 \/ Closed(j)'
<1>0. QueueInv /\ TypeOK /\ job[j] \in Document /\ job[j].attempts \in Nat /\ JobLive(j)
  BY DocumentValues DEF LiveInv, QueueInv
<1>1. DocumentMove(j)
  BY <1>0, DocumentNext
<1>2. ~Claimed(j)
  BY <1>0 DEF Claimed, Quiet, CountKept
<1>3. Aged(j) => /\ job'[j].status = job[j].status /\ job'[j].ready = job[j].ready
                 /\ job'[j].next = Earlier(job[j].next)
                 /\ job'[j].lease = Earlier(job[j].lease)
  BY <1>0, AgedFields
<1>4. ASSUME On("queued", j)
      PROVE  \/ On("queued", j)' /\ job'[j].next \in {job[j].next, Earlier(job[j].next)}
             \/ Closed(j)'
  BY <1>1, <1>2, <1>3, <1>4
  DEF DocumentMove, Rests, Accepted, Ended, Requeued, Held, On, Closed
<1>5. ASSUME On("processing", j)
      PROVE  \/ On("processing", j)' /\ job'[j].lease \in {job[j].lease, Earlier(job[j].lease)}
             \/ On("queued", j)'
             \/ Closed(j)'
  <2>1. job[j].status = "processing" /\ job[j].ready /\ \A w \in Workers : ~Holds(w, j)
    BY <1>0, <1>5 DEF On, JobLive
  <2>2. \/ Rests(j) \/ Aged(j) \/ Ended(j) \/ Requeued(j)
    BY <1>1, <1>2, <2>1 DEF DocumentMove, Accepted, Held
  <2>3. job'[j].status = "processing" => \A w \in Workers : ~Holds(w, j)'
    BY <1>0, <2>1, NoNewHolder
  <2>4. Ended(j) => Closed(j)'
    BY DEF Ended, Closed
  <2>5. Requeued(j) => On("queued", j)'
    BY <2>1 DEF Requeued, ReadyKept, On
  <2>6. Rests(j) \/ Aged(j) =>
          job'[j].status = "processing" /\ job'[j].lease \in {job[j].lease, Earlier(job[j].lease)}
    BY <1>3, <2>1 DEF Rests
  <2> QED
    BY <2>2, <2>3, <2>4, <2>5, <2>6 DEF On
<1> QED
  BY <1>4, <1>5

\* What a worker executes it goes on to execute, or its job goes on.
LEMMA HeldStays ==
    ASSUME LiveInv, [Next]_vars, Quiet, NEW w \in Workers, NEW j \in Jobs, HeldBy(w, j)
    PROVE  HeldBy(w, j)' \/ On("processing", j)' \/ On("queued", j)' \/ Closed(j)'
<1>0. QueueInv /\ TypeOK /\ JobLive(j) /\ ExclusiveAttempt
  BY DEF LiveInv, QueueInv
<1>1. job[j].status = "processing" /\ job[j].ready
  BY <1>0 DEF HeldBy, JobLive
<1>2. CASE job'[j].status = "processing"
  <2>1. \A v \in Workers : v # w => ~Holds(v, j)
    BY <1>0 DEF ExclusiveAttempt, HeldBy, Holds
  <2>2. \A v \in Workers : v # w => ~Holds(v, j)'
    BY <1>0, <1>1, <1>2, <2>1, NoNewHolder
  <2> QED
    BY <1>2, <2>2 DEF HeldBy, On
<1>3. CASE job'[j].status = "queued"
  <2>1. job'[j].ready
    <3>1. Aged(j) => job'[j].status = job[j].status
      BY <1>0, AgedFields
    <3>2. Requeued(j) \/ Held(j)
      BY <1>0, <1>1, <1>3, <3>1, DocumentNext DEF DocumentMove, Rests, Accepted, Ended, Claimed
    <3> QED
      BY <1>1, <3>2 DEF Requeued, Held, ReadyKept
  <2> QED
    BY <1>3, <2>1 DEF On
<1> QED
  BY <1>2, <1>3 DEF Closed

\* Accepted and not settled.
Open(j) == job[j].ready /\ job[j].status \in {"queued", "processing"}

\* An accepted job stays accepted, whatever fails, until it is settled or deleted.
LEMMA OpenStays ==
    ASSUME LiveInv, [Next]_vars, NEW j \in Jobs, Open(j)
    PROVE  Open(j)' \/ Closed(j)'
<1>0. QueueInv /\ TypeOK
  BY DEF LiveInv, QueueInv
<1>1. Aged(j) => job'[j].status = job[j].status /\ job'[j].ready = job[j].ready
  BY <1>0, AgedFields
<1> QED
  BY <1>0, <1>1, DocumentNext
  DEF DocumentMove, Rests, Accepted, Ended, Requeued, Claimed, Held, ReadyKept, Open, Closed

\* What waits for a date.
Kinds == {"queued", "processing"}

\* Dates are at most so far ahead, and the lease of an execution is not below the floor.
LEMMA DatesTyped ==
    ASSUME Moderate, LiveInv, NEW j \in Jobs
    PROVE  /\ job[j].next \in Int /\ job[j].lease \in Int /\ Floor \in Int
           /\ Floor = -(MaxLag + 1) /\ MaxLag \in Nat /\ NoLease < Floor /\ NoLease \in Int
           /\ job[j].next - Floor <= Far /\ job[j].lease - Floor <= Far
           /\ job[j].status = "processing" => job[j].lease >= Floor
<1>1. job[j].next \in Int /\ job[j].lease \in Int /\ job[j].lease <= LeaseTicks
  BY DocumentValues DEF LiveInv, QueueInv
<1>2. MaxLag \in Nat /\ LeaseTicks \in Nat /\ MaxLag <= Billion /\ LeaseTicks <= Billion
  BY QueueAssumption DEF Moderate
<1>3. job[j].next <= Billion /\ (job[j].status = "processing" => job[j].lease >= Floor)
  BY DEF LiveInv, JobLive
<1>4. Floor = -(MaxLag + 1) /\ NoLease = Floor - 1
  BY DEF Floor, NoLease
<1> QED
  BY <1>1, <1>2, <1>3, <1>4, FarEnough, BillionType

\* As long as a date is ahead time has something to do for it.
LEMMA DateAhead ==
    ASSUME Moderate, LiveInv, NEW j \in Jobs, NEW kind \in Kinds, NEW n \in Nat,
           Left(kind, j) = n + 1
    PROVE  DatesAhead(j)
<1>1. job[j].next \in Int /\ job[j].lease \in Int /\ Floor \in Int
  BY DatesTyped
<1>2. job[j].next - Floor = n + 1 \/ job[j].lease - Floor = n + 1
  BY DEF Left, Kinds
<1> QED
  BY <1>1, <1>2 DEF DatesAhead

\* It is not put off, and each tick of the clock brings it nearer.
LEMMA DateMoves ==
    ASSUME Moderate, LiveInv, [Next]_vars, Quiet, NEW j \in Jobs, NEW kind \in Kinds,
           NEW n \in Nat, Under(kind, j, n)
    PROVE  /\ Over(kind, j)' \/ Under(kind, j, n)'
           /\ Left(kind, j) = n /\ n > 0 /\ Tick => Over(kind, j)' \/ Under(kind, j, n - 1)'
<1> DEFINE old == IF kind = "queued" THEN job[j].next ELSE job[j].lease
           new == IF kind = "queued" THEN job'[j].next ELSE job'[j].lease
<1>1. /\ job[j].next \in Int /\ job[j].lease \in Int /\ Floor \in Int
      /\ NoLease < Floor /\ NoLease \in Int
  BY DatesTyped
<1>2. /\ old \in Int /\ Earlier(old) \in Int /\ Earlier(old) <= old
      /\ old > Floor => Earlier(old) = old - 1
  BY <1>1 DEF Earlier
<1>3. Tick => new = Earlier(old)
  <2>1. TypeOK
    BY DEF LiveInv, QueueInv
  <2>2. Tick => Aged(j)
    BY DEF Tick, Aged
  <2> QED
    BY <2>1, <2>2, AgedFields
<1>4. Left(kind, j) = old - Floor /\ Left(kind, j)' = new - Floor
  BY DEF Left, Kinds
<1>5. Over(kind, j)' \/ (On(kind, j)' /\ new \in {old, Earlier(old)})
  <2>1. On(kind, j)
    BY DEF Under
  <2>2. kind = "queued" =>
          \/ On(kind, j)' /\ job'[j].next \in {job[j].next, Earlier(job[j].next)}
          \/ Over(kind, j)'
    BY <2>1, OnStays DEF Over, On, Closed
  <2>3. kind = "processing" =>
          \/ On(kind, j)' /\ job'[j].lease \in {job[j].lease, Earlier(job[j].lease)}
          \/ Over(kind, j)'
    BY <2>1, OnStays DEF Over, On, Closed
  <2> QED
    BY <2>2, <2>3 DEF Kinds
<1> HIDE DEF old, new
<1> QED
  BY <1>1, <1>2, <1>3, <1>4, <1>5 DEF Under

\* One tick less is left.
LEMMA DateOne ==
    ASSUME Moderate, NEW j \in Jobs, NEW kind \in Kinds, NEW n \in Nat
    PROVE  Calm /\ Passes(j) => Drops(kind, j, n, 1)
<1> DEFINE P == Under(kind, j, n + 1)  Q == Over(kind, j) \/ Under(kind, j, n)
           A == P /\ Left(kind, j) = n + 1  D == DatesAhead(j)
<1>0. n + 1 \in Nat /\ n + 1 > 0 /\ (n + 1) - 1 = n
  OBVIOUS
<1>1. LiveInv /\ P => A \/ Q
  <2> SUFFICES ASSUME LiveInv, P, ~Q PROVE Left(kind, j) = n + 1
    OBVIOUS
  <2>1. Left(kind, j) \in Int
    BY DatesTyped DEF Left, Kinds
  <2> QED
    BY <2>1 DEF Under
<1>2. LiveInv /\ [Next]_vars /\ [Quiet]_vars /\ P => P' \/ Q'
  <2>1. ASSUME LiveInv, [Next]_vars, Quiet, P PROVE P' \/ Q'
    BY <1>0, <2>1, DateMoves
  <2>2. UNCHANGED vars => Quiet
    BY DEF vars, Quiet, CountKept
  <2> QED
    BY <2>1, <2>2
<1>3. LiveInv /\ [Next]_vars /\ [Quiet]_vars /\ A /\ <<Tick>>_vars => Q'
  <2> SUFFICES ASSUME LiveInv, [Next]_vars, [Quiet]_vars, A, <<Tick>>_vars PROVE Q'
    OBVIOUS
  <2>1. Quiet /\ Tick
    OBVIOUS
  <2>2. Over(kind, j)' \/ Under(kind, j, (n + 1) - 1)'
    BY <1>0, <2>1, DateMoves
  <2> QED
    BY <1>0, <2>2
<1>4. LiveInv /\ A => D
  BY DateAhead
<1>5. Passes(j) => (<>[]D => []<><<Tick>>_vars)
  BY DEF Passes
<1> HIDE DEF P, Q, A, D
<1>6. Calm /\ Passes(j) => (P ~> Q)
  <2>1. A => P
    BY DEF A
  <2> QED
    BY <1>1, <1>2, <1>3, <1>4, <1>5, <2>1, PTL DEF Calm, Steady, Passes, D
<1> QED
  BY <1>6, PTL DEF Drops, P, Q

----------------------------------------------------------------------------
(* A worker that comes by *)

\* It is in a pass that will find the job: one that looks for what expired, or one
\* that has found it, or one that is about to claim.
Comes(kind, j, w) ==
    \/ pc[w] = "sweep"
    \/ /\ pc[w] = "recover"
       /\ kind = "processing" =>
            \E e \in snap[w] : e.job = j /\ e.attempt = job[j].attempt

\* What it recovers is executed no longer.
LEMMA RecoverReleases ==
    ASSUME QueueInv, NEW w \in Workers, RecoverExpired(w)
    PROVE  \E e \in snap[w] :
             /\ snap'[w] = snap[w] \ {e}
             /\ StillExpired(w, e) => job'[e.job].status # "processing"
<1>0. TypeOK
  BY DEF QueueInv
<1>1. PICK e \in snap[w] :
         /\ snap' = [snap EXCEPT ![w] = @ \ {e}]
         /\ StillExpired(w, e) =>
              Save(e.job, EventUpdate(
                    IF Exhausted(e.attempts)
                    THEN [job[e.job] EXCEPT !.status = "failed"]
                    ELSE [job[e.job] EXCEPT !.status = "queued", !.lease = NoLease,
                              !.next = RetryDelay(e.attempts) - age[w]]))
  BY DEF RecoverExpired
<1>2. e.job \in Jobs /\ job[e.job] \in Document
  BY <1>0, TaskFields
<1> DEFINE doc == IF Exhausted(e.attempts)
                  THEN [job[e.job] EXCEPT !.status = "failed"]
                  ELSE [job[e.job] EXCEPT !.status = "queued", !.lease = NoLease,
                              !.next = RetryDelay(e.attempts) - age[w]]
<1>3. doc.status \in {"failed", "queued"}
  BY <1>2 DEF Document
<1>4. StillExpired(w, e) => Save(e.job, EventUpdate(doc))
  BY <1>1
<1>5. EventUpdate(doc).status = doc.status
  <2>1. EventUpdate([job[e.job] EXCEPT !.status = "failed"]).status = "failed"
    BY <1>2 DEF EventUpdate, Document
  <2>2. \A n : EventUpdate([job[e.job] EXCEPT !.status = "queued", !.lease = NoLease,
                                              !.next = n]).status = "queued"
    BY <1>2 DEF EventUpdate, Document
  <2>3. CASE Exhausted(e.attempts)
    <3>1. doc = [job[e.job] EXCEPT !.status = "failed"]
      BY <2>3
    <3> QED
      BY <1>2, <2>1, <3>1 DEF Document
  <2>4. CASE ~Exhausted(e.attempts)
    <3> DEFINE n == RetryDelay(e.attempts) - age[w]
    <3>1. doc = [job[e.job] EXCEPT !.status = "queued", !.lease = NoLease, !.next = n]
      BY <2>4
    <3> HIDE DEF doc, n
    <3>2. doc.status = "queued"
      BY <1>2, <3>1 DEF Document
    <3> QED
      BY <2>2, <3>1, <3>2
  <2> QED
    BY <2>3, <2>4
<1> HIDE DEF doc
<1>6. StillExpired(w, e) => job'[e.job] = EventUpdate(doc)
  BY <1>0, <1>2, <1>4 DEF Save, TypeOK
<1>7. snap'[w] = snap[w] \ {e}
  BY <1>0, <1>1 DEF TypeOK
<1> QED
  BY <1>3, <1>5, <1>6, <1>7

\* It cannot end the pass with the job left as it is.
LEMMA PassStays ==
    ASSUME Moderate, LiveInv, LiveInv', [Next]_vars, [faults' = faults]_vars, [Quiet]_vars,
           NEW w \in Workers, NEW j \in Jobs, NEW kind \in Kinds,
           Under(kind, j, 0), Under(kind, j, 0)', Comes(kind, j, w)
    PROVE  Comes(kind, j, w)'
<1>0. QueueInv /\ TypeOK /\ job[j] \in Document
  BY DEF LiveInv, QueueInv, TypeOK
<1>1. CASE UNCHANGED vars
  BY <1>1 DEF vars, workerVars, Comes
<1> SUFFICES ASSUME faults' = faults, Quiet PROVE Comes(kind, j, w)'
  BY <1>1
<1>2. /\ job[j].next \in Int /\ job[j].lease \in Int /\ Floor \in Int
      /\ Floor = -(MaxLag + 1) /\ MaxLag \in Nat /\ NoLease < Floor /\ NoLease \in Int
      /\ job[j].status = "processing" => job[j].lease >= Floor
  BY DatesTyped
<1>3. age[w] \in Int /\ Floor < -age[w]
  <2>1. age[w] \in 0 .. MaxLag
    BY <1>0 DEF TypeOK
  <2> QED
    BY <1>2, <2>1
<1>4. kind = "queued" => job[j].status = "queued" /\ job[j].ready /\ job[j].next <= Floor
  BY <1>2 DEF Under, On, Left
<1>5. kind = "processing" =>
        /\ job[j].status = "processing" /\ job'[j].status = "processing"
        /\ job[j].lease <= Floor /\ job'[j].attempt = job[j].attempt
  <2>1. kind = "processing" => /\ job[j].status = "processing" /\ job'[j].status = "processing"
                               /\ job[j].lease <= Floor
    BY <1>2 DEF Under, On, Left
  <2> QED
    BY <1>0, <2>1, AttemptKept
<1>6. CASE Idles(w)
  BY <1>5, <1>6 DEF Idles, Comes
<1>7. CASE FindExpired(w)
  <2>1. pc'[w] = "recover"
    BY <1>0, <1>7 DEF FindExpired, TypeOK
  <2>2. ASSUME kind = "processing"
        PROVE  \E e \in snap'[w] : e.job = j /\ e.attempt = job'[j].attempt
    <3> DEFINE e == [job |-> j, attempt |-> job[j].attempt, attempts |-> job[j].attempts]
    <3>1. e \in snap'[w]
      <4>1. /\ job[j].status = "processing" /\ job[j].lease # NoLease
            /\ job[j].lease < -age[w]
        BY <1>2, <1>3, <1>5, <2>2
      <4> QED
        BY <1>0, <1>7, <4>1 DEF FindExpired, TypeOK
    <3>2. e.job = j /\ e.attempt = job'[j].attempt
      BY <1>5, <2>2
    <3> QED
      BY <3>1, <3>2
  <2> QED
    BY <2>1, <2>2 DEF Comes
<1>8. CASE RecoverExpired(w)
  <2>1. PICK e \in snap[w] :
          /\ snap'[w] = snap[w] \ {e}
          /\ StillExpired(w, e) => job'[e.job].status # "processing"
    BY <1>0, <1>8, RecoverReleases
  <2>2. pc[w] = "recover" /\ pc'[w] = "recover"
    BY <1>8 DEF RecoverExpired
  <2>3. ASSUME kind = "processing"
        PROVE  \E d \in snap'[w] : d.job = j /\ d.attempt = job'[j].attempt
    <3>1. PICK d \in snap[w] : d.job = j /\ d.attempt = job[j].attempt
      BY <2>2, <2>3 DEF Comes
    <3>2. StillExpired(w, d)
      BY <1>2, <1>3, <1>5, <2>3, <3>1 DEF StillExpired
    <3>3. d # e
      BY <1>5, <2>1, <2>3, <3>1, <3>2
    <3> QED
      BY <1>5, <2>1, <2>3, <3>1, <3>3
  <2> QED
    BY <2>2, <2>3 DEF Comes
<1>9. CASE Poll(w)
  <2>1. pc[w] = "recover" /\ snap[w] = {} /\ ~Claimable(w, j)
    BY <1>9 DEF Poll
  <2>2. kind = "queued"
    BY <2>1 DEF Comes, Kinds
  <2>3. job[j].attempts < MaxAttempts
    BY <1>0, <1>4, <2>2 DEF QueueInv, RetryLeft
  <2> QED
    BY <1>2, <1>3, <1>4, <2>1, <2>2, <2>3 DEF Claimable
<1>10. pc[w] \in {"sweep", "recover"} /\ ~Claim(w)
  BY <1>0, QuietClaims DEF Comes
<1>11. ~PipelineStep(w) /\ ~Restart(w) /\ ~LoopTop(w)
  BY <1>10 DEF PipelineStep, Report, EnterIndex, WriteIndex, Complete, StoreResult, PipelineFails,
     FailAttempt, Restart, LoopTop, Running
<1>12. ~FaultStep(w)
  <2>1. faults \in Nat
    BY <1>0, QueueAssumption DEF TypeOK
  <2> QED
    BY <2>1 DEF FaultStep, Interrupt, CompleteUnknown, FailWriteLost, Crash
<1> QED
  BY <1>0, <1>6, <1>7, <1>8, <1>9, <1>10, <1>11, <1>12, WorkerNext DEF LoopStep

\* The wait is over at last.
Ends(kind, j) == <>Over(kind, j)

\* So it does not wait for ever, nor is it left behind by an attempt that died.
LEMMA OnEnds ==
    ASSUME Moderate, Workers # {}, NEW j \in Jobs, NEW kind \in Kinds
    PROVE  Calm /\ Passes(j) => (On(kind, j) => Ends(kind, j))
<1> PICK v \in Workers : TRUE
  OBVIOUS
<1> DEFINE O == On(kind, j)  V == Over(kind, j)  R == Under(kind, j, 0)
           F == Under(kind, j, 0 + Far)  C == Comes(kind, j, v)
           T == pc[v] = "top"  L == pc[v] \in {"top", "sweep", "recover"}
<1>1. Calm /\ Passes(j) => \A n \in Nat : Drops(kind, j, n, 1)
  BY DateOne
<1>2. Calm /\ Passes(j) => Drops(kind, j, 0, Far)
  BY <1>1, DropsFar
<1>3. LiveInv /\ O => F
  <2> SUFFICES ASSUME LiveInv, O PROVE F
    OBVIOUS
  <2>1. Left(kind, j) \in Int /\ Left(kind, j) <= Far
    BY DatesTyped DEF Left, Kinds
  <2> QED
    BY <2>1, FarEnough DEF Under
<1>4. (V <=> ~O) /\ (R => O)
  BY DEF Over, Under
<1>5. LiveInv /\ [Next]_vars /\ [Quiet]_vars /\ R => R' \/ V'
  <2>1. UNCHANGED vars => Quiet
    BY DEF vars, Quiet, CountKept
  <2> QED
    BY <2>1, DateMoves
<1>6. LiveInv /\ LiveInv' /\ [Next]_vars /\ [faults' = faults]_vars /\ [Quiet]_vars
        => (R /\ R' /\ C => C')
  BY PassStays
<1>7. C => ~T
  BY DEF Comes
<1>8. LiveInv /\ LiveInv' /\ [Next]_vars /\ [faults' = faults]_vars /\ [Quiet]_vars
        => /\ T => T' \/ C'
           /\ T /\ <<LoopStep(v)>>_vars => C'
  <2> SUFFICES ASSUME LiveInv, LiveInv', [Next]_vars, [faults' = faults]_vars, [Quiet]_vars, T
               PROVE  (T' \/ C') /\ (<<LoopStep(v)>>_vars => C')
    OBVIOUS
  <2>1. pc'[v] = "sweep" => C'
    BY DEF Comes
  <2>2. UNCHANGED vars => Idles(v) /\ faults' = faults /\ Quiet
    BY DEF vars, workerVars, Idles, Quiet, CountKept
  <2>3. faults' = faults /\ Quiet
    BY <2>2
  <2>4. Idles(v) \/ pc'[v] = "sweep"
    BY <2>3, WorkerMoves DEF Nearer
  <2>5. LoopStep(v) => pc'[v] = "sweep"
    BY <2>3, LoopNearer DEF Nearer
  <2> QED
    BY <2>1, <2>4, <2>5 DEF Idles
<1>9. WorkersGo => Goes(v)
  BY DEF WorkersGo
<1>10. Goes(v) => (<>[]L => []<><<LoopStep(v)>>_vars)
  BY DEF Goes
<1>11. T => L
  OBVIOUS
<1>12. Calm => GetsTop(v)
  BY TopAgain
<1>13. GetsTop(v) => []<>T
  BY DEF GetsTop
<1> HIDE DEF O, V, R, F, C, T, L
<1>14. Calm /\ Passes(j) => (O => <>V)
  BY <1>2, <1>3, <1>4, <1>5, <1>6, <1>7, <1>8, <1>9, <1>10, <1>11, <1>12, <1>13,
     PTL DEF Calm, Steady, Drops, R, V, F, Goes, L
<1> QED
  BY <1>14 DEF Ends, O, V

\* Its execution ends at last.
Leaves(j) == <>(On("processing", j) \/ On("queued", j) \/ Closed(j))

\* Who holds a job gives it up, or its attempt is taken away.
LEMMA HeldEnds ==
    ASSUME Moderate, NEW j \in Jobs
    PROVE  Calm => ((\E w \in Workers : HeldBy(w, j)) => Leaves(j))
<1>1. ASSUME NEW w \in Workers
      PROVE  Calm => (HeldBy(w, j) => Leaves(j))
  <2> DEFINE H == HeldBy(w, j)  T == pc[w] = "top"
             X == On("processing", j) \/ On("queued", j) \/ Closed(j)
  <2>1. LiveInv /\ [Next]_vars /\ [Quiet]_vars /\ H => H' \/ X'
    <3>1. UNCHANGED vars => Quiet
      BY DEF vars, Quiet, CountKept
    <3> QED
      BY <3>1, HeldStays
  <2>2. H => ~T
    BY DEF HeldBy, Holds, Running
  <2>3. Calm => GetsTop(w)
    BY TopAgain
  <2>4. GetsTop(w) => []<>T
    BY DEF GetsTop
  <2> HIDE DEF H, T, X
  <2>5. Calm => (H => <>X)
    BY <2>1, <2>2, <2>3, <2>4, PTL DEF Calm, Steady
  <2> QED
    BY <2>5 DEF Leaves, H, X
<1> QED
  BY <1>1

\* Every accepted job is settled in the end or taken away by its owner, for every number
\* of workers and all jobs, stages, attempts, leases and delays below a billion: if
\* workers go on with what they are at and are started again, time passes, and
\* failures stop.  No worker that died, no lease that its heartbeat renews for as long
\* as the pipeline runs, no attempt that lost the job and goes on, and no number of
\* older jobs that are claimed first can keep it from that (run, process_one and
\* recover_expired of ai-service/worker.py).
THEOREM JobsSettle ==
    ASSUME Moderate, Workers # {}
    PROVE  Spec /\ []WorkersGo /\ TimePasses /\ <>[][faults' = faults]_vars => EverySettles
<1> SUFFICES ASSUME NEW j \in Jobs
             PROVE  Spec /\ []WorkersGo /\ TimePasses /\ <>[][faults' = faults]_vars
                      => ((job[j].ready /\ job[j].status \in {"queued", "processing"})
                            ~> job[j].status \notin {"queued", "processing"})
  BY DEF EverySettles
<1> DEFINE O == Open(j)  X == Closed(j)  Q == On("queued", j)  P == On("processing", j)
           H == \E w \in Workers : HeldBy(w, j)
<1>1. TimePasses => Passes(j)
  BY DEF TimePasses
<1>2. LiveInv /\ O => Q \/ P \/ H
  BY DEF LiveInv, JobLive, Open, On, HeldBy
<1>3. LiveInv /\ [Next]_vars /\ O => O' \/ X'
  <2>1. UNCHANGED vars => O' = O
    BY DEF vars, Open
  <2> QED
    BY <2>1, OpenStays
<1>4. Calm /\ Passes(j) => (Q => Ends("queued", j)) /\ (P => Ends("processing", j))
  <2>1. "queued" \in Kinds /\ "processing" \in Kinds
    BY DEF Kinds
  <2> QED
    BY <2>1, OnEnds
<1>5. Calm => (H => Leaves(j))
  BY HeldEnds
<1>6. LiveInv /\ [Next]_vars /\ [Quiet]_vars => /\ Q => Q' \/ X'
                                                /\ P => P' \/ Q' \/ X'
  <2>1. UNCHANGED vars => Quiet
    BY DEF vars, Quiet, CountKept
  <2> QED
    BY <2>1, OnStays
<1>7. (Over("queued", j) <=> ~Q) /\ (Over("processing", j) <=> ~P)
  BY DEF Over
<1>8. Steady => <>[][Quiet]_vars
  BY ClaimsEnd
<1>9. O <=> job[j].ready /\ job[j].status \in {"queued", "processing"}
  BY DEF Open
<1>10. X <=> job[j].status \notin {"queued", "processing"}
  BY DEF Closed
<1>11. Spec => []LiveInv
  BY LiveInvariant
<1> HIDE DEF O, X, Q, P, H
<1>12. Calm /\ Passes(j) => (O => <>X)
  BY <1>2, <1>4, <1>5, <1>6, <1>7, PTL DEF Calm, Steady, Passes, Leaves, Ends, Q, P, X
<1>13. Steady /\ Passes(j) /\ <>[][faults' = faults]_vars => (O ~> X)
  BY <1>3, <1>8, <1>12, PTL DEF Calm, Steady, Passes
<1> QED
  BY <1>1, <1>9, <1>10, <1>11, <1>13, PTL DEF Spec, Steady

=============================================================================
