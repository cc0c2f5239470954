------------------------------ MODULE JobQueue ------------------------------
(***************************************************************************)
(* The durable job queue: the MongoDB job documents, the workers of        *)
(* ai-service/worker.py that lease and execute them, and the handlers of   *)
(* the gateway (server/src/controllers/videoController.js) that accept,    *)
(* cancel and delete them while a worker runs.                             *)
(*                                                                         *)
(* Time is relative.  A date of a document is kept as its distance from    *)
(* the present, so leaseUntil > utcnow() reads lease > 0; Tick counts every *)
(* distance down to Floor, below which no query tells two dates apart.  A  *)
(* worker captures "now" once at the top of its loop and goes on using it: *)
(* age is how far in the past that capture lies.                           *)
(*                                                                         *)
(* An attempt identifier is a fresh random value; here it is the version   *)
(* of the document that introduced it, which no other write of the same    *)
(* job has.  The delivery subdocument, which event_update rewrites in the  *)
(* same update as it increments the version, is the subject of             *)
(* CallbackDelivery: here a new version stands for both.  A job in         *)
(* "deleting" stays there: its cleanup is another component.               *)
(***************************************************************************)
EXTENDS Integers, Sequences, FiniteSets, PublishedJob

CONSTANTS
    Jobs,          \* job numbers in order of createdAt
    Workers,       \* worker processes
    LastStage,     \* number of the "completed" stage (10 in the code)
    MaxAttempts,   \* JOB_MAX_ATTEMPTS
    LeaseTicks,    \* JOB_LEASE_SECONDS, in ticks
    RetryDelays,   \* 30 s, 2 min, 10 min, in ticks
    MaxLag,        \* bound: age of the "now" a loop pass works with
    MaxFaults      \* bound: crashes, database errors and passes spent on a
                   \* cleanup in a behaviour

ASSUME QueueAssumption ==
    /\ Jobs \subseteq Nat
    /\ LastStage \in Nat \ {0, 1}
    /\ MaxAttempts \in Nat \ {0}
    /\ LeaseTicks \in Nat \ {0}
    /\ RetryDelays \in Seq(Nat) /\ RetryDelays # << >>
    /\ MaxLag \in Nat
    /\ MaxFaults \in Nat

VARIABLES
    job,          \* the job documents
    collections,  \* vector collections on disk, by job
    pc,           \* where each worker is in its loop
    task,         \* the claimed document each worker executes
    snap,         \* what the cursor of recover_expired still holds
    age,          \* ticks since the worker captured "now"
    beating,      \* whether the worker's heartbeat thread is alive
    faults        \* of those that MaxFaults bounds, how many so far

workerVars == <<pc, task, snap, age, beating>>
vars == <<job, collections, workerVars, faults>>

----------------------------------------------------------------------------
(* Types *)

Settled  == {"completed", "failed", "cancelled"}
Statuses == {"queued", "processing", "deleting"} \cup Settled

Floor   == -(MaxLag + 1)
NoLease == Floor - 1          \* the field is absent: no date compares with it
NoAttempt == 0

Document ==
    [status   : Statuses,
     ready    : BOOLEAN,            \* execution.ready
     percent  : 0 .. LastStage,
     attempts : 0 .. MaxAttempts,   \* execution.attempts
     next     : Int,                \* execution.nextAttemptAt
     lease    : NoLease .. LeaseTicks,  \* execution.leaseUntil
     attempt  : Nat,                \* execution.attemptId
     index    : Nat,                \* indexAttempt
     version  : Nat]                \* progressVersion

\* What process_one keeps of the claimed document, and the stage its pipeline
\* last reported.
Task   == [job : Jobs, attempt : Nat, attempts : 0 .. MaxAttempts, stage : 0 .. LastStage]
NoTask == [job |-> 0, attempt |-> NoAttempt, attempts |-> 0, stage |-> 0]

\* What the projection of recover_expired's query returns for a job.
Expired == [job : Jobs, attempt : Nat, attempts : 0 .. MaxAttempts]

Idle    == {"top", "sweep", "recover", "down"}
Running == {"run", "indexing", "indexed", "failing"}

TypeOK ==
    /\ job \in [Jobs -> Document]
    /\ collections \in [Jobs -> SUBSET Nat]
    /\ pc \in [Workers -> Idle \cup Running]
    /\ task \in [Workers -> Task \cup {NoTask}]
    /\ \A w \in Workers : pc[w] \in Running => task[w] \in Task
    /\ \A w \in Workers : beating[w] => pc[w] \in Running
    /\ snap \in [Workers -> SUBSET Expired]
    /\ age \in [Workers -> 0 .. MaxLag]
    /\ beating \in [Workers -> BOOLEAN]
    /\ faults \in 0 .. MaxFaults

----------------------------------------------------------------------------
(* The documents *)

Init ==
    /\ job = [j \in Jobs |->
                [status |-> "queued", ready |-> FALSE, percent |-> 0,
                 attempts |-> 0, next |-> 0, lease |-> NoLease,
                 attempt |-> NoAttempt, index |-> NoAttempt, version |-> 0]]
    /\ collections = [j \in Jobs |-> {}]
    /\ pc = [w \in Workers |-> "top"]
    /\ task = [w \in Workers |-> NoTask]
    /\ snap = [w \in Workers |-> {}]
    /\ age = [w \in Workers |-> 0]
    /\ beating = [w \in Workers |-> FALSE]
    /\ faults = 0

Save(j, doc) == job' = [job EXCEPT ![j] = doc]

\* A change to publish: the next version, and the notification with it.
EventUpdate(doc) == [doc EXCEPT !.version = @ + 1]

\* Mutant: the identifier of the first attempt is kept.
KeptAttempt(doc) ==
    IF doc.attempt = NoAttempt THEN [doc EXCEPT !.attempt = doc.version] ELSE doc

\* The document gets a new attempt identifier.
FreshAttempt(doc) == [doc EXCEPT !.attempt = doc.version]

RetryDelay(attempt) ==
    RetryDelays[CASE attempt < 1                -> 1
                  [] attempt > Len(RetryDelays) -> Len(RetryDelays)
                  [] OTHER                      -> attempt]

\* Mutant: one attempt too many.
ExhaustedTooLate(attempts) == attempts > MaxAttempts

\* Whether a failed attempt was the last one.
Exhausted(attempts) == attempts >= MaxAttempts

\* Collection names carry the attempt that builds them.
CollectionName(attempt) == attempt

----------------------------------------------------------------------------
(* The gateway *)

\* The last write of submitJob: the intent becomes a runnable job.
Accept(j) ==
    /\ job[j].status = "queued"
    /\ ~job[j].ready
    /\ Save(j, [job[j] EXCEPT !.ready = TRUE, !.next = 0])
    /\ UNCHANGED <<collections, workerVars, faults>>

CancelJob(j) ==
    /\ job[j].status \in {"queued", "processing"}
    /\ job[j].ready
    /\ Save(j, FreshAttempt(EventUpdate(
            [job[j] EXCEPT !.status = "cancelled", !.lease = NoLease])))
    /\ UNCHANGED <<collections, workerVars, faults>>

\* The marker that deleteJob and expire_jobs write.
Mark(j) ==
    /\ job[j].status # "deleting"
    /\ Save(j, FreshAttempt(EventUpdate(
            [job[j] EXCEPT !.status = "deleting", !.ready = FALSE, !.lease = NoLease])))

DeleteJob(j) ==
    /\ Mark(j)
    /\ UNCHANGED <<collections, workerVars, faults>>

----------------------------------------------------------------------------
(* A pass of the worker's loop *)

LoopTop(w) ==
    /\ pc[w] = "top"
    /\ pc'  = [pc EXCEPT ![w] = "sweep"]
    /\ age' = [age EXCEPT ![w] = 0]
    /\ UNCHANGED <<job, collections, task, snap, beating, faults>>

\* expire_jobs finds a job whose retention is over.  Retention is counted in
\* days and everything else here in seconds: any job may have reached it.
ExpireJob(w, j) ==
    /\ pc[w] = "sweep"
    /\ Mark(j)
    /\ UNCHANGED <<collections, workerVars, faults>>

\* recover_expired: its query ...
FindExpired(w) ==
    /\ pc[w] = "sweep"
    /\ pc' = [pc EXCEPT ![w] = "recover"]
    /\ snap' = [snap EXCEPT ![w] =
            {[job |-> j, attempt |-> job[j].attempt, attempts |-> job[j].attempts] :
                j \in {i \in Jobs : /\ job[i].status = "processing"
                                    /\ job[i].lease # NoLease
                                    /\ job[i].lease < -age[w]}}]
    /\ UNCHANGED <<job, collections, task, age, beating, faults>>

StillExpired(w, e) ==
    /\ job[e.job].status = "processing"
    /\ job[e.job].attempt = e.attempt
    /\ job[e.job].lease # NoLease
    /\ job[e.job].lease < -age[w]

\* ... and, for each job found, the update guarded by what the query saw.
RecoverExpired(w) ==
    /\ pc[w] = "recover"
    /\ \E e \in snap[w] :
        /\ snap' = [snap EXCEPT ![w] = @ \ {e}]
        /\ IF StillExpired(w, e)
           THEN Save(e.job, EventUpdate(
                    IF Exhausted(e.attempts)
                    THEN [job[e.job] EXCEPT !.status = "failed"]
                    ELSE [job[e.job] EXCEPT !.status = "queued", !.lease = NoLease,
                              !.next = RetryDelay(e.attempts) - age[w]]))
           ELSE UNCHANGED job
    /\ UNCHANGED <<collections, pc, task, age, beating, faults>>

Claimable(w, j) ==
    /\ job[j].status = "queued"
    /\ job[j].next <= -age[w]
    /\ job[j].ready
    /\ job[j].attempts < MaxAttempts

\* The oldest claimable job starts an attempt under a new identifier and a
\* lease that runs from the captured "now".
Claim(w) ==
    /\ pc[w] = "recover" /\ snap[w] = {}
    /\ \E j \in Jobs :
        /\ Claimable(w, j)
        /\ \A i \in Jobs : Claimable(w, i) => j <= i
        /\ LET doc == FreshAttempt(EventUpdate(
                [job[j] EXCEPT !.status = "processing", !.percent = 0,
                               !.attempts = @ + 1, !.lease = LeaseTicks - age[w]]))
           IN  /\ Save(j, doc)
               /\ task' = [task EXCEPT ![w] =
                    [job |-> j, attempt |-> doc.attempt, attempts |-> doc.attempts, stage |-> 0]]
    /\ pc' = [pc EXCEPT ![w] = "run"]
    /\ age' = [age EXCEPT ![w] = 0]
    /\ beating' = [beating EXCEPT ![w] = TRUE]
    /\ UNCHANGED <<collections, snap, faults>>

\* Nothing to claim: the worker sleeps for POLL_SECONDS and starts over.
Poll(w) ==
    /\ pc[w] = "recover" /\ snap[w] = {}
    /\ \A j \in Jobs : ~Claimable(w, j)
    /\ pc' = [pc EXCEPT ![w] = "top"]
    /\ age' = [age EXCEPT ![w] = 0]
    /\ UNCHANGED <<job, collections, task, snap, beating, faults>>

\* A database error ends the pass, or the pass is spent on a cleanup.
Interrupt(w) ==
    /\ pc[w] \in {"sweep", "recover"}
    /\ faults < MaxFaults
    /\ faults' = faults + 1
    /\ pc' = [pc EXCEPT ![w] = "top"]
    /\ snap' = [snap EXCEPT ![w] = {}]
    /\ age' = [age EXCEPT ![w] = 0]
    /\ UNCHANGED <<job, collections, task, beating>>

----------------------------------------------------------------------------
(* The execution of a claimed job *)

\* Mutants: the query forgets the status, or the attempt.
OwnedAnyStatus(j, attempt) ==
    /\ job[j].attempt = attempt
    /\ job[j].lease > 0

OwnedAnyAttempt(j, attempt) ==
    /\ job[j].status = "processing"
    /\ job[j].lease > 0

\* The query every write of an attempt must match.
Owned(j, attempt) ==
    /\ job[j].status = "processing"
    /\ job[j].attempt = attempt
    /\ job[j].lease > 0

Mine(w) == Owned(task[w].job, task[w].attempt)

\* A renewed lease runs from now.
Renewed(lease) == LeaseTicks

\* The heartbeat thread extends the lease; it ends when it does not match.
Heartbeat(w) ==
    /\ beating[w]
    /\ IF Mine(w)
       THEN /\ Save(task[w].job, [job[task[w].job] EXCEPT !.lease = Renewed(@)])
            /\ UNCHANGED beating
       ELSE /\ beating' = [beating EXCEPT ![w] = FALSE]
            /\ UNCHANGED job
    /\ UNCHANGED <<collections, pc, task, snap, age, faults>>

\* process_one returns to the loop, its heartbeat thread stopped.
Return(w) ==
    /\ pc' = [pc EXCEPT ![w] = "top"]
    /\ task' = [task EXCEPT ![w] = NoTask]
    /\ beating' = [beating EXCEPT ![w] = FALSE]
    /\ UNCHANGED <<snap, age>>

\* The write of _progress_updater for the next stage of the attempt.
CanReport(w, stage) ==
    /\ Mine(w)
    /\ job[task[w].job].percent <= stage

\* The pipeline reports its next stage.  The index is built between the last
\* two reports.
Report(w) ==
    LET j     == task[w].job
        stage == task[w].stage + 1
    IN  /\ pc[w] = "run"
        /\ stage < LastStage
        /\ CanReport(w, stage)
        /\ Save(j, EventUpdate([job[j] EXCEPT !.percent = stage]))
        /\ task' = [task EXCEPT ![w].stage = stage]
        /\ UNCHANGED <<collections, pc, snap, age, beating, faults>>

\* vector_job_lock: one index writer per job; the lock dies with its process.
LockFree(j) == \A v \in Workers : pc[v] = "indexing" => task[v].job # j

\* The first check of build_vector_store, once it holds the job's lock.
EnterIndex(w) ==
    /\ pc[w] = "run"
    /\ task[w].stage = LastStage - 1
    /\ LockFree(task[w].job)
    /\ Mine(w)
    /\ pc' = [pc EXCEPT ![w] = "indexing"]
    /\ UNCHANGED <<job, collections, task, snap, age, beating, faults>>

\* The chunks are written, and the second check decides what follows.
WriteIndex(w) ==
    /\ pc[w] = "indexing"
    /\ collections' = [collections EXCEPT ![task[w].job] = @ \cup {CollectionName(task[w].attempt)}]
    /\ pc' = [pc EXCEPT ![w] = IF Mine(w) THEN "indexed" ELSE "failing"]
    /\ UNCHANGED <<job, task, snap, age, beating, faults>>

\* Mutant: the result does not wait for its index.
StoreResultEarly(w) ==
    /\ pc[w] \in {"run", "indexed"}
    /\ CanReport(w, LastStage)
    /\ Save(task[w].job, EventUpdate(
            [job[task[w].job] EXCEPT !.status = "completed", !.percent = LastStage,
                                     !.index = task[w].attempt]))

\* The last report publishes the result and the attempt whose index serves it.
StoreResult(w) ==
    /\ pc[w] = "indexed"
    /\ CanReport(w, LastStage)
    /\ Save(task[w].job, EventUpdate(
            [job[task[w].job] EXCEPT !.status = "completed", !.percent = LastStage,
                                     !.index = task[w].attempt]))

Complete(w) ==
    /\ StoreResult(w)
    /\ Return(w)
    /\ UNCHANGED <<collections, faults>>

\* A stage fails, or a check or a report finds that the attempt lost the job.
PipelineFails(w) ==
    /\ pc[w] \in Running \ {"failing"}
    /\ pc' = [pc EXCEPT ![w] = "failing"]
    /\ UNCHANGED <<job, collections, task, snap, age, beating, faults>>

\* The last report was stored but its answer lost: the pipeline believes it
\* failed.
CompleteUnknown(w) ==
    /\ StoreResult(w)
    /\ faults < MaxFaults
    /\ faults' = faults + 1
    /\ pc' = [pc EXCEPT ![w] = "failing"]
    /\ UNCHANGED <<collections, task, snap, age, beating>>

\* The handler of a failed execution: retry later, or fail for good.
FailAttempt(w) ==
    LET j == task[w].job
    IN  /\ pc[w] = "failing"
        /\ IF Mine(w)
           THEN Save(j, EventUpdate(
                    IF Exhausted(task[w].attempts)
                    THEN [job[j] EXCEPT !.status = "failed", !.lease = NoLease]
                    ELSE [job[j] EXCEPT !.status = "queued", !.lease = NoLease,
                                        !.next = RetryDelay(task[w].attempts)]))
           ELSE UNCHANGED job
        /\ Return(w)
        /\ UNCHANGED <<collections, faults>>

\* That write does not reach the database.
FailWriteLost(w) ==
    /\ pc[w] = "failing"
    /\ faults < MaxFaults
    /\ faults' = faults + 1
    /\ Return(w)
    /\ UNCHANGED <<job, collections>>

----------------------------------------------------------------------------
(* Crashes and time *)

\* A worker process dies wherever it is; its locks are released with it.
Crash(w) ==
    /\ pc[w] # "down"
    /\ faults < MaxFaults
    /\ faults' = faults + 1
    /\ pc' = [pc EXCEPT ![w] = "down"]
    /\ task' = [task EXCEPT ![w] = NoTask]
    /\ snap' = [snap EXCEPT ![w] = {}]
    /\ age' = [age EXCEPT ![w] = 0]
    /\ beating' = [beating EXCEPT ![w] = FALSE]
    /\ UNCHANGED <<job, collections>>

Restart(w) ==
    /\ pc[w] = "down"
    /\ pc' = [pc EXCEPT ![w] = "top"]
    /\ UNCHANGED <<job, collections, task, snap, age, beating, faults>>

Earlier(t) == IF t = NoLease \/ t = Floor THEN t ELSE t - 1

Tick ==
    /\ job' = [j \in Jobs |-> [job[j] EXCEPT !.next = Earlier(@), !.lease = Earlier(@)]]
    /\ age' = [w \in Workers |->
                 IF pc[w] \in {"sweep", "recover"} /\ age[w] < MaxLag THEN age[w] + 1 ELSE age[w]]
    /\ UNCHANGED <<collections, pc, task, snap, beating, faults>>

----------------------------------------------------------------------------

GatewayStep(j) == Accept(j) \/ CancelJob(j) \/ DeleteJob(j)

LoopStep(w) ==
    \/ LoopTop(w)
    \/ FindExpired(w)
    \/ RecoverExpired(w)
    \/ Claim(w)
    \/ Poll(w)

PipelineStep(w) ==
    \/ Report(w)
    \/ EnterIndex(w)
    \/ WriteIndex(w)
    \/ Complete(w)
    \/ PipelineFails(w)
    \/ FailAttempt(w)

FaultStep(w) ==
    \/ Interrupt(w)
    \/ CompleteUnknown(w)
    \/ FailWriteLost(w)
    \/ Crash(w)

Next ==
    \/ \E j \in Jobs : GatewayStep(j)
    \/ \E w \in Workers :
        \/ LoopStep(w)
        \/ \E j \in Jobs : ExpireJob(w, j)
        \/ PipelineStep(w)
        \/ Heartbeat(w)
        \/ FaultStep(w)
        \/ Restart(w)
    \/ Tick

Spec == Init /\ [][Next]_vars

\* A worker process keeps running, or is started again; a stage of its
\* pipeline ends or fails (the provider calls have time limits); the clock
\* goes on.  Nothing is assumed of the gateway, the heartbeats and the faults.
Fairness ==
    /\ WF_vars(Tick)
    /\ \A w \in Workers : /\ WF_vars(LoopStep(w))
                          /\ WF_vars(PipelineStep(w))
                          /\ WF_vars(Restart(w))

FairSpec == Spec /\ Fairness

----------------------------------------------------------------------------
(* Properties *)

\* At-least-once execution never becomes two executions of one attempt: two
\* workers that hold the same job, after a lease expired under one of them,
\* hold different attempts of it, so _owned tells them apart.
ExclusiveAttempt ==
    \A v, w \in Workers :
        /\ v # w
        /\ pc[v] \in Running /\ pc[w] \in Running
        /\ task[v].job = task[w].job
        => task[v].attempt # task[w].attempt

\* While an attempt is current, the percentage the owner sees is the stage
\* this very attempt reported last: no report of an earlier attempt's worker,
\* still in its pipeline, is ever stored under the new one.
CurrentProgress ==
    \A w \in Workers :
        pc[w] \in Running =>
            LET doc == job[task[w].job]
            IN  doc.status = "processing" /\ doc.attempt = task[w].attempt
                    => doc.percent = task[w].stage

\* A job waiting in the queue always has an attempt left, and a failed one
\* none: claim, recover_expired and the handler of process_one, each with its
\* own copy of the counter, agree on the bound, so no job is left queued that
\* no worker will ever claim and none fails before its last attempt.
RetryLeft ==
    \A j \in Jobs :
        /\ job[j].status = "queued" => job[j].attempts < MaxAttempts
        /\ job[j].status = "failed" => job[j].attempts = MaxAttempts

\* The index a completed job is served from is complete, and no worker, not
\* even one that goes on with an attempt that lost the job, writes to it.
IndexIntact ==
    \A j \in Jobs :
        job[j].status = "completed" =>
            /\ CollectionName(job[j].index) \in collections[j]
            /\ \A w \in Workers :
                 pc[w] = "indexing" /\ task[w].job = j
                    => CollectionName(task[w].attempt) # CollectionName(job[j].index)

\* The parts of the inductive invariant.  An identifier was introduced by a
\* version that exists, so the next version is a fresh one ...
AttemptsIssued ==
    /\ \A j \in Jobs : job[j].attempt <= job[j].version
    /\ \A w \in Workers : pc[w] \in Running => task[w].attempt <= job[task[w].job].version
    /\ \A w \in Workers : \A e \in snap[w] : e.attempt <= job[e.job].version

\* ... a copy of the attempts counter is exact as long as its attempt is the
\* current one, which is what the guards of the writes that use it test ...
CountersExact ==
    /\ \A w \in Workers :
         pc[w] \in Running /\ task[w].attempt = job[task[w].job].attempt
            => task[w].attempts = job[task[w].job].attempts
    /\ \A w \in Workers : \A e \in snap[w] :
         e.attempt = job[e.job].attempt => e.attempts = job[e.job].attempts

\* ... and once the index of an attempt is published, the only worker that may
\* still hold the attempt is one that never learnt it.
IndexPublished ==
    /\ \A w \in Workers :
         pc[w] = "indexed" => CollectionName(task[w].attempt) \in collections[task[w].job]
    /\ \A j \in Jobs : job[j].status = "completed" =>
         /\ job[j].index <= job[j].version
         /\ CollectionName(job[j].index) \in collections[j]
         /\ \A w \in Workers :
              pc[w] \in Running /\ task[w].job = j /\ task[w].attempt = job[j].index
                => pc[w] = "failing"

QueueInv ==
    /\ TypeOK
    /\ AttemptsIssued
    /\ CountersExact
    /\ ExclusiveAttempt
    /\ CurrentProgress
    /\ RetryLeft
    /\ IndexPublished

\* The owner sees the lifecycle of JobLifecycle: terminal results never change,
\* cancellation and deletion are final, retries are bounded, every published
\* change has its own version.
Lifecycle == INSTANCE JobLifecycle WITH
    status   <- [j \in Jobs |-> job[j].status],
    percent  <- [j \in Jobs |-> job[j].percent],
    attempts <- [j \in Jobs |-> job[j].attempts],
    version  <- [j \in Jobs |-> job[j].version]

ImplementsLifecycle == Lifecycle!Spec

\* What is shown of a job changes only together with its version, and in the ways
\* a view of it expects.
PublishedStep(j) ==
    \/ UNCHANGED <<job[j].status, job[j].percent, job[j].attempts, job[j].version>>
    \/ /\ job'[j].version = job[j].version + 1
       /\ Kind(job'[j].status) \in NextKinds(Kind(job[j].status))

PublishedInSteps == [][\A j \in Jobs : PublishedStep(j)]_vars

\* An accepted job does not stay queued or processing forever, whatever
\* crashes: its result, its failure or its owner's decision ends it.
EverySettles ==
    \A j \in Jobs :
        (job[j].ready /\ job[j].status \in {"queued", "processing"})
            ~> job[j].status \notin {"queued", "processing"}

=============================================================================
