------------------------------ MODULE Deletion ------------------------------
(***************************************************************************)
(* The deletion of jobs: the marker that fences a job, the cleanup passes  *)
(* of ai-service/utils/deletion.py that erase what it left in four places  *)
(* (vector directory, scratch files, GridFS, chat messages), the worker    *)
(* that may still execute it, and the hourly scans that collect what no    *)
(* pass erased.                                                            *)
(*                                                                         *)
(* A pass is not atomic: between two of its erasures its process may die,  *)
(* its lease may end and another pass start, and the execution that lost   *)
(* the job goes on.  Dates are kept as whether they still lie in the       *)
(* future.  The execution of a job is JobQueue, of which this keeps who    *)
(* owns the job and which artifacts an execution writes and removes.       *)
(***************************************************************************)
EXTENDS Integers, FiniteSets

CONSTANTS
    Jobs, Workers, NoWorker,
    Files, NoFile,   \* originals in GridFS
    MediaOf,         \* sourceArtifact.fileId of each job when it is accepted
    MaxCleanups,     \* MAX_CLEANUP_ATTEMPTS (8 in the code)
    MaxRuns,         \* bound: executions of a job in a behaviour
    MaxFaults        \* bound: crashes, failed steps and passes that outlive
                     \* their lease in a behaviour

ASSUME DeletionAssumption ==
    /\ Jobs \subseteq Nat
    /\ NoWorker \notin Workers /\ NoFile \notin Files
    /\ MediaOf \in [Jobs -> Files \cup {NoFile}]
    /\ MaxCleanups \in Nat \ {0}
    /\ MaxRuns \in Nat /\ MaxFaults \in Nat

VARIABLES
    status, attempt,   \* of the job documents; an attempt is a counter
    lease,             \* whether execution.leaseUntil lies in the future
    source,            \* sourceArtifact.fileId
    deletion,          \* the deletion subdocuments
    index, scratch,    \* attempts that left vectors or scratch files, by job
    files, messages,   \* originals stored, chat messages by job
    pc, work,          \* what each worker is doing
    failures,          \* passes since the request that failed or lost their lease
    faults             \* of what MaxFaults bounds, how much so far

jobVars == <<status, attempt, lease, source>>
artifacts == <<index, scratch, files, messages>>
vars == <<jobVars, deletion, artifacts, pc, work, failures, faults>>

----------------------------------------------------------------------------
(* Types *)

Statuses == {"queued", "processing", "settled", "deleting", "deleted"}

Cleanup ==
    [state    : {"none", "pending", "working", "failed", "done"},
     next     : {"past", "future", "wait"},   \* nextAt; "wait" is waitUntil
     held     : BOOLEAN,                \* leaseUntil lies in the future
     token    : Workers \cup {NoWorker},
     attempts : 0 .. MaxCleanups + 1,
     wait     : BOOLEAN,                \* waitUntil lies in the future
     stopped  : BOOLEAN,                \* workerStoppedAt is set
     active   : Nat]                    \* activeAttemptId

NoCleanup ==
    [state |-> "none", next |-> "past", held |-> FALSE, token |-> NoWorker,
     attempts |-> 0, wait |-> FALSE, stopped |-> FALSE, active |-> 0]

\* What the tombstone keeps.
Buried == [NoCleanup EXCEPT !.state = "done"]

Executing == {"run", "fetched", "indexing", "stored"}
Erasing   == {"vector", "scratch", "media", "unlink", "messages", "tombstone"}

Work == [job : Jobs, attempt : Nat, tries : 0 .. MaxCleanups + 1]
NoWork == [job |-> 0, attempt |-> 0, tries |-> 0]

TypeOK ==
    /\ status \in [Jobs -> Statuses]
    /\ attempt \in [Jobs -> Nat]
    /\ lease \in [Jobs -> BOOLEAN]
    /\ source \in [Jobs -> Files \cup {NoFile}]
    /\ deletion \in [Jobs -> Cleanup]
    /\ \A j \in Jobs : deletion[j].token # NoWorker <=> deletion[j].state = "working"
    /\ index \in [Jobs -> SUBSET Nat] /\ scratch \in [Jobs -> SUBSET Nat]
    /\ files \subseteq Files
    /\ messages \in [Jobs -> SUBSET Int]
    /\ pc \in [Workers -> {"idle", "leaving", "acking", "wait", "error"} \cup Executing \cup Erasing]
    /\ work \in [Workers -> Work \cup {NoWork}]
    /\ \A w \in Workers : IF pc[w] = "idle" THEN work[w] = NoWork ELSE work[w] \in Work
    /\ failures \in [Jobs -> 0 .. MaxCleanups + 1]
    /\ faults \in 0 .. MaxFaults

----------------------------------------------------------------------------

\* Jobs wait, were executed earlier, when attempt 0 left their vectors, or are
\* tombstones.
Init ==
    /\ status \in [Jobs -> {"queued", "settled", "deleted"}]
    /\ attempt = [j \in Jobs |-> 0]
    /\ lease = [j \in Jobs |-> FALSE]
    /\ source = [j \in Jobs |-> IF status[j] = "deleted" THEN NoFile ELSE MediaOf[j]]
    /\ deletion = [j \in Jobs |-> IF status[j] = "deleted" THEN Buried ELSE NoCleanup]
    /\ index = [j \in Jobs |-> IF status[j] = "settled" THEN {0} ELSE {}]
    /\ scratch = [j \in Jobs |-> {}]
    /\ files = {source[j] : j \in Jobs} \ {NoFile}
    /\ messages = [j \in Jobs |-> {}]
    /\ pc = [w \in Workers |-> "idle"]
    /\ work = [w \in Workers |-> NoWork]
    /\ failures = [j \in Jobs |-> 0]
    /\ faults = 0

Goto(w, step) == pc' = [pc EXCEPT ![w] = step]

\* The worker is back in its loop.
Loop(w) == Goto(w, "idle") /\ work' = [work EXCEPT ![w] = NoWork]

Fault ==
    /\ faults < MaxFaults
    /\ faults' = faults + 1

OneMore(n) == IF n > MaxCleanups THEN n ELSE n + 1

----------------------------------------------------------------------------
(* The execution of a job *)

Claim(w, j) ==
    /\ pc[w] = "idle"
    /\ status[j] = "queued"
    /\ attempt[j] < MaxRuns
    /\ status' = [status EXCEPT ![j] = "processing"]
    /\ attempt' = [attempt EXCEPT ![j] = @ + 1]
    /\ lease' = [lease EXCEPT ![j] = TRUE]
    /\ Goto(w, "run")
    /\ work' = [work EXCEPT ![w] = [job |-> j, attempt |-> attempt[j] + 1, tries |-> 0]]
    /\ UNCHANGED <<source, deletion, artifacts, failures, faults>>

\* Mutant: the attempt alone is compared.
OwnedAnyStatus(j, a) == attempt[j] = a \/ attempt[j] = a + 1

Owned(j, a) == status[j] = "processing" /\ attempt[j] = a /\ lease[j]

\* The original is copied and a workspace made, with no check before it.
Fetch(w) ==
    /\ pc[w] = "run"
    /\ scratch' = [scratch EXCEPT ![work[w].job] = @ \cup {work[w].attempt}]
    /\ Goto(w, "fetched")
    /\ UNCHANGED <<jobVars, deletion, index, files, messages, work, failures, faults>>

\* vector_job_lock: nobody writes the job's vectors.
LockFree(j) == \A w \in Workers : pc[w] = "indexing" => work[w].job # j

EnterIndex(w) ==
    /\ pc[w] = "fetched"
    /\ LockFree(work[w].job)
    /\ Owned(work[w].job, work[w].attempt)
    /\ Goto(w, "indexing")
    /\ UNCHANGED <<jobVars, deletion, artifacts, work, failures, faults>>

WriteIndex(w) ==
    /\ pc[w] = "indexing"
    /\ index' = [index EXCEPT ![work[w].job] = @ \cup {work[w].attempt}]
    /\ Goto(w, "stored")
    /\ UNCHANGED <<jobVars, deletion, scratch, files, messages, work, failures, faults>>

\* The result is published.
Complete(w) ==
    /\ pc[w] = "stored"
    /\ Owned(work[w].job, work[w].attempt)
    /\ status' = [status EXCEPT ![work[w].job] = "settled"]
    /\ Goto(w, "leaving")
    /\ UNCHANGED <<attempt, lease, source, deletion, artifacts, work, failures, faults>>

\* A stage failed, or a check found that the attempt lost the job.
FailRun(w) ==
    LET j == work[w].job
    IN  /\ pc[w] \in Executing
        /\ IF Owned(j, work[w].attempt)
           THEN /\ \E s \in {"queued", "settled"} : status' = [status EXCEPT ![j] = s]
                /\ lease' = [lease EXCEPT ![j] = FALSE]
           ELSE UNCHANGED <<status, lease>>
        /\ Goto(w, "leaving")
        /\ UNCHANGED <<attempt, source, deletion, artifacts, work, failures, faults>>

\* The execution removes its own scratch files ...
RemoveScratch(w) ==
    /\ pc[w] = "leaving"
    /\ scratch' = [scratch EXCEPT ![work[w].job] = @ \ {work[w].attempt}]
    /\ Goto(w, "acking")
    /\ UNCHANGED <<jobVars, deletion, index, files, messages, work, failures, faults>>

\* Mutant: any execution of the job answers for the active one.
StopsAny(j, a) == TRUE

\* Whether the deletion waits for this attempt.
Stops(j, a) == deletion[j].active = a

\* ... and tells a deletion that waits for it.
Acknowledge(w) ==
    LET j == work[w].job
    IN  /\ pc[w] = "acking"
        /\ deletion' = IF status[j] = "deleting" /\ Stops(j, work[w].attempt)
                       THEN [deletion EXCEPT ![j].stopped = TRUE, ![j].next = "past"]
                       ELSE deletion
        /\ Loop(w)
        /\ UNCHANGED <<jobVars, artifacts, failures, faults>>

\* Another worker takes a job whose lease ended from its holder.
Recover(w, j) ==
    /\ pc[w] = "idle"
    /\ status[j] = "processing" /\ ~lease[j]
    /\ \E s \in {"queued", "settled"} : status' = [status EXCEPT ![j] = s]
    /\ UNCHANGED <<attempt, lease, source, deletion, artifacts, pc, work, failures, faults>>

----------------------------------------------------------------------------
(* The gateway and the retention scan *)

\* The execution goes on until a check fails: nothing waits for it any more.
CancelJob(j) ==
    /\ status[j] \in {"queued", "processing"}
    /\ status' = [status EXCEPT ![j] = "settled"]
    /\ attempt' = [attempt EXCEPT ![j] = @ + 1]
    /\ lease' = [lease EXCEPT ![j] = FALSE]
    /\ UNCHANGED <<source, deletion, artifacts, pc, work, failures, faults>>

\* The marker of deleteJob, and of expire_jobs, which writes the same.
MarkDeleting(j) ==
    /\ status[j] \notin {"deleting", "deleted"}
    /\ status' = [status EXCEPT ![j] = "deleting"]
    /\ attempt' = [attempt EXCEPT ![j] = @ + 1]
    /\ lease' = [lease EXCEPT ![j] = FALSE]
    /\ deletion' = [deletion EXCEPT ![j] =
            [NoCleanup EXCEPT !.state = "pending", !.active = attempt[j],
                !.wait = lease[j], !.stopped = (status[j] # "processing")]]
    /\ UNCHANGED <<source, artifacts, pc, work, failures, faults>>

\* deleteJob on a job whose cleanup was given up.
DeleteAgain(j) ==
    /\ status[j] = "deleting" /\ deletion[j].state = "failed"
    /\ deletion' = [deletion EXCEPT ![j].state = "pending", ![j].next = "past", ![j].attempts = 0]
    /\ failures' = [failures EXCEPT ![j] = 0]
    /\ UNCHANGED <<jobVars, artifacts, pc, work, faults>>

----------------------------------------------------------------------------
(* A cleanup pass *)

NextCame(d) == d.next = "past" \/ (d.next = "wait" /\ ~d.wait)

\* Mutant: a pass that died is never repeated.
DuePendingOnly(d) == d.state = "pending" /\ NextCame(d)

Due(d) ==
    \/ d.state = "pending" /\ NextCame(d)
    \/ d.state = "working" /\ ~d.held

\* The pass gives way to an execution that may still run.
TakeUp(w, j) ==
    LET d     == deletion[j]
        tries == OneMore(d.attempts)
    IN  /\ pc[w] = "idle"
        /\ status[j] = "deleting" /\ Due(d)
        /\ deletion' = [deletion EXCEPT ![j] =
                [d EXCEPT !.state = "working", !.token = w, !.held = TRUE, !.attempts = tries]]
        /\ failures' = [failures EXCEPT ![j] = IF d.state = "working" THEN OneMore(@) ELSE @]
        /\ Goto(w, IF d.wait /\ ~d.stopped THEN "wait" ELSE "vector")
        /\ work' = [work EXCEPT ![w] = [job |-> j, attempt |-> 0, tries |-> tries]]
        /\ UNCHANGED <<jobVars, artifacts, faults>>

\* The filter of every write of the pass.
OwnsPass(w) ==
    /\ status[work[w].job] = "deleting"
    /\ deletion[work[w].job].token = w

\* A pass that is over gives the deletion back.
Released(d, state, next) ==
    [d EXCEPT !.state = state, !.next = next, !.token = NoWorker, !.held = FALSE]

Wait(w) ==
    LET j == work[w].job
    IN  /\ pc[w] = "wait"
        /\ deletion' = IF OwnsPass(w)
                       THEN [deletion EXCEPT ![j] = Released(@, "pending", "wait")]
                       ELSE deletion
        /\ Loop(w)
        /\ UNCHANGED <<jobVars, artifacts, failures, faults>>

\* Mutant: the vectors are removed under their writer.
Unlocked(j) == TRUE

\* What delete_vector_store waits for before it removes the directory.
MayErase(j) == LockFree(j)

EraseIndex(w) ==
    /\ pc[w] = "vector"
    /\ MayErase(work[w].job)
    /\ index' = [index EXCEPT ![work[w].job] = {}]
    /\ Goto(w, "scratch")
    /\ UNCHANGED <<jobVars, deletion, scratch, files, messages, work, failures, faults>>

EraseScratch(w) ==
    /\ pc[w] = "scratch"
    /\ scratch' = [scratch EXCEPT ![work[w].job] = {}]
    /\ Goto(w, "media")
    /\ UNCHANGED <<jobVars, deletion, index, files, messages, work, failures, faults>>

\* Mutant: nobody asks for other references.
NeverShared(j) == FALSE

\* Whether another job, being deleted or not, has the same original.  The pass
\* looks for the one it read at its start, also when another pass buried j.
Shared(j) == \E i \in Jobs \ {j} : source[i] = MediaOf[j]

CheckMedia(w) ==
    LET j == work[w].job
    IN  /\ pc[w] = "media"
        /\ Goto(w, IF MediaOf[j] = NoFile \/ Shared(j) THEN "messages" ELSE "unlink")
        /\ UNCHANGED <<jobVars, deletion, artifacts, work, failures, faults>>

EraseMedia(w) ==
    /\ pc[w] = "unlink"
    /\ files' = files \ {MediaOf[work[w].job]}
    /\ Goto(w, "messages")
    /\ UNCHANGED <<jobVars, deletion, index, scratch, messages, work, failures, faults>>

EraseMessages(w) ==
    /\ pc[w] = "messages"
    /\ messages' = [messages EXCEPT ![work[w].job] = {}]
    /\ Goto(w, "tombstone")
    /\ UNCHANGED <<jobVars, deletion, index, scratch, files, work, failures, faults>>

\* The content fields are unset; a minimal document stays.
Bury(w) ==
    LET j == work[w].job
    IN  IF OwnsPass(w)
        THEN /\ status' = [status EXCEPT ![j] = "deleted"]
             /\ attempt' = [attempt EXCEPT ![j] = 0]
             /\ source' = [source EXCEPT ![j] = NoFile]
             /\ deletion' = [deletion EXCEPT ![j] = Buried]
             /\ UNCHANGED lease
        ELSE UNCHANGED <<jobVars, deletion>>

Tombstone(w) ==
    /\ pc[w] = "tombstone"
    /\ Bury(w)
    /\ Loop(w)
    /\ UNCHANGED <<artifacts, failures, faults>>

\* A step of the pass fails, also for the lock that is not free in time.
StepFails(w) ==
    /\ pc[w] \in Erasing
    /\ Fault
    /\ Goto(w, "error")
    /\ UNCHANGED <<jobVars, deletion, artifacts, work, failures>>

\* The tombstone was written, but its answer lost.
TombstoneUnknown(w) ==
    /\ pc[w] = "tombstone"
    /\ Fault
    /\ Bury(w)
    /\ Goto(w, "error")
    /\ UNCHANGED <<artifacts, work, failures>>

Exhausted(tries) == tries >= MaxCleanups

RecordError(w) ==
    LET j == work[w].job
    IN  /\ pc[w] = "error"
        /\ IF OwnsPass(w)
           THEN /\ deletion' = [deletion EXCEPT ![j] =
                        Released(@, IF Exhausted(work[w].tries) THEN "failed" ELSE "pending", "future")]
                /\ failures' = [failures EXCEPT ![j] = OneMore(@)]
           ELSE UNCHANGED <<deletion, failures>>
        /\ Loop(w)
        /\ UNCHANGED <<jobVars, artifacts, faults>>

----------------------------------------------------------------------------
(* Scans, failures and time *)

\* Mutants: the scan does not see that a tombstone dropped its reference; it
\* passes over the scratch files of deleted jobs.
NeverReferenced(f) == \A j \in Jobs : MediaOf[j] # f
AbandonedUnburied(j) == status[j] \in {"queued", "settled"}

Unreferenced(f) == \A j \in Jobs : source[j] # f
Abandoned(j)    == ~(status[j] = "processing" /\ lease[j])

\* reconcile_orphan_media: an original no job refers to.
CollectMedia(w) ==
    /\ pc[w] = "idle"
    /\ \E f \in files : /\ Unreferenced(f)
                        /\ files' = files \ {f}
    /\ UNCHANGED <<jobVars, deletion, index, scratch, messages, pc, work, failures, faults>>

\* reconcile_stale_scratch: files of a day ago whose job no live lease holds.
CollectScratch(w, j) ==
    /\ pc[w] = "idle"
    /\ scratch[j] # {}
    /\ Abandoned(j)
    /\ \E a \in scratch[j] : scratch' = [scratch EXCEPT ![j] = @ \ {a}]
    /\ UNCHANGED <<jobVars, deletion, index, files, messages, pc, work, failures, faults>>

\* The process dies, or a database error ends the pass.
Crash(w) ==
    /\ pc[w] # "idle"
    /\ Fault
    /\ Loop(w)
    /\ UNCHANGED <<jobVars, deletion, artifacts, failures>>

\* The heartbeat did not renew the lease of an execution in time.
LeaseEnds(j) ==
    /\ lease[j]
    /\ lease' = [lease EXCEPT ![j] = FALSE]
    /\ UNCHANGED <<status, attempt, source, deletion, artifacts, pc, work, failures, faults>>

PassAlive(j) ==
    LET w == deletion[j].token
    IN  w # NoWorker /\ work[w].job = j /\ pc[w] \in Erasing \cup {"wait", "error"}

LeaseOver(j) == deletion[j].held /\ deletion' = [deletion EXCEPT ![j].held = FALSE]

\* A date of the deletion record has come.
DateComes(j) ==
    /\ \/ deletion[j].wait /\ deletion' = [deletion EXCEPT ![j].wait = FALSE]
       \/ ~PassAlive(j) /\ LeaseOver(j)
       \/ deletion[j].next = "future" /\ deletion' = [deletion EXCEPT ![j].next = "past"]
    /\ UNCHANGED <<jobVars, artifacts, pc, work, failures, faults>>

\* A pass takes longer than its five minutes: it goes on without its lease.
PassTooSlow(j) ==
    /\ PassAlive(j)
    /\ LeaseOver(j)
    /\ Fault
    /\ UNCHANGED <<jobVars, artifacts, pc, work, failures>>

----------------------------------------------------------------------------

RunStep(w) ==
    \/ Fetch(w) \/ EnterIndex(w) \/ WriteIndex(w)
    \/ Complete(w) \/ FailRun(w)
    \/ RemoveScratch(w) \/ Acknowledge(w)

PassStep(w) ==
    \/ Wait(w)
    \/ EraseIndex(w) \/ EraseScratch(w) \/ CheckMedia(w) \/ EraseMedia(w) \/ EraseMessages(w)
    \/ Tombstone(w) \/ RecordError(w)

Next ==
    \/ \E w \in Workers :
        \/ RunStep(w)
        \/ PassStep(w)
        \/ \E j \in Jobs : Claim(w, j) \/ Recover(w, j) \/ TakeUp(w, j) \/ CollectScratch(w, j)
        \/ CollectMedia(w)
        \/ StepFails(w) \/ TombstoneUnknown(w) \/ Crash(w)
    \/ \E j \in Jobs :
        CancelJob(j) \/ MarkDeleting(j) \/ DeleteAgain(j) \/ LeaseEnds(j) \/ DateComes(j) \/ PassTooSlow(j)

Spec == Init /\ [][Next]_vars

\* Stages end, passes go on, dates come, and a free worker takes up what is due
\* and scans.  Nothing is assumed of the owner.
Fairness ==
    /\ \A w \in Workers : WF_vars(RunStep(w)) /\ WF_vars(PassStep(w))
    /\ \A j \in Jobs :
        /\ WF_vars(DateComes(j))
        /\ SF_vars(\E w \in Workers : TakeUp(w, j))
    /\ SF_vars(\E w \in Workers, j \in Jobs : CollectScratch(w, j))
    /\ SF_vars(\E w \in Workers : CollectMedia(w))

FairSpec == Spec /\ Fairness

----------------------------------------------------------------------------
(* Properties *)

\* Once the tombstone is written the job has no vectors, and no execution that
\* lost the job writes them again: lock and marker together, not each alone.
IndexErased == \A j \in Jobs : status[j] = "deleted" => index[j] = {}

\* However many jobs that share an original are deleted at once, by passes that
\* overtake each other, it exists as long as a job that is kept refers to it.
MediaKept ==
    \A j \in Jobs :
        status[j] \notin {"deleting", "deleted"} /\ source[j] # NoFile => source[j] \in files

\* Nothing is erased while the attempt that held the job when it was marked
\* still executes with its lease: the cleanup waits for it, not for any other.
WaitsForWorker ==
    \A c, w \in Workers :
        (pc[c] \in Erasing /\ pc[w] \in Executing /\ work[c].job = work[w].job)
            => LET d == deletion[work[c].job]
               IN  ~(d.wait /\ d.active = work[w].attempt)

\* The README of the repository: "After eight failed attempts, the job remains
\* deleting with deletion.state: failed".  Not what the code does: a pass that only
\* waits for the worker counts as an attempt too.
GivenUpAfterAll ==
    \A j \in Jobs : deletion[j].state = "failed" => failures[j] >= MaxCleanups

\* A marked job is erased in the end or given up for the owner to see.
EventuallyErased ==
    \A j \in Jobs : status[j] = "deleting" ~> (status[j] = "deleted" \/ deletion[j].state = "failed")

\* What the passes of jobs deleted at once, each of which sees the reference of
\* the other, leave behind is collected: no original outlives its references.
MediaCollected ==
    \A f \in Files : (\A j \in Jobs : source[j] # f) ~> f \notin files

\* Scratch files an execution wrote after the tombstone go too.
ScratchErased == \A j \in Jobs : status[j] = "deleted" ~> scratch[j] = {}

=============================================================================
