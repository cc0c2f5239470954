----------------------------- MODULE Submission -----------------------------
(***************************************************************************)
(* Accepting a job: submitJob of server/src/services/jobSubmission.js,     *)
(* with the usage reservation and the GridFS media it makes on the way,    *)
(* while the same key is submitted again, the job is deleted and erased    *)
(* and the orphan scan runs.  retryJob submits a successor.                *)
(*                                                                         *)
(* All keys are those of one user: the job id is the hash of user and key, *)
(* so a key stands for its job.  What happens to a job once it is accepted *)
(* is JobQueue; here it is queued until it is settled.                     *)
(***************************************************************************)
EXTENDS Integers, FiniteSets

CONSTANTS
    Keys, NoKey,     \* idempotency keys
    Requests,        \* submissions the gateway serves at a time
    NoRequest,
    Uploads, Links,  \* contents: uploaded files and video addresses
    ActiveLimit,     \* activeJobsPerUser
    MaxFiles,        \* bound: originals stored in a behaviour
    MaxSubmits,      \* bound: submissions and retries in a behaviour
    MaxFaults        \* bound: crashes, errors and expired reservations

ASSUME SubmissionAssumption ==
    /\ NoKey \notin Keys /\ NoRequest \notin Requests
    /\ Uploads \cap Links = {}
    /\ ActiveLimit \in Nat \ {0}
    /\ MaxFiles \in Nat /\ MaxSubmits \in Nat /\ MaxFaults \in Nat

VARIABLES
    job,        \* the job documents
    first,      \* the input each job was made for (history)
    accepted,   \* answers 201 for each key (history)
    reserved,   \* keys in activeJobs of the user's ResourceUsage
    lapsed,     \* keys whose reservation expired (history)
    closing,    \* jobs that are settled or deleted, before their finishJob
    request,    \* what each request is doing
    stored,     \* originals stored so far
    files,      \* those that still exist, each with the input it is a copy for
    old,        \* those the orphan scan regards as old enough
    submits,    \* submissions and retries so far
    faults      \* of what MaxFaults bounds, how much so far

media == <<stored, files, old>>
vars == <<job, first, accepted, reserved, lapsed, closing, request, stored, files, old,
          submits, faults>>

----------------------------------------------------------------------------
(* Types *)

\* What the fingerprint is computed from; the name of a file and the language
\* are part of the content.
Input == [content : Uploads \cup Links, retryOf : Keys \cup {NoKey}]
NoInput == [content |-> "none", retryOf |-> NoKey]

NoFile == 0

Document ==
    [status      : {"none", "queued", "settled", "deleting", "deleted"},
     ready       : BOOLEAN,                     \* execution.ready
     fingerprint : Input \cup {NoInput},
     token       : Requests \cup {NoRequest},   \* submission.token
     held        : BOOLEAN,                     \* submission.leaseUntil lies in the future
     file        : 0 .. MaxFiles]               \* sourceArtifact.fileId

NoDocument ==
    [status |-> "none", ready |-> FALSE, fingerprint |-> NoInput,
     token |-> NoRequest, held |-> FALSE, file |-> NoFile]

Idle == [step |-> "idle"]
Request ==
    [step  : {"close", "upsert", "lease", "reserve", "media", "accept", "error", "conflict"},
     key   : Keys, input : Input,
     from  : 0 .. MaxFiles,    \* the original that a retry copies
     file  : 0 .. MaxFiles]    \* the artifact to attach

TypeOK ==
    /\ job \in [Keys -> Document]
    /\ \A k \in Keys : job[k].held => job[k].token # NoRequest
    /\ first \in [Keys -> Input \cup {NoInput}]
    /\ accepted \in [Keys -> 0 .. 2]
    /\ reserved \subseteq Keys /\ lapsed \subseteq Keys /\ closing \subseteq Keys
    /\ request \in [Requests -> Request \cup {Idle}]
    /\ stored \in 0 .. MaxFiles
    /\ \A f \in files : f.id \in 1 .. stored /\ f.input \in Input
    /\ old \subseteq 1 .. stored
    /\ submits \in 0 .. MaxSubmits /\ faults \in 0 .. MaxFaults

----------------------------------------------------------------------------

Init ==
    /\ job = [k \in Keys |-> NoDocument]
    /\ first = [k \in Keys |-> NoInput]
    /\ accepted = [k \in Keys |-> 0]
    /\ reserved = {} /\ lapsed = {} /\ closing = {}
    /\ request = [r \in Requests |-> Idle]
    /\ stored = 0 /\ files = {} /\ old = {}
    /\ submits = 0 /\ faults = 0

Fault ==
    /\ faults < MaxFaults
    /\ faults' = faults + 1

Counted ==
    /\ submits < MaxSubmits
    /\ submits' = submits + 1

Step(r, step) == request' = [request EXCEPT ![r].step = step]
Respond(r)    == request' = [request EXCEPT ![r] = Idle]

Exists(id) == \E f \in files : f.id = id

----------------------------------------------------------------------------
(* submitJob *)

\* createJob: the input is an upload or an address.
Submit(r, k) ==
    /\ request[r] = Idle
    /\ Counted
    /\ \E c \in Uploads \cup Links :
        request' = [request EXCEPT ![r] =
            [step |-> "upsert", key |-> k, input |-> [content |-> c, retryOf |-> NoKey],
             from |-> NoFile, file |-> NoFile]]
    /\ UNCHANGED <<job, first, accepted, reserved, lapsed, closing, media, faults>>

\* Mutant: a job that still runs may be retried.
RetryableRunning(p) ==
    /\ job[p].status = "settled" \/ job[p].ready
    /\ job[p].fingerprint.content \in Uploads => job[p].file # NoFile

Retryable(p) ==
    /\ job[p].status = "settled"
    /\ job[p].fingerprint.content \in Uploads => job[p].file # NoFile

\* retryJob: the input is that of a settled job, whose original must be there.
Retry(r, p, k) ==
    /\ request[r] = Idle
    /\ Counted
    /\ Retryable(p)
    /\ request' = [request EXCEPT ![r] =
            [step |-> "close", key |-> k,
             input |-> [content |-> job[p].fingerprint.content, retryOf |-> p],
             from |-> job[p].file, file |-> NoFile]]
    /\ UNCHANGED <<job, first, accepted, reserved, lapsed, closing, media, faults>>

\* It makes sure that its predecessor holds no reservation.
CloseFirst(r) ==
    /\ request[r] # Idle /\ request[r].step = "close"
    /\ reserved' = reserved \ {request[r].input.retryOf}
    /\ Step(r, "upsert")
    /\ UNCHANGED <<job, first, accepted, lapsed, closing, media, submits, faults>>

SameInput(k, input) == job[k].fingerprint = input

\* The intent is inserted or read, and decides how the request goes on.
Upsert(r) ==
    LET k     == request[r].key
        input == request[r].input
    IN  /\ request[r] # Idle /\ request[r].step = "upsert"
        /\ IF job[k].status = "none"
           THEN /\ job' = [job EXCEPT ![k] =
                        [NoDocument EXCEPT !.status = "queued", !.fingerprint = input]]
                /\ first' = [first EXCEPT ![k] = input]
                /\ Step(r, "lease")
           ELSE /\ UNCHANGED <<job, first>>
                /\ CASE ~SameInput(k, input) -> Step(r, "conflict")
                     [] OTHER -> IF job[k].status \in {"deleting", "deleted"} \/ job[k].ready
                                 THEN Respond(r)
                                 ELSE Step(r, "lease")
        /\ UNCHANGED <<accepted, reserved, lapsed, closing, media, submits, faults>>

\* 409 IDEMPOTENCY_CONFLICT.
AnswerConflict(r) ==
    /\ request[r] # Idle /\ request[r].step = "conflict"
    /\ Respond(r)
    /\ UNCHANGED <<job, first, accepted, reserved, lapsed, closing, media, submits, faults>>

\* One intake at a time; a lease of ten minutes that ended is taken over.
TakeLease(r) ==
    LET k == request[r].key
    IN  /\ request[r] # Idle /\ request[r].step = "lease"
        /\ IF job[k].status = "queued" /\ ~job[k].ready /\ ~job[k].held
           THEN /\ job' = [job EXCEPT ![k].token = r, ![k].held = TRUE]
                /\ request' = [request EXCEPT ![r].step = "reserve", ![r].file = job[k].file]
           ELSE Respond(r) /\ UNCHANGED job
        /\ UNCHANGED <<first, accepted, reserved, lapsed, closing, media, submits, faults>>

\* usage.reserveJob: nothing is charged twice, and the limit may refuse.  The
\* daily budget, which may refuse too, is not kept.
Reserve(r) ==
    LET k == request[r].key
    IN  /\ request[r] # Idle /\ request[r].step = "reserve"
        /\ IF k \in reserved \/ Cardinality(reserved) < ActiveLimit
           THEN /\ reserved' = reserved \cup {k}
                /\ lapsed' = lapsed \ {k}
                /\ Step(r, "media")
           ELSE Step(r, "error") /\ UNCHANGED <<reserved, lapsed>>
        /\ UNCHANGED <<job, first, accepted, closing, media, submits, faults>>

\* An upload is stored, the original of a predecessor copied.
StoreMedia(r) ==
    LET input == request[r].input
    IN  /\ request[r] # Idle /\ request[r].step = "media"
        /\ IF request[r].file # NoFile \/ input.content \in Links
           THEN Step(r, "accept") /\ UNCHANGED <<stored, files>>
           ELSE IF input.retryOf # NoKey /\ ~Exists(request[r].from)
           THEN Step(r, "error") /\ UNCHANGED <<stored, files>>
           ELSE /\ stored < MaxFiles
                /\ stored' = stored + 1
                /\ files' = files \cup {[id |-> stored + 1, input |-> input]}
                /\ request' = [request EXCEPT ![r].step = "accept", ![r].file = stored + 1]
        /\ UNCHANGED <<job, first, accepted, reserved, lapsed, closing, old, submits, faults>>

\* Mutants: the last write does not ask whether the lease still holds, or the
\* token is its own.
OwnedLeaseOver(r, k) ==
    job[k].status = "queued" /\ ~job[k].ready /\ job[k].token = r

OwnedAnyway(r, k) == job[k].status = "queued"

Owned(r, k) ==
    /\ job[k].status = "queued" /\ ~job[k].ready
    /\ job[k].token = r /\ job[k].held

\* The intent becomes a runnable job and gets its original.
MakeReady(r) ==
    LET k == request[r].key
    IN  /\ Owned(r, k)
        /\ job' = [job EXCEPT ![k].ready = TRUE, ![k].file = request[r].file,
                              ![k].token = NoRequest, ![k].held = FALSE]
        /\ accepted' = [accepted EXCEPT ![k] = IF @ < 2 THEN @ + 1 ELSE @]

Accept(r) ==
    /\ request[r] # Idle /\ request[r].step = "accept"
    /\ \/ MakeReady(r) /\ Respond(r)
       \/ ~Owned(r, request[r].key) /\ Step(r, "error") /\ UNCHANGED <<job, accepted>>
    /\ UNCHANGED <<first, reserved, lapsed, closing, media, submits, faults>>

\* The write succeeded, its answer was lost.
AcceptUnknown(r) ==
    /\ request[r] # Idle /\ request[r].step = "accept"
    /\ Fault
    /\ MakeReady(r)
    /\ Step(r, "error")
    /\ UNCHANGED <<first, reserved, lapsed, closing, media, submits>>

\* Mutant: the error handler refunds what may have been accepted.
Refunded(r) == reserved \ {request[r].key}

\* What an error does to the reservations: nothing, as the job may have been
\* accepted, and another intake may be under way.
AfterError(r) == reserved

GiveBack(k) == [job EXCEPT ![k].token = NoRequest, ![k].held = FALSE]

\* The catch block: the lease is given back, if it is still its own.
HandleError(r) ==
    LET k == request[r].key
    IN  /\ request[r] # Idle /\ request[r].step = "error"
        /\ job' = IF job[k].status # "deleted" /\ ~job[k].ready /\ job[k].token = r
                  THEN GiveBack(k) ELSE job
        /\ reserved' = AfterError(r)
        /\ Respond(r)
        /\ UNCHANGED <<first, accepted, lapsed, closing, media, submits, faults>>

\* A call of the intake fails; what it stored stays.
IntakeFails(r) ==
    /\ request[r] # Idle /\ request[r].step \in {"reserve", "media", "accept"}
    /\ Fault
    /\ Step(r, "error")
    /\ UNCHANGED <<job, first, accepted, reserved, lapsed, closing, media, submits>>

----------------------------------------------------------------------------
(* The rest of the system *)

\* An accepted job fails or is cancelled, as one that retryJob takes up must
\* have.  A completed one differs only in that it is not retried.
Settle(k) ==
    /\ job[k].status = "queued" /\ job[k].ready
    /\ job' = [job EXCEPT ![k].status = "settled"]
    /\ closing' = closing \cup {k}
    /\ UNCHANGED <<first, accepted, reserved, lapsed, request, media, submits, faults>>

\* deleteJob takes an intake its lease; its finishJob follows.
DeleteJob(k) ==
    /\ job[k].status \in {"queued", "settled"}
    /\ job' = [job EXCEPT ![k].status = "deleting", ![k].ready = FALSE,
                          ![k].token = NoRequest, ![k].held = FALSE]
    /\ closing' = closing \cup {k}
    /\ UNCHANGED <<first, accepted, reserved, lapsed, request, media, submits, faults>>

FinishJob(k) ==
    /\ k \in closing
    /\ closing' = closing \ {k}
    /\ reserved' = reserved \ {k}
    /\ UNCHANGED <<job, first, accepted, lapsed, request, media, submits, faults>>

\* Two hours after it was made, a reservation no longer counts.
ReservationExpires(k) ==
    /\ k \in reserved
    /\ Fault
    /\ reserved' = reserved \ {k}
    /\ lapsed' = lapsed \cup {k}
    /\ UNCHANGED <<job, first, accepted, closing, request, media, submits>>

\* The cleanup of Deletion, whose steps do not matter here.
EraseJob(k) ==
    /\ job[k].status = "deleting"
    /\ job' = [job EXCEPT ![k] = [NoDocument EXCEPT !.status = "deleted"]]
    /\ files' = {f \in files : f.id # job[k].file}
    /\ UNCHANGED <<first, accepted, reserved, lapsed, closing, request, stored, old, submits, faults>>

\* An hour after it was stored, an original is old.  The lease of the intake
\* that stored it is over by then: it is shorter.
GrowsOld(f) ==
    /\ f \notin old /\ Exists(f)
    /\ \A r \in Requests :
        request[r] # Idle /\ request[r].file = f
            => ~(job[request[r].key].token = r /\ job[request[r].key].held)
    /\ old' = old \cup {f}
    /\ UNCHANGED <<job, first, accepted, reserved, lapsed, closing, request, stored, files, submits, faults>>

\* reconcileOrphanJobUploads and its twin in the worker.
CollectOrphan(f) ==
    /\ f \in old /\ Exists(f)
    /\ \A k \in Keys : job[k].file # f
    /\ files' = {g \in files : g.id # f}
    /\ UNCHANGED <<job, first, accepted, reserved, lapsed, closing, request, stored, old, submits, faults>>

LeaseEnds(k) ==
    /\ job[k].held
    /\ job' = [job EXCEPT ![k].held = FALSE]
    /\ UNCHANGED <<first, accepted, reserved, lapsed, closing, request, media, submits, faults>>

\* The gateway stops; the documents stay.
Crash ==
    /\ Fault
    /\ \E r \in Requests : request[r] # Idle
    /\ request' = [r \in Requests |-> Idle]
    /\ UNCHANGED <<job, first, accepted, reserved, lapsed, closing, media, submits>>

----------------------------------------------------------------------------

Intake(r) ==
    \/ CloseFirst(r) \/ Upsert(r) \/ AnswerConflict(r) \/ TakeLease(r)
    \/ Reserve(r) \/ StoreMedia(r) \/ Accept(r) \/ HandleError(r)

Next ==
    \/ \E r \in Requests :
        \/ \E k \in Keys : Submit(r, k)
        \/ \E k, p \in Keys : Retry(r, p, k)
        \/ Intake(r) \/ AcceptUnknown(r) \/ IntakeFails(r)
    \/ \E k \in Keys : Settle(k) \/ DeleteJob(k) \/ FinishJob(k) \/ EraseJob(k)
                     \/ LeaseEnds(k) \/ ReservationExpires(k)
    \/ \E f \in 1 .. stored : GrowsOld(f) \/ CollectOrphan(f)
    \/ Crash

Spec == Init /\ [][Next]_vars

----------------------------------------------------------------------------
(* Properties *)

\* However often a key is submitted, at once or after lost answers, and however
\* its intakes overtake each other, one of them makes it a job.
AcceptedOnce == \A k \in Keys : accepted[k] <= 1

\* An accepted job that is not settled holds its reservation until that expires,
\* whatever other intakes of its key did, failed to do or undid.
AcceptedIsReserved ==
    \A k \in Keys :
        job[k].status = "queued" /\ job[k].ready => k \in reserved \cup lapsed

\* An accepted job of a file has an original, made from its own input, which no
\* scan collected between its storing and its attachment.
AcceptedHasMedia ==
    \A k \in Keys :
        job[k].ready /\ first[k].content \in Uploads
            => [id |-> job[k].file, input |-> first[k]] \in files

\* What JobIntake knows of a job.
PhaseOf(k) ==
    IF job[k].status # "queued" THEN job[k].status
    ELSE IF job[k].ready THEN "running" ELSE "open"

ReservationOf(k) ==
    IF k \in reserved THEN "held" ELSE IF k \in lapsed THEN "expired" ELSE "none"

HasOriginal(k) ==
    /\ job[k].fingerprint.content \in Uploads
    /\ [id |-> job[k].file, input |-> job[k].fingerprint] \in files

\* The owner sees the contract of JobIntake: phases only go forward, the input is
\* that of the first submission, a job that may run keeps its reservation, an
\* original stays until its job is erased, and the limit holds.
Contract == INSTANCE JobIntake WITH
    Inputs      <- Input,
    FileInputs  <- {i \in Input : i.content \in Uploads},
    Limit       <- ActiveLimit,
    phase       <- [k \in Keys |-> PhaseOf(k)],
    input       <- [k \in Keys |-> job[k].fingerprint],
    reservation <- [k \in Keys |-> ReservationOf(k)],
    originals   <- {k \in Keys : HasOriginal(k)}

ImplementsIntake == Contract!Spec

\* The reservations that Submission makes are those of UserBudget, which Admission
\* implements in detail: an intake may rely on no other reservations than these.
Budget == INSTANCE UserBudget WITH
    Users <- {"owner"},
    Jobs  <- Keys,
    Limit <- ActiveLimit,
    live  <- [u \in {"owner"} |-> reserved]

ImplementsBudget == Budget!Spec

=============================================================================
