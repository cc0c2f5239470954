# AI Video Assistant: specification

TLA+ models of the job system of AI Video Assistant, the TLC configurations that
check them on small instances, and proofs that hold for every instance.
`PROJECT.json` lists the components, the runs, which lines every definition
stands for, the hazards found in the code, and the theorems.

The program takes a video (an upload or an address), transcribes it, summarises
it, indexes the transcript, and answers questions about it. What is hard in it is
not what a stage computes. It is that the gateway and several workers change one
MongoDB document per job in separate calls, with leases instead of locks, retries
instead of transactions, and crashes between any two of them.

## 1. Inventory

| Component | Code | State it keeps | Operations | Correct when |
|---|---|---|---|---|
| Job queue and worker | `ai-service/worker.py`, `pipeline.py`, `core/vector_store.py`, `utils/job_lock.py` | the job document (`status`, `percent`, `execution.*`, `progressVersion`, `indexAttempt`), vector collections on disk, each worker's loop | claim, heartbeat, report, build the index, publish, fail, recover expired leases, expire | no two executions of an attempt; a lost attempt writes nothing; attempts are bounded and never lost; the published index is whole; every job settles |
| Gateway job API | `server/src/controllers/videoController.js`, `models/Job.js` | none of its own: it writes the job document and calls `usage` | create, retry, cancel, delete, ask, list, receive progress | each handler is several database calls; any prefix of them must leave a state another call or process repairs |
| Submission | `services/jobSubmission.js` | `execution.ready`, `submission.{fingerprint,token,leaseUntil}` | upsert the intent, lease it, reserve, store media, make it runnable, give the lease back | one job per key, with its reservation and its own original, whatever is repeated or lost |
| Usage budget | `services/usageService.js`, `models/ResourceUsage.js` | active reservations, seconds and questions of the day | reserve, finish, reserve a question | nothing is charged or refunded twice; the limits hold; a refund only touches its own day |
| Job media | `services/jobMedia.js`, `utils/deletion.py` | GridFS originals | store, copy, delete, collect orphans | an original lives as long as a kept job refers to it and not longer |
| Callback outbox | `utils/callback_delivery.py`, `utils/internal_security.py`, `receiveProgress` | `delivery.*`, `callbackAck` | announce, take up, send, settle, block, retry blocked | a settled job is refunded; a late answer never settles a newer version |
| Deletion and retention | `utils/deletion.py` | `deletion.*`, scratch files, tombstones | mark, wait for the worker, erase in four places, bury, retry, give up, scan | nothing of a deleted job remains; what other jobs share stays |
| Chat | `askQuestion`, `listChat`, `migrateLegacyChat`, `models/ChatMessage.js` | `chatSequence`, messages, embedded legacy messages | ask, list, migrate | one order of messages; none lost in the migration; none left after deletion |
| Upload intake | `middleware/upload.js` | upload slots, temporary files | admit, parse, abort, hand over, release | slots are released exactly once on every path |
| Admission limits | `middleware/rateLimit.js`, `utils/request_limits.py`, `main.py` | counters of a window by user, processing slots | admit, refuse, evict, release | no window lets more than its limit through, also when entries are dropped to make room |
| Sessions | `authController.js`, `middleware/auth.js`, `config/socket.js`, `models/RefreshSession.js`; `client/src/context/AuthContext.jsx`, `lib/api.js`, `lib/socket.js` | refresh sessions, the tab's cookie, token, user and socket, calls under way | register, log in, bootstrap, refresh, retry a call, log out, connect | user, token and connection are of one account; who signed out is not signed in by a late answer |
| Client views | `client/src/pages/Dashboard.jsx`, `JobDetail.jsx`; `listJobs`, `getJob` | jobs shown, cursor, requests under way | load, poll, page, push, merge, cancel, retry, delete, leave | an older version never replaces a newer one; the view converges to the jobs as they are |
| AI stages, validation, user interface, tooling | see `PROJECT.json` | none that matters here | | not modelled |

How they interact:

- The gateway and the workers share MongoDB and nothing else. The worker polls it;
  the gateway never calls the worker to run a job.
- The worker tells the gateway that a job changed through the outbox: every
  write that publishes a version also leaves a pending notification in the same
  document; a relay thread posts it to `receiveProgress`, which releases the
  reservation, records the acknowledgement and pushes the job to the browser.
- Deletion is a marker the gateway (or the retention scan) writes and a cleanup
  the workers perform, beside executions that may not know yet that they lost
  the job.
- Chat asks the AI service over HTTP and writes the answer afterwards.
- A request that submits or asks passes the limiter in the gateway's memory and
  then the user's `ResourceUsage` document; callbacks and deletions give back.
- The client polls and listens at the same time: answers of `listJobs` and
  `getJob` and `job:update` events meet in the pages and are merged under the
  job's `progressVersion`. All calls share one access token and one refresh.

What makes it hard, all of it in the models: leases that run out under a worker
that goes on; a "now" captured once and used later; reads followed by guarded
writes; two or more writes that are not one transaction; calls whose effect
happened but whose answer was lost; processes that die at any point; files
shared between jobs; scans that collect what nobody refers to.

## 2. Modules

| Module | What it is | Extends or instantiates |
|---|---|---|
| `JobLifecycle` | abstract contract of one job: what its owner may observe | |
| `PublishedJob` | what the views rely on: the changes a job may be shown to make | |
| `JobQueue` | worker loop, pipeline, lease recovery, gateway writes | `JobLifecycle` by refinement, `PublishedJob` |
| `CallbackDelivery` | relays and `receiveProgress` around a job of `JobLifecycle` | `JobLifecycle` as environment |
| `Deletion` | marker, cleanup passes, executions that write artifacts, scans | |
| `Chat` | questions and the migration beside a deletion | `Deletion` |
| `JobIntake` | abstract contract of submitting: what the owner may observe of his keys | |
| `UserBudget` | abstract contract of the usage document: the places of a user's active jobs | |
| `Submission` | intake, retry, reservation and media beside deletion and the scan | `JobIntake` and `UserBudget` by refinement |
| `UploadIntake` | upload slots and temporary files between arrival and the end of `createJob` | |
| `Admission` | rate limiter and usage document | `UserBudget` by refinement |
| `ClientSession` | a tab, its calls and the gateway's refresh sessions | |
| `LiveView` | what the two views share: requests under way, events, the socket | |
| `JobList` | the dashboard's list with `listJobs` and pushed updates | `LiveView` |
| `JobPage` | the page of one job with `getJob`, its buttons and pushed updates | `LiveView`, `PublishedJob` |
| `JobQueueProofs`, `CallbackDeliveryProofs`, `SubmissionProofs`, `UploadIntakeProofs`, `AdmissionProofs`, `ClientSessionProofs` | theorems about each | the module, `TLAPS` |
| `DeletionProofs` | theorems about `Deletion`, and about `Chat` composed with it | `Chat`, `TLAPS` |
| `LiveViewProofs` | theorems about the list and the page | `JobList`, `JobPage`, `TLAPS` |
| `MC*` | small instances of each | |

### JobQueue

A worker's `pc` follows `run()`: `top` (takes "now"), `sweep` (retention),
`recover` (the cursor of `recover_expired`, in `snap`), then `run`, `indexing`,
`indexed` and `failing` for a claimed job, and `down`. `task` is the claimed
document as `process_one` keeps it: all its later guards use the attempt and the
counter of that copy. The guard `_owned` is `Owned`. The heartbeat thread is an
action of its own (`Heartbeat`) which may or may not run, so every delay of it is
included. Dates are distances from the present and `Tick` moves them; `age` is
how old the "now" of a pass is, which is why a claim's lease is `LeaseTicks - age`
and recovery compares with `-age`. An attempt identifier is random in the code;
here it is the version that introduced it, which no other write of the job has.
The pipeline's ten percentages are stage numbers.

### CallbackDelivery

The job is `JobLifecycle`, the contract `JobQueue` is shown to implement, so a
fact checked here holds for every queue that refines it. `delivery` has the
state, the attempts, the token and whether the lease (or `nextAt`) lies in the
future. A relay takes a notification up, sends it, and settles it only if its
token still stands (`OwnsDelivery`) for the version it sent (`Ended`).
`receiveProgress` is `ReadJob`, `Refund`, `StoreAck`, `Answer`, each a step of
its own with a crash or an error possible in between, and requests outlive the
relay that sent them. A lease is longer than the time limit of the call it covers
(60 and 15 seconds, `callback_delivery.py:16`, `internal_security.py:61`), so
`Elapse` moves the dates of deliveries nobody works on, and `LeaseEnds`, under a
relay that is slow all the same, counts as a fault.

### Deletion and Chat

`Deletion` keeps of an execution only what a deletion cares about: who owns the
job, whether its lease holds, which vectors and scratch files it has written.
A cleanup pass is `TakeUp`, then `Wait` or the erasures in the order of
`cleanup_one` (`EraseIndex`, `EraseScratch`, `CheckMedia` and `EraseMedia`,
`EraseMessages`, `Tombstone`), any of which may fail or be cut off by a crash.
`delete_media` looks for another reference and deletes in two calls, which is
why they are two actions. `CollectMedia` and `CollectScratch` are the hourly
scans. A job begins queued, completed, or as the tombstone an earlier deletion left
(`Buried`). `failures` counts, beside the code's own counter of attempts, the passes
that really failed or lost their lease. `Chat` adds the requests of `askQuestion` and
`listChat`, which first move embedded messages (`InsertLegacy`, `UnsetLegacy`), then take a number and
then create the message, each in a call of its own.

### Submission

A key stands for its job, as the job's id is the hash of user and key. A request
goes through `Upsert`, `TakeLease`, `Reserve`, `StoreMedia`, `Accept`, and on any
error through `HandleError`; a retry starts with `CloseFirst`, the release of
its predecessor's reservation. `AcceptUnknown` is a last write whose answer is
lost. Beside it: jobs that settle, `deleteJob` and its later `FinishJob`, the
erasure, the orphan scan and reservations that expire. `GrowsOld` has a guard
on time: an original is collected an hour after it was stored at the earliest,
and the lease of the intake that stored it is over after ten minutes, so the file
of an intake that still holds its lease is not old.

`JobIntake` says what all this amounts to, without requests, leases, tokens, lost
answers and scans: a key's job is opened with one input, gets a reservation while
there is room, becomes runnable at most once and only with its reservation and its
file, keeps both until it has settled or is deleted (a reservation may expire), and
loses the file only by its own erasure. `PhaseOf`, `ReservationOf` and `HasOriginal`
read these from the document, the user's reservations and the files.

### UploadIntake

A request goes through `Arrive`, `MakeDirectory`, the parser (`StartWrite`,
`BodyEnds`, `WriteEnds`, `ParserFails`) and `ParserCallsBack`, which ends it or
hands it to the controller in the same turn of the event loop. `Disconnect` fires
`aborted` (if the body was not read to its end) and the response's `close`, whose
listeners call the shared cleanup; `RemoveUpload` is that cleanup after the write
it waits for. A turn of the event loop is one action, an `await` ends it.
The parser (multer) is a library; the model knows of it how it is used.

### Admission

A request passes the limiter (`Arrive`: the fixed window of its user, an entry
dropped when the table is full), reads the clock (`ReadClock`), and sends one
conditional update (`ReserveJob`, `ReserveQuestion`), which MongoDB may apply
after the clock has moved on, past midnight too. `FinishJob` may come at any time
and any number of times. Time is a number of ticks, a day has `DayLength` of them.
What was admitted on which day is kept beside the document as history, and the
properties compare the two: `admitted` and `charges` for the budget, `served` for
the limiter (each request let through, with the end of the window it was counted
in), and `lapsed` once a reservation outlived its lease, also one that was
applied only after its lease had ended.

`UserBudget` is what other modules may rely on: a job takes a place while fewer than
the limit are taken, and loses it by release or by time. The places of `Admission` are
the jobs with a reservation whose lease holds now (`LiveJobs`), whatever clock
the update that made it was sent with; those of `Submission` are its set `reserved`.

### ClientSession

The tab has a slot per call under way and one for the refresh all calls share.
`Handle` is what the gateway does with a call (`login`, `refresh`, `logout`,
`requireAuth`), in the database calls it makes; `Receive` is what the tab does with
the answer, whole: the interceptor's single retry after a 401, `bootstrap`, and the
provider's state with the socket it opens or closes. A call carries the cookie
and the token of the moment it left. `LoseCall` loses it before or after it was
handled, `Reload` forgets the tab's memory but neither cookie nor session storage.
`stray` remembers that the user acted while calls were under way, which the
properties exempt, because the client does not order them (see section 6).

### JobList and JobPage

`LiveView` is their common part: the documents, events on their way (a set, so any
order), and the requests under way, whose answers may come in any order. `JobPage`
prefixes the names it would share with `JobList` (`PageInit`, `PageReceive`).
`JobList` has the page of `listJobs` with its cursor, the numbering of first-page
requests by which the page ignores overtaken answers, older pages, the Retry button
and the merge of `Dashboard.jsx`. An entry of the list is a version, which stands for
all that is written with a new one, and beside it the state of the cleanup
(`deletion.state`, of which the list shows whether it failed): `GiveUp` and
`DeleteAgain` change it without a new version. `JobPage` takes the changes its job may make
elsewhere from `PublishedJob`, which `JobQueue` is proved to keep to
(`PublishedInSteps`); it has the fetches on open and on the interval, the three
buttons, navigation, and the follow-up request for results. The socket may be
replaced while the page is open (a refreshed token); the page listens to the one
there was when it opened.

## 3. Runs

All bounds are CONSTANTS in the `.cfg`; those that only bound (`Max...` marked
"bound" in the modules) appear in a guard.

| Run | Instance | What it shows |
|---|---|---|
| `queue` | 1 job, 2 workers, 2 attempts, lease of 2 ticks, "now" up to 1 tick old, 2 faults, `FairSpec` | `ExclusiveAttempt`, `CurrentProgress`, `RetryLeft`, `IndexIntact`, `EverySettles`, and that `JobQueue` implements `JobLifecycle` |
| `callback` | 1 job of 3 versions, 2 relays, 2 requests, 2 deliveries before blocking, 1 fault, `FairSpec` | `RefundOwed`, `DeliveredIsAcked`, `EventuallyRefunded` |
| `deletion` | 2 jobs with one original, 2 workers, 2 executions of a job, 2 cleanup attempts, 2 faults, `MCSpec` | `IndexErased`, `WaitsForWorker`, `MediaKept`, `EventuallyErased`, `ScratchErased`, `MediaCollected` |
| `given_up` | 1 job executed once, 2 workers, 3 cleanup attempts, 2 faults, `FairSpec` | a finding of section 6: violates `GivenUpAfterAll` |
| `chat` | 1 job with embedded messages, 3 requests, 3 questions, 1 fault | `SequenceUnique`, `LegacyKept` |
| `submission` | 2 keys, 2 requests, 3 submissions or retries, limit of 1 active job, 1 fault | `AcceptedOnce`, `AcceptedIsReserved`, `AcceptedHasMedia`, and that `Submission` implements `JobIntake` |
| `upload` | 3 requests of 3 users, 2 slots, 1 fault | `SlotsExact`, `OwnedFileKept`, `EveryUploadEnds` |
| `admission` | 2 users with 2 jobs each, 2 requests, 3 ticks of 2-tick days, leases of 2, a limiter with room for 1 user, 1 restart | `DailyLimits`, `ChargedExactly`, `ActiveWithinLimit`, `LimiterHolds`, and that `Admission` implements `UserBudget` |
| `session` | 2 accounts, 2 calls and a refresh, 2 sessions, 1 expiry, 1 reload, 1 fault, `FairSpec` | `OneIdentity`, `SignedOutStays`, `SessionKept`, `EveryCallEnds` |
| `list` | 2 jobs, one of them new, pages of 1, 2 requests, 2 changes, 2 events, 1 failed request or cleanup, `FairSpec` | `ListedOnce`, `NeverBack`, `ListConverges` |
| `page` | 1 job, 2 requests, 1 report, 1 event, 1 failure, `PageFairSpec` | `PageNeverBack`, `ResultsFollow`, `ErasedIsLeft` |
| `chat_erased` | 1 job, 1 request, 2 questions | a finding of section 6: violates `MessagesErased` |

Why the instances are large enough. Jobs do not interact in the queue except
through the order of claims, so one job with two workers has every takeover;
two attempts are a stale one and its successor, and faults, failures and
takeovers end the first in every way there is. Two relays and two requests are what an answer
that arrives late for another's notification takes, and three versions let a
newer one appear twice under it. A deletion needs the worker that is waited
for and another that cleans up, and a second pass that overtakes the first;
two jobs suffice for a shared original. `MCSpec` is `FairSpec` from two beginnings (`MCInit`):
a job that waits or was executed beside the tombstone of the other, which has the
executions, and two completed jobs, whose cleanups meet at their original. Three
attempts in `given_up` are one that waits and two for the two faults. In `submission` a
second key is needed
for a retry and for the limit, a second request to take a lease over. The
original of a retry is a copy, so two files are the original and its copy, or
two competing copies of one upload. In `upload` a third request meets both
limits, that of the slots and that of the user, and lets a user come back while
the events of the first upload are still to come. In `admission` a second user
is what evicts the first from a full limiter, three ticks have one midnight
and one expiry on either side of it, and a budget of three seconds against a
charge of two makes both the limit and the refund of a difference matter. In
`session` two accounts and two calls let a login overtake a logout or another
login while the refresh is under way. In `list` pages of one job make the second
job move the first to an older page, and two requests are an overtaken answer;
two changes are a version and a deletion, whose cleanup the one fault gives up. In
`page` two requests and an event are an answer, a button and a push in any order.
The inductive invariants of section 5 show for the safety properties proved there
that no larger instance behaves differently.

Symmetry is used in the safety runs over processes, users and keys, which no
definition distinguishes, and never in a run with a temporal liveness property.
Runs switch deadlock checking off where an idle system may stop: when every request
is answered, no bounded event is left and nothing is due.

Each property is checked against a mutant: a definition whose comment begins
with "Mutant" is a plausible bug of the code (a forgotten condition of a query,
an off-by-one, a write too early) under which the property must fail.

`TypeOK` is in no run: it is proved of every module that states it, as the first
conjunct of the inductive invariant or, in `Admission`, `JobList` and `JobPage`, from it.

## 4. Fairness

- `JobQueue!FairSpec`: the clock advances; each worker's loop and pipeline go
  on (it catches database errors) and a worker that died is started again. The
  last is an assumption about the deployment: the image of the AI service starts
  a worker beside the API and does not start it a second time, so it is the
  operator or the platform that restarts the service. A stage ends or fails
  because the calls of the providers have time limits. Nothing is assumed of the heartbeat, so
  `EverySettles` does not rest on it, nor of gateway and faults. Faults are
  finitely many per behaviour.
- `CallbackDelivery!FairSpec`: relays end what they have taken up, requests are
  served, dates come. A relay that has something to send gets a request, and what is
  due is taken up: both strong, since either waits its turn (`deliver_one` takes
  the notification with the oldest date first). Were leases free to end under a working relay, two relays could take a
  notification from each other for ever; that is why it counts as a fault.
- `Deletion!FairSpec`: executions and passes go on, dates come; a free worker
  takes up what is due and scans. These are strong fairness, as a worker that is
  busy now and then cannot act although it returns to its loop again and again. The
  scan of scratch files is one action for all jobs, of which each pass removes some.
- `ClientSession!FairSpec`: the gateway handles a call that reaches it and the tab's
  event loop runs; a call that never arrives is lost (`LoseCall`).
- `JobList!FairSpec`: requests are answered, events arrive, the ten-second timer
  runs, and again and again the answer of the newest first-page request comes
  before the next one is sent. Without the last a server slower than the timer
  would have every answer ignored, and the list would not change.
- `PageFairSpec` of `JobPage`: requests are answered, events arrive, the interval runs.

Nothing is assumed of owners and operators anywhere.

The liveness theorems of section 5 assume the same fairness with the guard of each
action written out where WF and SF say `ENABLED` (`WorkersGo`, `TimePasses`, `GoesOn`, `AllServed`, `Attended`,
`WorkersAttended`, `CallsServed`, `RelaysAttended`, `JobsCalled`, `MediaScanned`): what is due is done. As the guard implies
that the step is possible, which TLC confirmed of the instances above, each
`FairSpec` implies them.

`EveryUploadEnds` needs no fairness in its statement: a request takes only
finitely many steps (`UploadsComeToEnd`), so it ends if some step is possible until
it has ended, which the invariant says with `ENABLED`. That a client which neither sends nor
leaves is disconnected is the `requestTimeout` of `server/src/index.js:45`.

## 5. Proofs

Eight modules prove, for all values of the constants the named assumptions allow
(that they are numbers, at least one where the code needs one, and that
the "none" values differ from the real ones). One theorem, `JobsSettle`, also needs
`Moderate`: that no number is above a billion.

| Module | Inductive invariant | Theorems |
|---|---|---|
| `JobQueueProofs` | `QueueInv` | `TypeCorrect`, `InvCorrect`, `AttemptsExclusive`, `ProgressCurrent`, `RetriesBounded`, `IndexWhole`, `LifecycleImplemented`, `ViewsMayMerge` |
| | `LiveInv` | `JobsSettle` |
| `CallbackDeliveryProofs` | `OutboxInv` | `OutboxInvariant`, `RefundsOwed`, `DeliveriesAcked` |
| | `RefundInv` | `RefundedInTheEnd` |
| `DeletionProofs` | `DeletionInv` | `DeletionInvariant`, `NoVectorsAfterTombstone`, `KeptMediaStays`, `CleanupWaits`, `GivenUpOneShort` |
| | `EraseInv` | `ErasedInTheEnd`, `MediaCollectedInTheEnd` |
| | `ChatInv` | `ChatInvariant`, `ChatTypes`, `NumbersUnique`, `LegacyMessagesKept`, `DeletionWithChat` |
| `SubmissionProofs` | `SubmissionInv` | `SubmissionInvariant`, `KeyAcceptedOnce`, `ReservationKept`, `OriginalKept`, `IntakeImplemented`, `SubmissionBudget` |
| `UploadIntakeProofs` | `IntakeInv` | `IntakeInvariant`, `SlotsCounted`, `FileKept` |
| | `EndsInv` | `UploadsGoOn`, `UploadsComeToEnd`, `UploadsEnd` |
| `AdmissionProofs` | `BudgetInv` | `BudgetInvariant`, `DailyLimitsHold`, `ActiveLimitHolds`, `BudgetImplemented` |
| | `ChargedInv` | `ChargedInvariant`, `ChargesExact` |
| | `WindowInv` | `WindowInvariant`, `LimiterKept` |
| | `CoveredInv` | `ChargesCoverRefunds`, `AdmissionTypes` |
| `ClientSessionProofs` | `SessionInv` | `SessionInvariant`, `IdentityIsOne`, `StaysSignedOut`, `KeepsSession` |
| | `EndsInv` | `CallsEnd` |
| `LiveViewProofs` | `ListInv` | `ListInvariant`, `ShownOnce`, `ListNeverBack`, `ListTypes` |
| | `PageInv` | `PageInvariant`, `PageGoesForward`, `PageTypes` |

None of the properties is inductive; what each invariant adds is the argument
why the code is right.

- `QueueInv`: `AttemptsIssued` (an identifier that anybody holds was introduced by
  a version that exists, so the next one is fresh), `CountersExact` (the copy of the
  counter that `process_one` or the cursor of `recover_expired` works with is
  exact while the attempt it was read under is current, which is what the guard
  of the write tests), and `IndexPublished` (a worker past its index has written
  it; the only worker that may still hold a published attempt is one that never
  learnt of it and is in its failure handler). `LifecycleImplemented` is
  `Spec => Lifecycle!Spec`: every step of the queue is a step of `JobLifecycle` or
  leaves what the owner sees unchanged. From it follows `ViewsMayMerge`: what a version
  says of a job never changes, and the next one is a change `JobPage` and `JobList`
  expect, so the assumption under which the views are checked is one the queue keeps.
  The state of a cleanup is no part of a version, and both views have it beside.
- `OutboxInv`: a relay whose token stands carries the version and the result of
  the document (`RelaySound`), a request that has passed its check carries a version
  that exists and, once settled, finds the reservation released (`CallSound`),
  and a settled job has its notification (`JobSound`).
- `DeletionInv`: `WorkerSound` says what a worker's place implies for its job (a
  pass is of a marked job; one past the vectors left none and nobody
  can open them, since entering the lock tests the marker; one about to delete an
  original saw no other reference, and references are only ever dropped; a pass
  that erases need not wait any more; no two executions have one attempt), and
  `JobSound` who may still work on a job, with `TriesCounted`, which
  relates the attempts of a cleanup to its failures: they differ by the pass
  under way and by one that waited. From it follows how far the code is from the
  documented rule that `given_up` finds violated: `GivenUpOneShort`, one failure.
- `ChatInv`: a number that was taken is not stored and belongs to one request; all
  stored numbers are below the counter; a request that is to drop the embedded
  messages has moved them, or the job is marked. `DeletionWithChat` composes:
  the chat's steps change only messages, of which `DeletionInv` says nothing.
- `SubmissionInv`: a request that can still make a job runnable has its token
  in a document nobody else accepted, its reservation and an original of its own
  that is too young to be collected. `IntakeImplemented` is
  `Spec => Contract!Spec`: with `LapsedApart` (what expired is no longer counted) every
  step changes at most one key, and that one as a step of `JobIntake` may. Upserts of a
  known key, leases, copies and collected files change nothing the owner sees.
- `IntakeInv`: what each request's step says of its slot, its directory and the
  cleanup all listeners share. `EndsInv` adds why none of them waits for ever: the parser
  that will get no more of the body has been told so, and a request that waits for
  the cleanup has one that runs. With it `UploadsGoOn` names, for every request that has
  not ended, a step whose guard holds, and `Rank` counts what it may still do.
- `BudgetInv`: every reservation counted was admitted and is charged to its day,
  and what a day has beyond the document's own charges needs a request that
  overtook midnight. `ChargedInv` adds that the document lists exactly the
  reservations that are open, and that its counts are the charges of its day and cover
  what the open reservations may still give back. `WindowInv` spaces the requests
  let through into windows: two of different windows are a window apart, and the
  bucket in memory is the last one or was evicted. `CoveredInv` needs none of the
  conditions of `ChargesExact`: a day was charged in full for each reservation of it
  that is open, so `finishJob` never gives back what was not charged, even after a
  refund of an overtaken midnight. `BudgetImplemented` maps a
  conditional update to a step of `UserBudget`: an update whose clock is behind counts
  at least the jobs whose lease still holds, so what it admits is within the limit
  now, and an entry it replaces had no live lease.
- `SessionInv`: which cookie each call carries (`CallSound`, `SessionInOrder`), which
  calls can be under way together (`BootAlone`, `LoginSound`, `CallsInOrder`), and
  what a sign-out leaves behind (`LeftForGood`): until its logout is answered it is
  alone, and then the session of every cookie, the browser's and a late refresh's,
  is dead.
- `ListInv`, `PageInv`: all that is shown, under way or pushed is what the document
  once said and no newer than it; the list's entries are of distinct jobs, and what
  an answer brings is merged only if no newer first page was asked for. They rest on
  lemmas about the code's operators: what merging, cutting a page and patching an
  entry keep.

The liveness theorems follow one pattern. The invariant is strengthened by what keeps
a wait from being for ever; a wait is cut into stages, and of each one it is shown
which step is due in it, that this step ends it, and that no other step of anybody
leads back. Ranks count the stages. The provers do not do induction over numbers
in temporal formulas, so a rank has a known bound and the descent is doubled
until it is passed: if one step down always comes, then two, four, and so on.

- `JobsSettle` (`LiveInv`): claims come to an end, for each one starts an attempt,
  attempts only go up, and they are bounded for each job, of which there are finitely
  many. Once nothing is claimed and nothing fails any more, a worker has
  only finitely many steps left (`WorkerLeft`) until it is at the top of its loop; so a
  worker that holds the job gives it up. The lease of a job whose worker died, and the
  date of one that was put off, come nearer with `Tick`, as only a holder renews a lease.
  A worker that comes by afterwards cannot end its pass without recovering or
  claiming that job or another one, and no claims are left. `LiveInv` adds what this
  counts: a snapshot of `recover_expired` is finite, a date set is at most one delay away,
  a job that is executed has a lease that ends. `Moderate` is there because the number that
  the descent is doubled to must be written down: job numbers, stages, attempts, leases and
  delays are at most a billion. The code has 10 stages, a few attempts and leases
  and delays of seconds to minutes.
- `CallsEnd` (`EndsInv` of the session): a call that waits for the refresh waits for one that is
  under way, and a retry is not retried; so login, logout, refresh and the two tries
  of a call end, whatever is refused or lost, if the tab is not reloaded for ever.
- `UploadsEnd`: `UploadsGoOn` and `UploadsComeToEnd` put together: `Rank` is at most
  55 and falls with every step of the request.
- `ErasedInTheEnd` (`EraseInv`): failures stop, as `MaxFaults` bounds them; from then
  on a worker is free again and again, for a pass, a scan and an execution only
  have finitely many steps; a lock comes free because its holder goes on; and a
  job that is due at an idle worker is taken up, though others are too. After the last
  failure a pass can only succeed or give the job up.
- `MediaCollectedInTheEnd`: no reference comes back to a file without one, so the next
  scan of a free worker finds it. This one needs no bound on failures.
- `RefundedInTheEnd` (`RefundInv`): where a notification is (with a date to come, due, sent,
  handled, answered) and which version the relay carries give a rank of at most 14.
  A relay becomes idle again and again and a place for a request comes free, which is
  what makes strong fairness enough with any number of jobs in the queue.

A proof has one step per action; actions that write the same things share a lemma
(`FenceStep` for cancel, delete and expire, `RecordStep` for all that write a
deletion record, `MoveStep` for a worker that only goes on).

Every safety property, action property and refinement that a run checks is proved, but
for `EveryUploadEnds`, of which only the last step is missing: `UploadsGoOn` is the same
statement with the guards of the actions written out, and that a guard is what `ENABLED`
says is left to TLC, since TLAPS does not reason about `ENABLED`. Also proved is the
liveness of jobs, calls, uploads, deletions, media and refunds, from fairness in the form of
section 4. Only model-checked are

- `ListConverges`, `ResultsFollow` and `ErasedIsLeft`, where the number of events
  and answers under way has no bound;
- `ScratchErased`: how many scratch directories there are is only bounded by how often
  a job was executed, and each is removed in its turn.

## 6. Findings and observations

Two runs are expected to find a violation.

`chat_erased`: `askQuestion` checks that the job is completed when it takes the
message's number and creates the message in a second call
(`videoController.js:187-201`). A deletion that is marked, cleaned up and buried in
between leaves the message of an erased job, which no scan collects, although
"all user content and artifacts are erased" (`deletion.py:105`).

`given_up`: the repository's `README.md:489` has a job stay `deleting` with
`deletion.state: failed` "after eight failed attempts" (`GivenUpAfterAll`). The code
counts a cleanup's attempts when a pass takes it up (`deletion.py:86`), and so also
the pass that only finds the worker's lease still running and waits. In the trace,
with three attempts instead of eight, a job is deleted while a worker executes it; one
pass waits, one crashes, one fails, and the cleanup is given up after two failures.
`GivenUpOneShort` proves that one failure is all that can be missing.

A third disagreement shows in `list`, which passes because its property excepts it:
`README.md:489-491` says of a cleanup that was given up that "the dashboard shows
it". Giving up writes no new `progressVersion` and sends no event
(`deletion.py:117-120`), and where a poll brings the version already shown, the list
keeps what it shows (`Dashboard.jsx:29-30`), so that the card goes on to say "Deleting
stored data..." (`JobCard.jsx:36`). A list that showed the job before never comes to
show the failure by polling, only when it is opened again or by the answer of the
Retry button, which appears after an error. `ListConverges` promises the last version
of each job and leaves the state of its cleanup open (`ShowsJob`); without the exception
TLC finds it violated, by a list that shows the deletion before its cleanup is given up.

Behaviour that the models contain, and that a reader of the code should know:

- The tombstone has no fingerprint: unchanged input under the key of an erased job
  is answered 409 IDEMPOTENCY_CONFLICT (`jobSubmission.js:53`), which
  `README.md:416-417` reserves for changed input; the 410 is reached only before
  the erasure.
- A connection that closes when the body was read but its file is still being
  written starts the cleanup (`upload.js:92`); the controller gets a file that
  is removed. `OwnedFileKept` therefore speaks of files handed over before.
- A reservation an intake makes after its job was deleted stays until its two hours
  end; the same happens if `finishJob` fails after the marker was stored.
- A request that read the clock before midnight and is applied after one of
  the new day sets the usage document back to the old day and forgets the new
  day's counts. `DailyLimits` counts these `setbacks`.
- The page shows the Cancel button by the status it knows: the step from
  "accepting" to "queued" has no new version, so until a worker claims the job the
  page may not offer it.
- A logout while a refresh is under way can be undone by its late answer, and a
  wrong password entered while a refresh cookie lives signs the old account in.
  `SignedOutStays` and `SessionKept` except these by `stray`.
- A page or list whose socket was replaced by one with a fresh token hears no
  events until it is opened again; it lives from polling. `ListConverges` and
  `ErasedIsLeft` hold all the same. A socket that reconnects with an expired token
  makes the client log out, which revokes the refresh session.

## 7. Not modelled, and abstractions

- What transcription, summary, extraction and retrieval compute, ffmpeg, the
  providers and their errors: a stage ends or fails.
- Validation of inputs, configuration, HTTP and socket formats, rendering,
  routes, the upload form, and the tooling.
- The processing slots of `request_limits.py`: one counter under a lock, taken and
  given back in one `try/finally`.
- The chat panel's first load and pages of messages: their cursor is that of the
  list, and one request at a time is under way.
- The removal of users, which the program does not offer.
- In `JobQueue` scratch files, media and the cleanup of deleted jobs (they are in
  `Deletion`), and the delivery subdocument (in `CallbackDelivery`).
- Submitting and retrying have a limiter each, with the same settings
  (`videoRoutes.js:24`, `:30`); `Admission` has one of that kind. Limiters share nothing,
  so what holds of one holds of both.
- `Dashboard.jsx:31` keeps jobs that an answer does not have if a newer request was sent
  meanwhile. The answer of a request that was overtaken is ignored (line 24),
  so that this happens only if React runs the state updater after a later `load`;
  `Merged` leaves it out.
- Ages measured in hours or days (retention, orphan scans) are nondeterministic:
  they may have passed at any time, except where an order of durations is named.

## 8. Plan

Done: every component above that keeps state two actors share, each with its
safety and action properties proved (section 5), and the contracts of the queue, of
submitting and of the usage document with their refinements.

Possible next steps: the liveness of the views and of the scratch directories for every
value of the constants (section 5 says what is missing), and the processing slots and the chat
panel as parts of `Admission` and `Chat`.
