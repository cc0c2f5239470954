------------------------------- MODULE JobPage -------------------------------
(***************************************************************************)
(* The page of one job (client/src/pages/JobDetail.jsx), opened, left and  *)
(* opened again, while the job changes: answers of getJob, events and the  *)
(* answers of the page's own requests arrive in any order.                 *)
(*                                                                         *)
(* What a page that was left requested is forgotten, except that a retry   *)
(* and a deletion still navigate.  The page listens to the socket there    *)
(* was when it was opened.                                                 *)
(***************************************************************************)
EXTENDS LiveView, PublishedJob

CONSTANT
    MaxReports     \* bound: progress reports while the job is active

ASSUME PageAssumption == MaxReports \in Nat

----------------------------------------------------------------------------
(* Types *)

\* Queued and processing are active, failed and cancelled are stopped.
Statuses == {"active", "completed", "stopped", "deleting"}
Versions == 0 .. MaxReports + 2                    \* progressVersion

PageDocument ==
    [status : Statuses \cup {"deleted"}, version : Versions, cleanup : Cleanups]

\* What answers and events say of the job is the document as it was.
Snapshot == [status : Statuses, version : Versions, cleanup : Cleanups]
NoEntry == [status |-> "none"]

PageView ==
    [job    : Snapshot \cup {NoEntry},
     result : BOOLEAN,              \* the results are in what is shown
     error  : BOOLEAN,
     missed : BOOLEAN]              \* fetching the results failed
Elsewhere == [job |-> NoEntry]      \* the dashboard, the page of another job, ...

\* "final" fetches the results of a job that completed.
PageCall ==
    [kind  : {"open", "poll", "final", "remove", "cancel", "retry"},
     step  : {"sent", "ok", "missing", "failed"},
     mine  : BOOLEAN,               \* its page is open
     entry : Snapshot \cup {NoEntry}]

NewRequest(kind) == [kind |-> kind, step |-> "sent", mine |-> TRUE, entry |-> NoEntry]

Open == view # Elsewhere
Send(kind) == MayCall /\ calls' = Append(calls, NewRequest(kind))

Opened == [job |-> NoEntry, result |-> FALSE, error |-> FALSE, missed |-> FALSE]

PageInit ==
    /\ doc = [status |-> "active", version |-> 0, cleanup |-> "none"]
    /\ pushes = {} /\ listening = TRUE
    /\ view = Opened
    /\ calls = <<NewRequest("open")>>
    /\ faults = 0

----------------------------------------------------------------------------
(* The gateway and what happens to the job elsewhere *)

Update(status, cleanup) ==
    doc' = [status |-> status, version |-> doc.version + 1, cleanup |-> cleanup]

Mark == doc.status \in {"active", "completed", "stopped"} /\ Update("deleting", "pending")

\* The worker reports, another page cancels or deletes, the retention ends.
JobChanges ==
    /\ \E status \in NextKinds(doc.status) :
         /\ status = "active" => doc.version < MaxReports
         /\ Update(status, IF status = "deleting" THEN "pending" ELSE "none")
    /\ Emit(doc')
    /\ UNCHANGED <<listening, view, calls, faults>>

\* The cleanup is done or given up; neither is a new version or an event.
CleanupEnds ==
    /\ doc.status = "deleting" /\ doc.cleanup = "pending"
    /\ \/ doc' = [doc EXCEPT !.status = "deleted"] /\ UNCHANGED faults
       \/ doc' = [doc EXCEPT !.cleanup = "failed"] /\ Fault
    /\ UNCHANGED <<pushes, listening, view, calls>>

Answer(c, step, e) == calls' = [calls EXCEPT ![c].step = step, ![c].entry = e]

GetJob(c) ==
    /\ calls[c].kind \in {"open", "poll", "final"}
    /\ IF doc.status = "deleted" THEN Answer(c, "missing", NoEntry) ELSE Answer(c, "ok", doc)
    /\ UNCHANGED <<doc, pushes>>

\* Marked now or before, scheduled again, or erased.
DeleteJob(c) ==
    /\ calls[c].kind = "remove"
    /\ \/ /\ \/ Mark
             \/ doc.status = "deleting" /\ doc' = [doc EXCEPT !.cleanup = "pending"]
          /\ Answer(c, "ok", doc') /\ Emit(doc')
       \/ /\ doc.status = "deleted"
          /\ Answer(c, "missing", NoEntry) /\ UNCHANGED <<doc, pushes>>

\* A job that is not active is a 409, unless it was cancelled.
CancelJob(c) ==
    /\ calls[c].kind = "cancel"
    /\ \/ /\ doc.status = "active" /\ Update("stopped", "none")
          /\ Answer(c, "ok", doc') /\ Emit(doc')
       \/ /\ doc.status = "stopped" /\ UNCHANGED doc
          /\ Answer(c, "ok", doc) /\ Emit(doc)
       \/ /\ doc.status # "active"
          /\ Answer(c, "failed", NoEntry) /\ UNCHANGED <<doc, pushes>>

\* A stopped job is answered with its successor, which has a page of its own.
\* Refused if it is not stopped, by a limit, or if the original is gone.
RetryJob(c) ==
    /\ calls[c].kind = "retry"
    /\ \/ doc.status = "stopped" /\ Answer(c, "ok", NoEntry)
       \/ Answer(c, "failed", NoEntry)
    /\ UNCHANGED <<doc, pushes>>

Handle(c) ==
    /\ calls[c].step = "sent"
    /\ GetJob(c) \/ DeleteJob(c) \/ CancelJob(c) \/ RetryJob(c)
    /\ UNCHANGED <<listening, view, faults>>

\* The request or its answer is lost, or the gateway fails.
PageCallFails(c) ==
    /\ calls[c].step # "failed"
    /\ Answer(c, "failed", NoEntry)
    /\ Fault
    /\ UNCHANGED <<doc, pushes, listening, view>>

----------------------------------------------------------------------------
(* Requests *)

\* Opening the page, the tab becoming visible, and the five-second interval.
Fetch(kind) ==
    /\ Open /\ Send(kind)
    /\ UNCHANGED <<doc, pushes, listening, view, faults>>

Acting == \E c \in DOMAIN calls : calls[c].mine /\ calls[c].kind \in {"remove", "cancel", "retry"}

\* The buttons that are shown for the job.
Button(kind) ==
    /\ view.job # NoEntry /\ ~view.error /\ ~Acting
    /\ CASE kind = "cancel" -> view.job.status = "active"
         [] kind = "retry"  -> view.job.status = "stopped"
         [] kind = "remove" -> view.job.status = "deleting" => view.job.cleanup = "failed"
    /\ Send(kind)
    /\ UNCHANGED <<doc, pushes, listening, view, faults>>

----------------------------------------------------------------------------
(* Pages *)

Without(c) == IF c = 0 THEN calls ELSE RemoveAt(calls, c)

\* A page is left, which forgets its requests but those that still navigate.
Leave(c) ==
    LET rest == Without(c)
        kept == {i \in DOMAIN rest : rest[i].kind \in {"remove", "retry"}}
    IN  [n \in 1 .. Cardinality(kept) |-> [rest[Nth(kept, n)] EXCEPT !.mine = FALSE]]

LeaveTo(new, c) ==
    /\ view' = new
    /\ IF new = Elsewhere THEN calls' = Leave(c)
       ELSE Len(Leave(c)) < MaxCalls /\ calls' = Append(Leave(c), NewRequest("open"))
    /\ listening' = TRUE /\ UNCHANGED pushes

\* The owner leaves the page and comes back.
Navigate ==
    /\ IF Open THEN LeaveTo(Elsewhere, 0) ELSE LeaveTo(Opened, 0)
    /\ UNCHANGED <<doc, faults>>

----------------------------------------------------------------------------
(* Answers *)

\* Mutant: the last to come wins.
AlwaysNewer(e) == TRUE

Newer(e) == view.job = NoEntry \/ e.version >= view.job.version

\* setJob with a whole document.
Set(e) == [view EXCEPT !.job = e, !.result = (e.status = "completed")]

\* Mutant: a job that was not found is noticed when the page is opened.
GoesOpening(call) ==
    \/ call.step = "missing" /\ call.kind \in {"open", "remove"}
    \/ call.step = "ok" /\ call.kind = "retry"

\* Answers that navigate: to the page for jobs not found, the dashboard or the
\* successor.  What is fetched after an event has no handler for errors.
Goes(call) ==
    \/ call.step = "missing" /\ call.kind \in {"open", "poll", "remove"}
    \/ call.step = "ok" /\ call.kind = "retry"

\* A request that failed when the page was opened, or for the results.
Failed(call) ==
    [view EXCEPT !.error = @ \/ call.kind = "open", !.missed = @ \/ call.kind = "final"]

\* What an answer for the open page makes of it.
PageAnswered(call) ==
    IF call.step # "ok" THEN Failed(call)
    ELSE CASE call.kind = "poll" -> IF call.entry.status = "deleting" THEN Set(call.entry) ELSE view
           [] call.kind \in {"open", "final"} -> IF Newer(call.entry) THEN Set(call.entry) ELSE view
           [] OTHER -> Set(call.entry)

PageReceive(c) ==
    /\ calls[c].step # "sent"
    /\ IF Goes(calls[c]) THEN LeaveTo(Elsewhere, c)
       ELSE /\ view' = IF calls[c].mine THEN PageAnswered(calls[c]) ELSE view
            /\ calls' = RemoveAt(calls, c)
            /\ UNCHANGED <<pushes, listening>>
    /\ UNCHANGED <<doc, faults>>

----------------------------------------------------------------------------
(* Events *)

\* Mutant: what completed is not fetched.
FetchesNothing(e) == FALSE

Fetches(e) == e.status = "completed"

\* A job:update event changes what is shown; what is known of the results stays.
OnPageUpdate(e) ==
    /\ e \in pushes
    /\ pushes' = pushes \ {e}
    /\ IF listening /\ Open
         THEN /\ view' = IF Newer(e) THEN [view EXCEPT !.job = e] ELSE view
              /\ IF Fetches(e) THEN Send("final") ELSE UNCHANGED calls
         ELSE UNCHANGED <<view, calls>>
    /\ UNCHANGED <<doc, listening, faults>>

\* The connection broke and is there again: the events meanwhile are lost and a
\* page that listens loads.
PageReconnect ==
    /\ Open /\ listening
    /\ pushes' = {}
    /\ Send("open")
    /\ UNCHANGED <<doc, listening, view, faults>>

PageNext ==
    \/ JobChanges \/ CleanupEnds
    \/ \E c \in DOMAIN calls : Handle(c) \/ PageCallFails(c) \/ PageReceive(c)
    \/ \E kind \in {"open", "poll"} : Fetch(kind)
    \/ \E kind \in {"remove", "cancel", "retry"} : Button(kind)
    \/ Navigate
    \/ \E e \in pushes : OnPageUpdate(e)
    \/ PageReconnect \/ TokenRefreshed

PageSpec == PageInit /\ [][PageNext]_vars

\* Requests are answered and answers received, events arrive and the interval of
\* the open page runs.
PageFairSpec ==
    /\ PageSpec
    /\ WF_vars(calls # <<>> /\ (Handle(1) \/ PageReceive(1)))
    /\ SF_vars(\E e \in pushes : OnPageUpdate(e))
    /\ SF_vars(Fetch("poll"))

----------------------------------------------------------------------------
(* Properties *)

PageTypeOK ==
    /\ doc \in PageDocument
    /\ pushes \in SUBSET Snapshot /\ Cardinality(pushes) <= MaxPushes
    /\ listening \in BOOLEAN
    /\ view \in PageView \cup {Elsewhere}
    /\ calls \in Seq(PageCall) /\ Len(calls) <= MaxCalls
    /\ faults \in 0 .. MaxFaults

\* While a page is open, what it shows of its job never goes back to an earlier
\* version, in whatever order answers and events arrive; only the answer of a
\* cancellation is shown without looking.
CancelShown ==
    \E c \in DOMAIN calls :
       calls[c].kind = "cancel" /\ calls[c].step = "ok" /\ calls' = RemoveAt(calls, c)

PageNeverBack ==
    [][\/ view.job = NoEntry \/ view'.job = NoEntry
       \/ CancelShown \/ view'.job.version >= view.job.version]_vars

\* A page that shows its job as completed gets the results, unless fetching them
\* failed.
WithoutResults ==
    Open /\ view.job.status = "completed" /\ ~view.result /\ ~view.missed

ResultsFollow == WithoutResults ~> ~WithoutResults

\* The page of a job that was erased is left, whatever socket it listens to.
ErasedIsLeft == (Open /\ doc.status = "deleted") ~> ~Open
=============================================================================
