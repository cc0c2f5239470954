------------------------------- MODULE JobList -------------------------------
(***************************************************************************)
(* The list of the owner's jobs (client/src/pages/Dashboard.jsx), from     *)
(* when it is opened: pages of listJobs of the gateway, requested on       *)
(* timers, clicks and reconnections, and job:update events, which arrive   *)
(* in any order and are merged job by job under their progressVersion.     *)
(*                                                                         *)
(* The list listens to the socket there was when it was opened.            *)
(***************************************************************************)
EXTENDS LiveView

CONSTANTS
    MaxJobs,       \* jobs, numbered by age
    FirstJobs,     \* those that exist at the start
    PageSize,      \* limit=20
    MaxVersion     \* bound: changes of all jobs together

ASSUME ListAssumption ==
    /\ MaxJobs \in Nat \ {0} /\ FirstJobs \in 0 .. MaxJobs
    /\ PageSize \in Nat \ {0} /\ MaxVersion \in Nat

----------------------------------------------------------------------------
(* Types *)

Jobs == 1 .. MaxJobs
NoJob == 0

\* Kept jobs are those listed: all that were accepted, until they are erased.
Document ==
    [status : {"none", "kept", "deleted"}, version : Nat,   \* progressVersion
     cleanup : Cleanups]

\* What answers and events say of a job: its version stands for all of it but for the
\* state of its cleanup.
Entry == [job : Jobs, version : Nat, cleanup : Cleanups]
EntryIn(docs, j) == [job |-> j, version |-> docs[j].version, cleanup |-> docs[j].cleanup]

List == [jobs : Seq(Entry), next : Jobs \cup {NoJob}, error : BOOLEAN]

Call ==
    [kind   : {"list", "older", "again"},
     step   : {"sent", "ok", "failed"},
     before : Jobs \cup {NoJob},    \* the cursor
     latest : BOOLEAN,              \* requestNumber is still its own
     jobs   : Seq(Entry), next : Jobs \cup {NoJob}]

New(kind, before) ==
    [kind |-> kind, step |-> "sent", before |-> before, latest |-> (kind = "list"),
     jobs |-> <<>>, next |-> NoJob]

Init ==
    /\ doc = [j \in Jobs |-> [status |-> IF j <= FirstJobs THEN "kept" ELSE "none",
                              version |-> 0, cleanup |-> "none"]]
    /\ pushes = {} /\ listening = TRUE
    /\ view = [jobs |-> <<>>, next |-> NoJob, error |-> FALSE]
    /\ calls = <<New("list", NoJob)>>
    /\ faults = 0

----------------------------------------------------------------------------
(* The gateway and what happens to the jobs elsewhere *)

Deleting(j) == doc[j].status = "kept" /\ doc[j].cleanup # "none"

\* The document gets its next version: the job goes on, or is marked for deletion.
Change(j) ==
    /\ doc[j].status = "kept" /\ ~Deleting(j)
    /\ SumFunction([i \in Jobs |-> doc[i].version]) < MaxVersion
    /\ \E cleanup \in {"none", "pending"} :
         doc' = [doc EXCEPT ![j].version = @ + 1, ![j].cleanup = cleanup]
    /\ Emit(EntryIn(doc', j))
    /\ UNCHANGED <<listening, view, calls, faults>>

\* deleteJob of a job that is being deleted: a cleanup that was given up is
\* scheduled again, without a new version, and the job is sent in any case, by a
\* request that another one overtook as it was read.
DeleteAgain(j) ==
    /\ Deleting(j)
    /\ doc' = [doc EXCEPT ![j].cleanup = "pending"]
    /\ Emit(EntryIn(doc', j)) \/ Emit(EntryIn(doc, j))
    /\ IF doc[j].cleanup = "failed" THEN UNCHANGED faults ELSE Fault
    /\ UNCHANGED <<listening, view, calls>>

\* The cleanup is given up: no new version, and nothing is sent.
GiveUp(j) ==
    /\ Deleting(j) /\ doc[j].cleanup = "pending"
    /\ doc' = [doc EXCEPT ![j].cleanup = "failed"]
    /\ Fault
    /\ UNCHANGED <<pushes, listening, view, calls>>

\* Erasing the job is no new version either.
Erase(j) ==
    /\ Deleting(j) /\ doc[j].cleanup = "pending"
    /\ doc' = [doc EXCEPT ![j].status = "deleted", ![j].cleanup = "none"]
    /\ UNCHANGED <<pushes, listening, view, calls, faults>>

Submit(j) ==
    /\ doc[j].status = "none" /\ \A i \in 1 .. j - 1 : doc[i].status # "none"
    /\ doc' = [doc EXCEPT ![j].status = "kept"]
    /\ UNCHANGED <<pushes, listening, view, calls, faults>>

\* The newest come first.
Listed(before) ==
    {j \in Jobs : doc[j].status = "kept" /\ (before = NoJob \/ j < before)}

\* The cursor is the last of the page.
Page(before) ==
    LET all == Listed(before)
        count == Cardinality(all)
        hasMore == count > PageSize
    IN  [jobs |-> [n \in 1 .. (IF hasMore THEN PageSize ELSE count) |->
                     EntryIn(doc, Nth(all, count + 1 - n))],
         next |-> IF hasMore THEN Nth(all, count + 1 - PageSize) ELSE NoJob]

ListJobs(c) ==
    LET page == Page(calls[c].before)
    IN  /\ calls[c].step = "sent"
        /\ calls' = [calls EXCEPT ![c].step = "ok", ![c].jobs = page.jobs, ![c].next = page.next]
        /\ UNCHANGED <<doc, pushes, listening, view, faults>>

\* The request or its answer is lost, or the gateway fails.
CallFails(c) ==
    /\ calls[c].step # "failed"
    /\ calls' = [calls EXCEPT ![c].step = "failed", ![c].jobs = <<>>, ![c].next = NoJob]
    /\ Fault
    /\ UNCHANGED <<doc, pushes, listening, view>>

----------------------------------------------------------------------------
(* The list *)

Ids(shown) == {shown[i].job : i \in DOMAIN shown}
Shown(shown, j) == shown[CHOOSE i \in DOMAIN shown : shown[i].job = j]

\* Mutant: what is shown is kept although the answer is newer.
MergedKeepingShown(shown, answer) ==
    [i \in DOMAIN answer |->
       IF answer[i].job \in Ids(shown) THEN Shown(shown, answer[i].job) ELSE answer[i]]

\* An answer takes the place of what is shown, job by job unless that is as new,
\* also where the answer knows a later state of its cleanup.  Jobs it does not have
\* go; the code keeps them for an answer that a newer request overtook, but that is
\* tested just before, and so never happens unless setJobs is deferred past a load.
Merged(shown, answer) ==
    [i \in DOMAIN answer |->
       LET j == answer[i].job
       IN  IF j \in Ids(shown) /\ Shown(shown, j).version >= answer[i].version
           THEN Shown(shown, j) ELSE answer[i]]

\* Mutant: the last event wins.
PushedAlways(shown, e) ==
    IF e.job \in Ids(shown)
    THEN [i \in DOMAIN shown |-> IF shown[i].job = e.job THEN e ELSE shown[i]]
    ELSE <<e>> \o shown

\* An event changes what is shown of its job, or shows the job at the top.
Pushed(shown, e) ==
    IF e.job \in Ids(shown)
    THEN [i \in DOMAIN shown |->
            IF shown[i].job = e.job /\ e.version >= shown[i].version THEN e ELSE shown[i]]
    ELSE <<e>> \o shown

\* Mutant: the older page is appended as it is.
Appended(shown, answer) == shown \o answer

\* The older jobs that are not shown yet, in the order of the answer.
Extended(shown, answer) ==
    LET more == {i \in DOMAIN answer : answer[i].job \notin Ids(shown)}
    IN  shown \o [n \in 1 .. Cardinality(more) |-> answer[Nth(more, n)]]

\* Every ten seconds, when the tab becomes visible and when the socket connects;
\* earlier requests no longer count.
StartLoad ==
    /\ MayCall
    /\ calls' = Append([c \in DOMAIN calls |-> [calls[c] EXCEPT !.latest = FALSE]],
                       New("list", NoJob))
    /\ view' = [view EXCEPT !.error = FALSE]

Load ==
    /\ StartLoad
    /\ UNCHANGED <<doc, pushes, listening, faults>>

\* The Retry button of the error, which does not count as a request.
LoadAgain ==
    /\ view.error /\ MayCall
    /\ calls' = Append(calls, New("again", NoJob))
    /\ view' = [view EXCEPT !.error = FALSE]
    /\ UNCHANGED <<doc, pushes, listening, faults>>

LoadMore ==
    /\ view.next # NoJob /\ MayCall
    /\ \A c \in DOMAIN calls : calls[c].kind # "older"
    /\ calls' = Append(calls, New("older", view.next))
    /\ UNCHANGED <<doc, pushes, listening, view, faults>>

Counts(call) == call.kind = "list" /\ call.latest

\* The state of the list after an answer.
Answered(call) ==
    CASE Counts(call) /\ call.step = "ok" ->
           [view EXCEPT !.jobs = Merged(@, call.jobs), !.next = call.next]
      [] Counts(call) /\ call.step = "failed" -> [view EXCEPT !.error = TRUE]
      [] call.kind = "again" /\ call.step = "ok" ->
           [view EXCEPT !.jobs = call.jobs, !.next = call.next]
      [] call.kind = "older" /\ call.step = "ok" ->
           [view EXCEPT !.jobs = Extended(@, call.jobs), !.next = call.next]
      [] OTHER -> view

Receive(c) ==
    /\ calls[c].step # "sent"
    /\ calls' = RemoveAt(calls, c)
    /\ view' = Answered(calls[c])
    /\ UNCHANGED <<doc, pushes, listening, faults>>

\* A job:update event.
OnUpdate(e) ==
    /\ e \in pushes
    /\ pushes' = pushes \ {e}
    /\ view' = IF listening THEN [view EXCEPT !.jobs = Pushed(@, e)] ELSE view
    /\ UNCHANGED <<doc, listening, calls, faults>>

\* The connection broke and is there again: the events meanwhile are lost and a
\* list that listens loads.
Reconnect ==
    /\ listening
    /\ pushes' = {}
    /\ StartLoad
    /\ UNCHANGED <<doc, listening, faults>>

Next ==
    \/ \E j \in Jobs : Change(j) \/ DeleteAgain(j) \/ GiveUp(j) \/ Erase(j) \/ Submit(j)
    \/ \E c \in DOMAIN calls : ListJobs(c) \/ CallFails(c) \/ Receive(c)
    \/ Load \/ LoadAgain \/ LoadMore \/ Reconnect
    \/ \E e \in pushes : OnUpdate(e)
    \/ TokenRefreshed

Spec == Init /\ [][Next]_vars

AnswerCounted == \E c \in DOMAIN calls : Counts(calls[c]) /\ ListJobs(c)
ReceiveCounted == \E c \in DOMAIN calls : Counts(calls[c]) /\ Receive(c)

\* Requests are answered and answers received, events arrive, the timer runs, and
\* again and again an answer comes before the next request, ten seconds later.
FairSpec ==
    /\ Spec
    /\ WF_vars(calls # <<>> /\ (ListJobs(1) \/ Receive(1)))
    /\ WF_vars(\E e \in pushes : OnUpdate(e))
    /\ SF_vars(AnswerCounted) /\ SF_vars(ReceiveCounted)
    /\ SF_vars(Load)

----------------------------------------------------------------------------
(* Properties *)

\* The documents, events and requests have their types, and one request at most
\* has the current number.
TypeOK ==
    /\ doc \in [Jobs -> Document]
    /\ pushes \in SUBSET Entry /\ Cardinality(pushes) <= MaxPushes
    /\ listening \in BOOLEAN
    /\ view \in List
    /\ calls \in Seq(Call) /\ Len(calls) <= MaxCalls
    /\ Cardinality({c \in DOMAIN calls : calls[c].latest}) <= 1
    /\ faults \in 0 .. MaxFaults

\* First pages, older pages and pushed jobs, in any order, never show a job twice.
ListedOnce == Cardinality(Ids(view.jobs)) = Len(view.jobs)

\* What is shown of a job never goes back to an earlier version, in whatever order
\* polls and events arrive; only the Retry button shows its answer without looking.
RetryShown ==
    \E c \in DOMAIN calls :
       calls[c].kind = "again" /\ calls[c].step = "ok" /\ calls' = RemoveAt(calls, c)

NeverBack ==
    [][RetryShown \/ \A j \in Ids(view.jobs) \cap Ids(view'.jobs) :
                        Shown(view'.jobs, j).version >= Shown(view.jobs, j).version]_vars

\* The list comes to begin with the newest page of jobs, each in its last version,
\* and stays so, whatever answers were lost or late and even if its socket hears
\* nothing.  The state of a cleanup may be an earlier one for ever: it changes
\* without a new version, and on equal versions what is shown is kept.
ShowsJob(shown, e) == shown = e \/ (doc[e.job].cleanup # "none" /\ shown.job = e.job
                                       /\ shown.version = e.version)

ShowsFirstPage ==
    LET page == Page(NoJob).jobs
    IN  /\ Len(view.jobs) >= Len(page)
        /\ \A n \in DOMAIN page : ShowsJob(view.jobs[n], page[n])

ListConverges == <>[]ShowsFirstPage
=============================================================================
