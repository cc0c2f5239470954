-------------------------- MODULE SubmissionProofs --------------------------
(***************************************************************************)
(* Proofs about Submission, for any keys, requests, contents and limits:   *)
(* a key makes one job, an accepted job has its reservation, and one of a  *)
(* file has its own original.                                              *)
(*                                                                         *)
(* None of the three is inductive.  A last write may come at any time, so  *)
(* the invariant says what holds of a request that could still make it:    *)
(* its token is in the document of a job nobody runs (TokensLeased), its   *)
(* key is reserved (LeaseReserved), its original is there, too young to be *)
(* collected and nobody else's (LeaseHasMedia, FilesOwned).                *)
(***************************************************************************)
EXTENDS Submission, TLAPS

----------------------------------------------------------------------------
(* The inductive invariant *)

\* Jobs that no intake can make runnable any more.
Past(k) == job[k].status \in {"settled", "deleting", "deleted"}

Active(r) == request[r] # Idle

\* An intake between its lease and its last write.
Intaking(r) == Active(r) /\ request[r].step \in {"reserve", "media", "accept"}

\* The documents: what is ready is queued or settled, and only then has a file
\* but for those being deleted.
DocumentsSound ==
    \A k \in Keys :
        /\ job[k].status = "none" => job[k] = NoDocument /\ accepted[k] = 0
        /\ job[k].status \in {"deleting", "deleted"} => ~job[k].ready
        /\ job[k].status = "settled" => job[k].ready
        /\ job[k].status = "queued" /\ ~job[k].ready => job[k].file = NoFile
        /\ job[k].status \in {"queued", "settled", "deleting"} =>
             job[k].fingerprint = first[k] /\ first[k] \in Input
        /\ accepted[k] <= 1
        /\ accepted[k] # 0 => Past(k) \/ job[k].ready

\* A reservation is given back only for jobs that nobody can run any more.
ClosingPast ==
    /\ \A k \in closing : Past(k)
    /\ \A r \in Requests : Active(r) /\ request[r].input.retryOf # NoKey
                              => Past(request[r].input.retryOf)

\* A token is that of an intake of a job which nobody runs.
TokensLeased ==
    \A k \in Keys : job[k].token # NoRequest => job[k].status = "queued" /\ ~job[k].ready

Leased(r) == Intaking(r) /\ job[request[r].key].token = r

\* An intake is one of the input its job was made for.
InputsSame ==
    \A r \in Requests :
        Active(r) /\ request[r].step \in {"lease", "reserve", "media", "accept"}
            => job[request[r].key].status # "none" /\ request[r].input = first[request[r].key]

LeaseReserved ==
    \A r \in Requests :
        Leased(r) /\ request[r].step # "reserve" => request[r].key \in reserved \cup lapsed

Accepting(r) == Active(r) /\ request[r].step = "accept" /\ request[r].file # NoFile

\* No two jobs have the same original, and none has one that an intake is about
\* to attach.
FilesOwned ==
    /\ \A f \in files : f.id \in 1 .. stored
    /\ \A k \in Keys : job[k].file <= stored
    /\ \A k, l \in Keys : k # l /\ job[k].file # NoFile => job[k].file # job[l].file
    /\ \A r \in Requests : Active(r) /\ request[r].step \in {"reserve", "media"}
                             => request[r].file = NoFile
    /\ \A r \in Requests : Accepting(r) =>
         /\ request[r].file <= stored
         /\ \A k \in Keys : job[k].file # request[r].file
         /\ \A s \in Requests : s # r /\ Accepting(s) => request[s].file # request[r].file

\* The original an intake may still attach is there, and the scan leaves it.
LeaseHasMedia ==
    \A r \in Requests :
        Leased(r) /\ job[request[r].key].held /\ request[r].step = "accept"
            /\ request[r].input.content \in Uploads
            => /\ [id |-> request[r].file, input |-> request[r].input] \in files
               /\ request[r].file \notin old

SubmissionInv ==
    /\ TypeOK
    /\ DocumentsSound
    /\ ClosingPast
    /\ TokensLeased
    /\ InputsSame
    /\ LeaseReserved
    /\ FilesOwned
    /\ LeaseHasMedia
    /\ AcceptedIsReserved
    /\ AcceptedHasMedia

----------------------------------------------------------------------------
(* Types *)

LEMMA IdleIsNoRequest == Idle.step = "idle" /\ Idle \notin Request
  BY DEF Idle, Request

\* What is known of the request that takes a step.
LEMMA RequestType ==
    ASSUME SubmissionInv, NEW r \in Requests, Active(r)
    PROVE  /\ request[r] \in Request
           /\ request[r].key \in Keys /\ request[r].input \in Input
           /\ job[request[r].key] \in Document
           /\ request[r].input.retryOf # NoKey => Past(request[r].input.retryOf)
  BY DEF SubmissionInv, TypeOK, Active, Request, ClosingPast

----------------------------------------------------------------------------
(* Steps of a request that is no intake, or no more *)

\* A request that does not go on to, or with, its intake takes nothing with it.
LEMMA QuietStep ==
    ASSUME SubmissionInv, NEW r \in Requests, NEW q \in Request \cup {Idle},
           request' = [request EXCEPT ![r] = q],
           q # Idle => /\ q.step \in {"close", "upsert", "error", "conflict"}
                       /\ q.input.retryOf # NoKey => Past(q.input.retryOf),
           UNCHANGED <<job, first, accepted, reserved, lapsed, closing, stored, files, old>>,
           submits' \in 0 .. MaxSubmits, faults' \in 0 .. MaxFaults
    PROVE  SubmissionInv'
<1>1. TypeOK'
  BY DEF SubmissionInv, TypeOK
<1>2. \A s \in Requests : request'[s] = IF s = r THEN q ELSE request[s]
  BY DEF SubmissionInv, TypeOK
<1>3. DocumentsSound' /\ TokensLeased' /\ AcceptedIsReserved' /\ AcceptedHasMedia'
  BY DEF SubmissionInv, DocumentsSound, Past, TokensLeased, AcceptedIsReserved, AcceptedHasMedia
<1>4. ClosingPast'
  BY <1>2 DEF SubmissionInv, ClosingPast, Past, Active
<1>5. InputsSame'
  BY <1>2 DEF SubmissionInv, InputsSame, Active
<1>6. LeaseReserved' /\ LeaseHasMedia'
  BY <1>2 DEF SubmissionInv, LeaseReserved, LeaseHasMedia, Leased, Intaking, Active
<1>7. FilesOwned'
  BY <1>2 DEF SubmissionInv, FilesOwned, Accepting, Active
<1> QED
  BY <1>1, <1>3, <1>4, <1>5, <1>6, <1>7 DEF SubmissionInv

\* An answer, and an error.
LEMMA EndStep ==
    ASSUME SubmissionInv, NEW r \in Requests, Active(r),
           Respond(r) \/ Step(r, "error") \/ Step(r, "conflict"),
           UNCHANGED <<job, first, accepted, reserved, lapsed, closing, stored, files, old>>,
           submits' \in 0 .. MaxSubmits, faults' \in 0 .. MaxFaults
    PROVE  SubmissionInv'
<1>1. CASE Respond(r)
  BY <1>1, QuietStep DEF Respond
<1>2. ASSUME NEW step \in {"error", "conflict"}, Step(r, step) PROVE SubmissionInv'
  <2> DEFINE q == [request[r] EXCEPT !.step = step]
  <2>1. request' = [request EXCEPT ![r] = q]
    BY <1>2 DEF Step
  <2>2. q \in Request /\ q.step = step /\ q.input = request[r].input
    <3>1. request[r] \in Request
      BY RequestType
    <3> QED
      BY <3>1 DEF Request
  <2>3. request[r].input.retryOf # NoKey => Past(request[r].input.retryOf)
    BY RequestType
  <2> HIDE DEF q
  <2> QED
    BY <2>1, <2>2, <2>3, QuietStep
<1> QED
  BY <1>1, <1>2

LEMMA SubmitStep ==
    ASSUME SubmissionInv, NEW r \in Requests, NEW k \in Keys, Submit(r, k)
    PROVE  SubmissionInv'
<1>1. PICK c \in Uploads \cup Links :
        request' = [request EXCEPT ![r] =
            [step |-> "upsert", key |-> k, input |-> [content |-> c, retryOf |-> NoKey],
             from |-> NoFile, file |-> NoFile]]
  BY DEF Submit
<1> DEFINE q == [step |-> "upsert", key |-> k, input |-> [content |-> c, retryOf |-> NoKey],
                 from |-> NoFile, file |-> NoFile]
<1>2. q \in Request /\ q.step = "upsert" /\ q.input.retryOf = NoKey
  BY SubmissionAssumption DEF Request, Input, NoFile
<1>3. /\ UNCHANGED <<job, first, accepted, reserved, lapsed, closing, stored, files, old>>
      /\ submits' \in 0 .. MaxSubmits /\ faults' \in 0 .. MaxFaults
  BY SubmissionAssumption DEF Submit, Counted, media, SubmissionInv, TypeOK
<1>4. request' = [request EXCEPT ![r] = q]
  BY <1>1
<1> HIDE DEF q
<1> QED
  BY <1>2, <1>3, <1>4, QuietStep

LEMMA RetryStep ==
    ASSUME SubmissionInv, NEW r \in Requests, NEW p \in Keys, NEW k \in Keys, Retry(r, p, k)
    PROVE  SubmissionInv'
<1> DEFINE input == [content |-> job[p].fingerprint.content, retryOf |-> p]
           q == [step |-> "close", key |-> k, input |-> input,
                 from |-> job[p].file, file |-> NoFile]
<1>1. /\ request' = [request EXCEPT ![r] = q] /\ job[p].status = "settled"
      /\ UNCHANGED <<job, first, accepted, reserved, lapsed, closing, stored, files, old>>
      /\ submits' \in 0 .. MaxSubmits /\ faults' \in 0 .. MaxFaults
  BY SubmissionAssumption DEF Retry, Retryable, Counted, media, SubmissionInv, TypeOK
<1>2. job[p].fingerprint \in Input /\ job[p].file \in 0 .. MaxFiles
  <2>1. job[p] \in Document
    BY DEF SubmissionInv, TypeOK
  <2>2. job[p].fingerprint \in Input
    BY <1>1 DEF SubmissionInv, DocumentsSound
  <2> QED
    BY <2>1, <2>2 DEF Document
<1>3. input \in Input /\ input.retryOf = p
  BY <1>2 DEF Input
<1> HIDE DEF input
<1>4. q \in Request /\ q.step = "close" /\ q.input = input
  BY <1>2, <1>3, SubmissionAssumption DEF Request, NoFile
<1>5. Past(p)
  BY <1>1 DEF Past
<1> HIDE DEF q
<1> QED
  BY <1>1, <1>3, <1>4, <1>5, QuietStep

LEMMA CrashStep ==
    ASSUME SubmissionInv, Crash
    PROVE  SubmissionInv'
<1>1. /\ request' = [r \in Requests |-> Idle]
      /\ UNCHANGED <<job, first, accepted, reserved, lapsed, closing, stored, files, old, submits>>
      /\ faults' \in 0 .. MaxFaults
  BY SubmissionAssumption DEF Crash, Fault, media, SubmissionInv, TypeOK
<1>2. TypeOK'
  BY <1>1 DEF SubmissionInv, TypeOK
<1>3. DocumentsSound' /\ TokensLeased' /\ AcceptedIsReserved' /\ AcceptedHasMedia'
  BY <1>1 DEF SubmissionInv, DocumentsSound, Past, TokensLeased, AcceptedIsReserved,
              AcceptedHasMedia
<1>4. ClosingPast' /\ InputsSame'
  BY <1>1 DEF SubmissionInv, ClosingPast, Past, InputsSame, Active
<1>5. LeaseReserved' /\ LeaseHasMedia'
  BY <1>1 DEF LeaseReserved, LeaseHasMedia, Leased, Intaking, Active
<1>6. FilesOwned'
  BY <1>1 DEF SubmissionInv, FilesOwned, Accepting, Active
<1> QED
  BY <1>2, <1>3, <1>4, <1>5, <1>6 DEF SubmissionInv

----------------------------------------------------------------------------
(* Steps of an intake *)

LEMMA CloseFirstStep ==
    ASSUME SubmissionInv, NEW r \in Requests, CloseFirst(r)
    PROVE  SubmissionInv'
<1>1. /\ Active(r) /\ request[r].step = "close"
      /\ reserved' = reserved \ {request[r].input.retryOf}
      /\ request' = [request EXCEPT ![r].step = "upsert"]
      /\ UNCHANGED <<job, first, accepted, lapsed, closing, stored, files, old, submits, faults>>
  BY DEF CloseFirst, Step, Active, media
<1>2. request[r].input.retryOf # NoKey => Past(request[r].input.retryOf)
  BY <1>1, RequestType
<1>3. TypeOK'
  BY <1>1 DEF SubmissionInv, TypeOK, Active, Request, Idle
<1>4. DocumentsSound' /\ TokensLeased' /\ AcceptedHasMedia'
  BY <1>1 DEF SubmissionInv, DocumentsSound, Past, TokensLeased, AcceptedHasMedia
<1>5. ClosingPast' /\ InputsSame' /\ FilesOwned' /\ LeaseHasMedia'
  BY <1>1 DEF SubmissionInv, TypeOK, ClosingPast, Past, InputsSame, FilesOwned, Accepting,
              LeaseHasMedia, Leased, Intaking, Active, Request, Idle
<1>6. \A k \in Keys : job[k].status = "queued" => k # request[r].input.retryOf
  <2> DEFINE before == request[r].input.retryOf
  <2>1. before # NoKey => job[before].status # "queued"
    BY <1>2 DEF Past
  <2> HIDE DEF before
  <2>2. \A k \in Keys : job[k].status = "queued" => k # before
    BY <2>1, SubmissionAssumption
  <2> QED
    BY <2>2 DEF before
<1>7. LeaseReserved'
  BY <1>1, <1>6, SubmissionAssumption
     DEF SubmissionInv, TypeOK, LeaseReserved, TokensLeased, Leased, Intaking, Active, Request,
         Idle
<1>8. AcceptedIsReserved'
  BY <1>1, <1>6 DEF SubmissionInv, AcceptedIsReserved
<1> QED
  BY <1>3, <1>4, <1>5, <1>7, <1>8 DEF SubmissionInv

\* The intent is new: its key was never used.
LEMMA InsertStep ==
    ASSUME SubmissionInv, NEW r \in Requests, Upsert(r),
           job[request[r].key].status = "none"
    PROVE  SubmissionInv'
<1> DEFINE k == request[r].key
           input == request[r].input
           doc == [status |-> "queued", ready |-> FALSE, fingerprint |-> input,
                   token |-> NoRequest, held |-> FALSE, file |-> NoFile]
<1>1. /\ Active(r) /\ request[r].step = "upsert"
      /\ job' = [job EXCEPT ![k] = doc]
      /\ first' = [first EXCEPT ![k] = input]
      /\ request' = [request EXCEPT ![r].step = "lease"]
      /\ UNCHANGED <<accepted, reserved, lapsed, closing, stored, files, old, submits, faults>>
  BY DEF Upsert, Step, Active, media, NoDocument
<1>2. k \in Keys /\ input \in Input /\ job[k] = NoDocument /\ accepted[k] = 0
  BY <1>1, RequestType DEF SubmissionInv, DocumentsSound
<1>3. doc \in Document /\ doc.status = "queued" /\ ~doc.ready /\ doc.token = NoRequest
      /\ ~doc.held /\ doc.file = NoFile /\ doc.fingerprint = input
  BY <1>2, SubmissionAssumption DEF Document, NoFile
<1> HIDE DEF doc
<1>4. /\ \A l \in Keys : job'[l] = IF l = k THEN doc ELSE job[l]
      /\ \A l \in Keys : first'[l] = IF l = k THEN input ELSE first[l]
  BY <1>1, <1>2 DEF SubmissionInv, TypeOK
<1>5. TypeOK'
  BY <1>1, <1>2, <1>3 DEF SubmissionInv, TypeOK, Active, Request, Idle
<1>6. DocumentsSound'
  BY <1>1, <1>2, <1>3, <1>4 DEF SubmissionInv, DocumentsSound, Past
<1>7. \A s \in Requests :
        /\ Active(s)' <=> Active(s)
        /\ Active(s) => /\ request'[s].key = request[s].key
                        /\ request'[s].input = request[s].input
                        /\ request'[s].file = request[s].file
                        /\ request'[s].step = IF s = r THEN "lease" ELSE request[s].step
  BY <1>1 DEF SubmissionInv, TypeOK, Active, Request, Idle
<1>8. ClosingPast'
  BY <1>1, <1>2, <1>4, <1>7 DEF SubmissionInv, ClosingPast, Past, NoDocument
<1>9. TokensLeased'
  BY <1>3, <1>4 DEF SubmissionInv, TokensLeased
<1>10. InputsSame'
  BY <1>1, <1>2, <1>3, <1>4, <1>7 DEF SubmissionInv, InputsSame, NoDocument
<1>11. LeaseReserved'
  BY <1>1, <1>3, <1>4, <1>7, SubmissionAssumption
     DEF SubmissionInv, LeaseReserved, Leased, Intaking
<1>12. FilesOwned'
  <2>1. \A l \in Keys : job'[l].file = job[l].file
    BY <1>2, <1>3, <1>4 DEF NoDocument
  <2> QED
    BY <1>1, <1>7, <2>1 DEF SubmissionInv, FilesOwned, Accepting
<1>13. LeaseHasMedia'
  BY <1>1, <1>3, <1>4, <1>7, SubmissionAssumption
     DEF SubmissionInv, LeaseHasMedia, Leased, Intaking
<1>14. AcceptedIsReserved'
  BY <1>1, <1>3, <1>4 DEF SubmissionInv, AcceptedIsReserved
<1>15. AcceptedHasMedia'
  BY <1>1, <1>3, <1>4 DEF SubmissionInv, AcceptedHasMedia
<1> QED
  BY <1>5, <1>6, <1>8, <1>9, <1>10, <1>11, <1>12, <1>13, <1>14, <1>15 DEF SubmissionInv

\* The same input comes again, for a job that is not accepted yet.
LEMMA JoinStep ==
    ASSUME SubmissionInv, NEW r \in Requests, Upsert(r),
           job[request[r].key].status = "queued",
           request' = [request EXCEPT ![r].step = "lease"]
    PROVE  SubmissionInv'
<1>1. /\ Active(r) /\ request[r].step = "upsert"
      /\ job[request[r].key].fingerprint = request[r].input
      /\ request' = [request EXCEPT ![r].step = "lease"]
      /\ UNCHANGED <<job, first, accepted, reserved, lapsed, closing, stored, files, old,
                     submits, faults>>
  <2>1. Active(r) /\ request[r].step = "upsert" /\ request[r] \in Request
    BY DEF Upsert, Active, SubmissionInv, TypeOK
  <2>2. request'[r].step = "lease"
    BY <2>1 DEF SubmissionInv, TypeOK, Request
  <2>3. SameInput(request[r].key, request[r].input)
    BY <2>2, <2>1 DEF Upsert, Step, SubmissionInv, TypeOK, Request
  <2> QED
    BY <2>1, <2>3 DEF Upsert, SameInput, media
<1>2. request[r].key \in Keys /\ request[r].input = first[request[r].key]
  BY <1>1, RequestType DEF SubmissionInv, DocumentsSound
<1>3. \A s \in Requests :
        /\ Active(s)' <=> Active(s)
        /\ Active(s) => /\ request'[s].key = request[s].key
                        /\ request'[s].input = request[s].input
                        /\ request'[s].file = request[s].file
                        /\ request'[s].step = IF s = r THEN "lease" ELSE request[s].step
  BY <1>1 DEF SubmissionInv, TypeOK, Active, Request, Idle
<1>4. TypeOK'
  BY <1>1 DEF SubmissionInv, TypeOK, Active, Request, Idle
<1>5. DocumentsSound' /\ TokensLeased' /\ AcceptedIsReserved' /\ AcceptedHasMedia'
  BY <1>1 DEF SubmissionInv, DocumentsSound, Past, TokensLeased, AcceptedIsReserved,
              AcceptedHasMedia
<1>6. ClosingPast'
  BY <1>1, <1>3 DEF SubmissionInv, ClosingPast, Past
<1>7. InputsSame'
  BY <1>1, <1>2, <1>3 DEF SubmissionInv, InputsSame
<1>8. LeaseReserved' /\ LeaseHasMedia'
  BY <1>1, <1>3 DEF SubmissionInv, LeaseReserved, LeaseHasMedia, Leased, Intaking
<1>9. FilesOwned'
  BY <1>1, <1>3 DEF SubmissionInv, FilesOwned, Accepting
<1> QED
  BY <1>4, <1>5, <1>6, <1>7, <1>8, <1>9 DEF SubmissionInv

LEMMA UpsertStep ==
    ASSUME SubmissionInv, NEW r \in Requests, Upsert(r)
    PROVE  SubmissionInv'
<1> DEFINE k == request[r].key
<1>1. Active(r) /\ k \in Keys /\ job[k] \in Document
  BY RequestType DEF Upsert, Active
<1>2. CASE job[k].status = "none"
  BY <1>2, InsertStep
<1>3. CASE job[k].status # "none"
  <2>1. UNCHANGED <<job, first, accepted, reserved, lapsed, closing, stored, files, old>>
        /\ submits' \in 0 .. MaxSubmits /\ faults' \in 0 .. MaxFaults
    BY <1>3 DEF Upsert, media, SubmissionInv, TypeOK
  <2>2. \/ Respond(r) \/ Step(r, "conflict")
        \/ job[k].status = "queued" /\ Step(r, "lease")
    <3>1. CASE ~SameInput(k, request[r].input)
      BY <1>3, <3>1 DEF Upsert
    <3>2. CASE SameInput(k, request[r].input)
      <4>1. IF job[k].status \in {"deleting", "deleted"} \/ job[k].ready
            THEN Respond(r) ELSE Step(r, "lease")
        BY <1>3, <3>2 DEF Upsert
      <4>2. job[k].status = "settled" => job[k].ready
        BY <1>1 DEF SubmissionInv, DocumentsSound
      <4> QED
        BY <1>1, <1>3, <4>1, <4>2 DEF Document
    <3> QED
      BY <3>1, <3>2
  <2>3. CASE Respond(r) \/ Step(r, "conflict")
    BY <1>1, <2>1, <2>3, EndStep
  <2>4. CASE job[k].status = "queued" /\ Step(r, "lease")
    BY <2>4, JoinStep DEF Step
  <2> QED
    BY <2>2, <2>3, <2>4
<1> QED
  BY <1>2, <1>3

\* An intake gets the lease of a job that has no original yet.
LEMMA TakeLeaseStep ==
    ASSUME SubmissionInv, NEW r \in Requests, TakeLease(r)
    PROVE  SubmissionInv'
<1> DEFINE k == request[r].key
           doc == [job[k] EXCEPT !.token = r, !.held = TRUE]
           mine == job[k].status = "queued" /\ ~job[k].ready /\ ~job[k].held
<1>0. /\ Active(r) /\ request[r].step = "lease" /\ k \in Keys /\ job[k] \in Document
      /\ UNCHANGED <<first, accepted, reserved, lapsed, closing, stored, files, old, submits,
                     faults>>
  BY RequestType DEF TakeLease, Active, media
<1>a. CASE ~mine
  <2>1. Respond(r) /\ UNCHANGED job /\ submits' \in 0 .. MaxSubmits /\ faults' \in 0 .. MaxFaults
    BY <1>0, <1>a DEF TakeLease, SubmissionInv, TypeOK
  <2> QED
    BY <1>0, <2>1, EndStep
<1>b. CASE mine
  <2>1. /\ job' = [job EXCEPT ![k] = doc]
        /\ request' = [request EXCEPT ![r].step = "reserve", ![r].file = NoFile]
    BY <1>0, <1>b DEF TakeLease, SubmissionInv, TypeOK, DocumentsSound
  <2>2. doc \in Document /\ doc.status = "queued" /\ ~doc.ready /\ doc.token = r
        /\ doc.fingerprint = job[k].fingerprint /\ doc.file = job[k].file /\ doc.file = NoFile
        /\ doc.status = job[k].status /\ doc.ready = job[k].ready
    BY <1>0, <1>b DEF Document, SubmissionInv, DocumentsSound
  <2> HIDE DEF doc
  <2>3. \A l \in Keys : job'[l] = IF l = k THEN doc ELSE job[l]
    BY <2>1 DEF SubmissionInv, TypeOK
  <2>13. \A l \in Keys : /\ job'[l].status = job[l].status /\ job'[l].ready = job[l].ready
                         /\ job'[l].file = job[l].file
    BY <1>b, <2>2, <2>3
  <2>4. \A s \in Requests :
          /\ Active(s)' <=> Active(s)
          /\ Active(s) =>
               /\ request'[s].key = request[s].key
               /\ request'[s].input = request[s].input
               /\ request'[s].file = IF s = r THEN NoFile ELSE request[s].file
               /\ request'[s].step = IF s = r THEN "reserve" ELSE request[s].step
    BY <1>0, <2>1 DEF SubmissionInv, TypeOK, Active, Request, Idle
  <2>5. TypeOK'
    <3> DEFINE q == [request[r] EXCEPT !.step = "reserve", !.file = NoFile]
    <3>0. request[r] \in Request /\ NoFile \in 0 .. MaxFiles
      BY <1>0, RequestType, SubmissionAssumption DEF NoFile
    <3>3. q \in Request
      BY <3>0 DEF Request
    <3>4. request' = [request EXCEPT ![r] = q]
      BY <2>1
    <3> HIDE DEF q
    <3>1. request' \in [Requests -> Request \cup {Idle}]
      BY <3>3, <3>4 DEF SubmissionInv, TypeOK
    <3>2. \A l \in Keys : job'[l].held => job'[l].token # NoRequest
      BY <2>2, <2>3, SubmissionAssumption DEF SubmissionInv, TypeOK
    <3> QED
      BY <1>0, <2>1, <2>2, <3>1, <3>2 DEF SubmissionInv, TypeOK
  <2>6. DocumentsSound'
    BY <1>0, <1>b, <2>2, <2>3 DEF SubmissionInv, DocumentsSound, Past
  <2>7. ClosingPast'
    <3>1. /\ closing \subseteq Keys
          /\ \A s \in Requests : Active(s) => request[s].input.retryOf \in Keys \cup {NoKey}
      BY RequestType DEF Input, SubmissionInv, TypeOK
    <3> QED
      BY <1>0, <2>4, <2>13, <3>1 DEF SubmissionInv, ClosingPast, Past
  <2>8. TokensLeased'
    BY <2>2, <2>3 DEF SubmissionInv, TokensLeased
  <2>9. InputsSame'
    <3>1. request[r].key \in Keys /\ \A s \in Requests : Active(s) => request[s].key \in Keys
      BY <1>0, RequestType
    <3> QED
      BY <1>0, <2>4, <2>13, <3>1 DEF SubmissionInv, InputsSame
  <2>10. LeaseReserved' /\ LeaseHasMedia'
    <3>1. \A s \in Requests : Active(s) => request[s].key \in Keys
      BY RequestType
    <3>2. \A s \in Requests :
            Leased(s)' /\ request'[s].step # "reserve"
              => s # r /\ request[s].key # k /\ Leased(s) /\ request[s].step # "reserve"
      BY <2>2, <2>3, <2>4, <3>1 DEF Leased, Intaking
    <3>3. LeaseReserved'
      BY <1>0, <2>4, <3>2 DEF SubmissionInv, LeaseReserved, Leased, Intaking
    <3>4. LeaseHasMedia'
      BY <1>0, <2>3, <2>4, <3>1, <3>2
         DEF SubmissionInv, LeaseHasMedia, Leased, Intaking
    <3> QED
      BY <3>3, <3>4
  <2>11. FilesOwned'
    <3>1. \A l \in Keys : job'[l].file = job[l].file
      BY <2>2, <2>3
    <3> QED
      BY <1>0, <2>4, <3>1 DEF SubmissionInv, FilesOwned, Accepting
  <2>12. AcceptedIsReserved' /\ AcceptedHasMedia'
    BY <1>0, <2>2, <2>3 DEF SubmissionInv, AcceptedIsReserved, AcceptedHasMedia
  <2> QED
    BY <2>5, <2>6, <2>7, <2>8, <2>9, <2>10, <2>11, <2>12 DEF SubmissionInv
<1> QED
  BY <1>a, <1>b

----------------------------------------------------------------------------
(* Steps that change a document and leave it without a lease that holds *)

\* A request goes on as it was, ends, or meets an error.
Quieter(s) ==
    \/ request'[s] = request[s]
    \/ request'[s] = Idle
    \/ Active(s) /\ request'[s] = [request[s] EXCEPT !.step = "error"]

LEMMA QuieterRequest ==
    ASSUME SubmissionInv, NEW s \in Requests, Quieter(s)
    PROVE  /\ request'[s] \in Request \cup {Idle}
           /\ Active(s)' =>
                /\ Active(s)
                /\ request'[s].key = request[s].key /\ request'[s].input = request[s].input
                /\ request'[s].file = request[s].file
                /\ request'[s].step \in {request[s].step, "error"}
<1>1. CASE request'[s] \in {request[s], Idle}
  BY <1>1 DEF SubmissionInv, TypeOK, Active
<1>2. CASE Active(s) /\ request'[s] = [request[s] EXCEPT !.step = "error"]
  <2>1. request[s] \in Request
    BY <1>2, RequestType
  <2> QED
    BY <1>2, <2>1 DEF Request
<1> QED
  BY <1>1, <1>2 DEF Quieter

LEMMA DocumentStep ==
    ASSUME SubmissionInv, NEW k \in Keys, NEW doc \in Document, NEW n \in 0 .. 1,
           job' = [job EXCEPT ![k] = doc],
           accepted' = [accepted EXCEPT ![k] = n],
           UNCHANGED <<first, reserved, lapsed, stored, old>>,
           submits' \in 0 .. MaxSubmits, faults' \in 0 .. MaxFaults,
           request' \in [Requests -> Request \cup {Idle}],
           \A s \in Requests : Quieter(s),
           \* the document
           job[k].status # "none", doc.status # "none",
           Past(k) => doc.status \in {"settled", "deleting", "deleted"},
           doc.status = "settled" => doc.ready,
           doc.status \in {"deleting", "deleted"} => ~doc.ready,
           doc.status = "queued" /\ ~doc.ready => doc.file = NoFile,
           doc.status # "deleted" =>
               job[k].status # "deleted" /\ doc.fingerprint = job[k].fingerprint,
           n # 0 => doc.ready \/ doc.status \in {"settled", "deleting", "deleted"},
           doc.ready \/ doc.status # "queued" => doc.token = NoRequest,
           ~doc.held,
           doc.token \in {job[k].token, NoRequest},
           doc.status = "queued" /\ doc.ready => k \in reserved \cup lapsed,
           \* its original, and those that are removed
           doc.file # NoFile =>
               /\ doc.file <= stored
               /\ \A l \in Keys : l # k => job[l].file # doc.file
               /\ \A s \in Requests : Accepting(s)' => request[s].file # doc.file,
           files' \subseteq files,
           \A f \in files \ files' : f.id = job[k].file,
           doc.ready /\ first[k].content \in Uploads
               => [id |-> doc.file, input |-> first[k]] \in files',
           \* what waits for its finishJob
           closing' \subseteq closing \cup {k},
           k \in closing' => doc.status \in {"settled", "deleting", "deleted"}
    PROVE  SubmissionInv'
<1>1. /\ \A l \in Keys : job'[l] = IF l = k THEN doc ELSE job[l]
      /\ \A l \in Keys : accepted'[l] = IF l = k THEN n ELSE accepted[l]
  BY DEF SubmissionInv, TypeOK
<1>2. \A s \in Requests :
        Active(s)' => /\ Active(s) /\ request[s] \in Request
                      /\ request'[s].key = request[s].key
                      /\ request'[s].input = request[s].input
                      /\ request'[s].file = request[s].file
                      /\ request'[s].step \in {request[s].step, "error"}
                      /\ request[s].key \in Keys /\ request[s].input \in Input
                      /\ request[s].input.retryOf \in Keys \cup {NoKey}
  BY QuieterRequest, RequestType DEF Input
<1>3. TypeOK'
  BY <1>1 DEF SubmissionInv, TypeOK
<1>4. DocumentsSound'
  <2>1. doc.status \in {"queued", "settled", "deleting"} =>
             doc.fingerprint = first[k] /\ first[k] \in Input
    BY DEF Document, SubmissionInv, TypeOK, DocumentsSound
  <2> QED
    BY <1>1, <2>1 DEF SubmissionInv, DocumentsSound, Past
<1>5. ClosingPast'
  <2>1. \A l \in Keys : Past(l) => Past(l)'
    BY <1>1 DEF Past
  <2>2. \A l \in closing' : Past(l)'
    BY <1>1, <2>1 DEF SubmissionInv, TypeOK, ClosingPast, Past
  <2>3. ASSUME NEW s \in Requests, Active(s)', request'[s].input.retryOf # NoKey
        PROVE  Past(request[s].input.retryOf)'
    <3>1. Past(request[s].input.retryOf) /\ request[s].input.retryOf \in Keys
      BY <1>2, <2>3 DEF SubmissionInv, ClosingPast
    <3> DEFINE p == request[s].input.retryOf
    <3>2. p \in Keys /\ p = request'[s].input.retryOf /\ Past(p)
      BY <1>2, <2>3, <3>1
    <3> HIDE DEF p
    <3>3. job'[p].status \in {"settled", "deleting", "deleted"}
      BY <2>1, <3>2 DEF Past
    <3> QED
      BY <3>2, <3>3 DEF Past
  <2> QED
    BY <2>2, <2>3 DEF ClosingPast
<1>6. TokensLeased'
  BY <1>1 DEF SubmissionInv, TokensLeased, Document
<1>7. InputsSame'
  BY <1>1, <1>2 DEF SubmissionInv, InputsSame
<1>8. \A s \in Requests : Leased(s)' =>
        /\ Leased(s) /\ Intaking(s)' /\ request'[s].step = request[s].step
        /\ job'[request[s].key].held => request[s].key # k
  <2> SUFFICES ASSUME NEW s \in Requests, Leased(s)'
               PROVE  /\ Leased(s) /\ Intaking(s)' /\ request'[s].step = request[s].step
                      /\ job'[request[s].key].held => request[s].key # k
    OBVIOUS
  <2>1. Intaking(s)' /\ Active(s)' /\ request'[s].step = request[s].step
        /\ request'[s].key = request[s].key
    BY <1>2 DEF Leased, Intaking
  <2>2. job[request[s].key].token = s
    BY <1>1, <1>2, <2>1, SubmissionAssumption DEF Leased
  <2> QED
    BY <1>1, <1>2, <2>1, <2>2 DEF Leased, Intaking
<1>9. LeaseReserved'
  BY <1>2, <1>8 DEF SubmissionInv, LeaseReserved, Intaking
<1>10. FilesOwned'
  <2>1. \A s \in Requests : Accepting(s)' => Accepting(s) /\ request'[s].file = request[s].file
    BY <1>2 DEF Accepting
  <2>2. \A l, m \in Keys : l # m /\ job'[l].file # NoFile => job'[l].file # job'[m].file
    BY <1>1 DEF SubmissionInv, FilesOwned
  <2>3. \A l \in Keys : job'[l].file <= stored
    BY <1>1, SubmissionAssumption DEF SubmissionInv, FilesOwned, TypeOK, Document, NoFile
  <2>4. \A s \in Requests : Accepting(s)' =>
          /\ \A l \in Keys : job'[l].file # request[s].file
    BY <1>1, <2>1 DEF SubmissionInv, FilesOwned, Accepting
  <2>5. \A s \in Requests : Active(s)' /\ request'[s].step \in {"reserve", "media"}
                              => request'[s].file = NoFile
    BY <1>2 DEF SubmissionInv, FilesOwned
  <2>6. \A f \in files' : f.id \in 1 .. stored
    BY DEF SubmissionInv, FilesOwned
  <2> QED
    BY <2>1, <2>2, <2>3, <2>4, <2>5, <2>6 DEF SubmissionInv, FilesOwned
<1>11. LeaseHasMedia'
  <2> SUFFICES ASSUME NEW s \in Requests, Leased(s)', job'[request'[s].key].held,
                      request'[s].step = "accept", request'[s].input.content \in Uploads
               PROVE  /\ [id |-> request'[s].file, input |-> request'[s].input] \in files'
                      /\ request'[s].file \notin old'
    BY DEF LeaseHasMedia
  <2>1. Active(s)' /\ Leased(s)
    BY <1>8 DEF Intaking
  <2>2. /\ request'[s].file = request[s].file /\ request'[s].input = request[s].input
        /\ request[s].step = "accept" /\ job[request[s].key].held
    BY <1>1, <1>2, <1>8, <2>1
  <2> DEFINE f == [id |-> request[s].file, input |-> request[s].input]
  <2>3. f \in files /\ request[s].file \notin old
    BY <2>1, <2>2 DEF SubmissionInv, LeaseHasMedia
  <2>4. f.id = request[s].file
    OBVIOUS
  <2> HIDE DEF f
  <2>5. f.id # job[k].file
    BY <2>1, <2>2, <2>3, <2>4
       DEF SubmissionInv, FilesOwned, Accepting, Leased, Intaking, NoFile
  <2>6. f \in files'
    BY <2>3, <2>5
  <2> QED
    BY <2>2, <2>3, <2>6 DEF f
<1>12. AcceptedIsReserved'
  BY <1>1 DEF SubmissionInv, AcceptedIsReserved
<1>13. AcceptedHasMedia'
  <2> SUFFICES ASSUME NEW l \in Keys, l # k, job[l].ready, first[l].content \in Uploads
               PROVE  [id |-> job[l].file, input |-> first[l]] \in files'
    BY <1>1 DEF AcceptedHasMedia
  <2> DEFINE f == [id |-> job[l].file, input |-> first[l]]
  <2>1. f \in files /\ f.id = job[l].file
    BY DEF SubmissionInv, AcceptedHasMedia
  <2> HIDE DEF f
  <2>2. f.id # job[k].file
    BY <2>1 DEF SubmissionInv, FilesOwned, NoFile
  <2>3. f \in files'
    BY <2>1, <2>2
  <2> QED
    BY <2>3 DEF f
<1> QED
  BY <1>3, <1>4, <1>5, <1>6, <1>7, <1>9, <1>10, <1>11, <1>12, <1>13 DEF SubmissionInv

LEMMA SettleStep ==
    ASSUME SubmissionInv, NEW k \in Keys, Settle(k)
    PROVE  SubmissionInv'
<1> DEFINE doc == [job[k] EXCEPT !.status = "settled"]
<1>1. /\ job' = [job EXCEPT ![k] = doc] /\ accepted' = [accepted EXCEPT ![k] = accepted[k]]
      /\ closing' = closing \cup {k} /\ job[k].status = "queued" /\ job[k].ready
      /\ UNCHANGED <<first, reserved, lapsed, request, stored, files, old>>
      /\ submits' \in 0 .. MaxSubmits /\ faults' \in 0 .. MaxFaults
  BY DEF Settle, media, SubmissionInv, TypeOK
<1>2. job[k] \in Document /\ accepted[k] \in 0 .. 1 /\ ~job[k].held
      /\ job[k].token = NoRequest
  BY <1>1 DEF SubmissionInv, TypeOK, DocumentsSound, TokensLeased
<1>3. doc \in Document /\ doc.status = "settled" /\ doc.ready /\ doc.file = job[k].file
      /\ doc.fingerprint = job[k].fingerprint /\ doc.token = NoRequest /\ ~doc.held
  BY <1>1, <1>2 DEF Document
<1> HIDE DEF doc
<1>4. doc.file # NoFile =>
        /\ doc.file <= stored
        /\ \A l \in Keys : l # k => job[l].file # doc.file
        /\ \A s \in Requests : Accepting(s)' => request[s].file # doc.file
  BY <1>1, <1>3 DEF SubmissionInv, FilesOwned, Accepting, Active
<1>5. first[k].content \in Uploads => [id |-> doc.file, input |-> first[k]] \in files'
  BY <1>1, <1>3 DEF SubmissionInv, AcceptedHasMedia
<1>6. request' \in [Requests -> Request \cup {Idle}] /\ \A s \in Requests : Quieter(s)
  BY <1>1 DEF SubmissionInv, TypeOK, Quieter
<1> QED
  BY <1>1, <1>2, <1>3, <1>4, <1>5, <1>6, DocumentStep

LEMMA DeleteJobStep ==
    ASSUME SubmissionInv, NEW k \in Keys, DeleteJob(k)
    PROVE  SubmissionInv'
<1> DEFINE doc == [job[k] EXCEPT !.status = "deleting", !.ready = FALSE,
                                 !.token = NoRequest, !.held = FALSE]
<1>1. /\ job' = [job EXCEPT ![k] = doc] /\ accepted' = [accepted EXCEPT ![k] = accepted[k]]
      /\ closing' = closing \cup {k} /\ job[k].status \in {"queued", "settled"}
      /\ UNCHANGED <<first, reserved, lapsed, request, stored, files, old>>
      /\ submits' \in 0 .. MaxSubmits /\ faults' \in 0 .. MaxFaults
  BY DEF DeleteJob, media, SubmissionInv, TypeOK
<1>2. job[k] \in Document /\ accepted[k] \in 0 .. 1
  BY DEF SubmissionInv, TypeOK, DocumentsSound
<1>3. doc \in Document /\ doc.status = "deleting" /\ ~doc.ready /\ doc.file = job[k].file
      /\ doc.fingerprint = job[k].fingerprint /\ doc.token = NoRequest /\ ~doc.held
  BY <1>2 DEF Document
<1> HIDE DEF doc
<1>4. doc.file # NoFile =>
        /\ doc.file <= stored
        /\ \A l \in Keys : l # k => job[l].file # doc.file
        /\ \A s \in Requests : Accepting(s)' => request[s].file # doc.file
  BY <1>1, <1>3 DEF SubmissionInv, FilesOwned, Accepting, Active
<1>5. request' \in [Requests -> Request \cup {Idle}] /\ \A s \in Requests : Quieter(s)
  BY <1>1 DEF SubmissionInv, TypeOK, Quieter
<1> QED
  BY <1>1, <1>2, <1>3, <1>4, <1>5, DocumentStep

\* Erasing removes the original of this job, and nobody else's.
LEMMA EraseJobStep ==
    ASSUME SubmissionInv, NEW k \in Keys, EraseJob(k)
    PROVE  SubmissionInv'
<1> DEFINE doc == [NoDocument EXCEPT !.status = "deleted"]
<1>0. NoDocument \in Document /\ ~NoDocument.ready /\ NoDocument.file = NoFile
      /\ NoDocument.token = NoRequest /\ ~NoDocument.held
  BY SubmissionAssumption DEF Document, NoDocument, NoFile
<1>1. /\ job' = [job EXCEPT ![k] = doc] /\ accepted' = [accepted EXCEPT ![k] = accepted[k]]
      /\ job[k].status = "deleting" /\ files' = {f \in files : f.id # job[k].file}
      /\ UNCHANGED <<first, reserved, lapsed, closing, request, stored, old>>
      /\ submits' \in 0 .. MaxSubmits /\ faults' \in 0 .. MaxFaults
  BY DEF EraseJob, SubmissionInv, TypeOK
<1>2. accepted[k] \in 0 .. 1
  BY DEF SubmissionInv, TypeOK, DocumentsSound
<1>3. doc \in Document /\ doc.status = "deleted" /\ ~doc.ready /\ doc.file = NoFile
      /\ doc.token = NoRequest /\ ~doc.held
  BY <1>0 DEF Document
<1> HIDE DEF doc
<1>4. request' \in [Requests -> Request \cup {Idle}] /\ \A s \in Requests : Quieter(s)
  BY <1>1 DEF SubmissionInv, TypeOK, Quieter
<1> QED
  BY <1>1, <1>2, <1>3, <1>4, DocumentStep

LEMMA LeaseEndsStep ==
    ASSUME SubmissionInv, NEW k \in Keys, LeaseEnds(k)
    PROVE  SubmissionInv'
<1> DEFINE doc == [job[k] EXCEPT !.held = FALSE]
<1>1. /\ job' = [job EXCEPT ![k] = doc] /\ accepted' = [accepted EXCEPT ![k] = accepted[k]]
      /\ UNCHANGED <<first, reserved, lapsed, closing, request, stored, files, old>>
      /\ submits' \in 0 .. MaxSubmits /\ faults' \in 0 .. MaxFaults /\ job[k].held
  BY DEF LeaseEnds, media, SubmissionInv, TypeOK
<1>2. /\ job[k] \in Document /\ accepted[k] \in 0 .. 1
      /\ job[k].status = "queued" /\ ~job[k].ready /\ job[k].file = NoFile /\ accepted[k] = 0
  BY <1>1 DEF SubmissionInv, TypeOK, DocumentsSound, TokensLeased, Past
<1>3. doc \in Document /\ doc.status = "queued" /\ ~doc.ready /\ doc.file = NoFile
      /\ doc.fingerprint = job[k].fingerprint /\ doc.token = job[k].token /\ ~doc.held
  BY <1>2 DEF Document
<1> HIDE DEF doc
<1>4. k \notin closing
  BY <1>2 DEF SubmissionInv, ClosingPast, Past
<1>5. request' \in [Requests -> Request \cup {Idle}] /\ \A s \in Requests : Quieter(s)
  BY <1>1 DEF SubmissionInv, TypeOK, Quieter
<1>6. ~Past(k)
  BY <1>2 DEF Past
<1> QED
  BY <1>1, <1>2, <1>3, <1>4, <1>5, <1>6, DocumentStep

\* The catch block: the lease may be of another intake, or the job accepted.
LEMMA HandleErrorStep ==
    ASSUME SubmissionInv, NEW r \in Requests, HandleError(r)
    PROVE  SubmissionInv'
<1> DEFINE k == request[r].key
           mine == job[k].status # "deleted" /\ ~job[k].ready /\ job[k].token = r
           doc == [job[k] EXCEPT !.token = NoRequest, !.held = FALSE]
<1>1. /\ Active(r) /\ Respond(r)
      /\ UNCHANGED <<first, accepted, reserved, lapsed, closing, stored, files, old>>
      /\ submits' \in 0 .. MaxSubmits /\ faults' \in 0 .. MaxFaults
  BY DEF HandleError, AfterError, Active, media, SubmissionInv, TypeOK
<1>a. CASE ~mine
  <2>1. UNCHANGED job
    BY <1>a DEF HandleError
  <2> QED
    BY <1>1, <2>1, EndStep
<1>b. CASE mine
  <2>1. /\ k \in Keys /\ job[k] \in Document
        /\ job' = [job EXCEPT ![k] = doc] /\ accepted' = [accepted EXCEPT ![k] = accepted[k]]
    BY <1>1, <1>b, RequestType DEF HandleError, GiveBack, SubmissionInv, TypeOK
  <2>2. /\ accepted[k] \in 0 .. 1 /\ job[k].status = "queued" /\ job[k].file = NoFile
        /\ accepted[k] = 0
    BY <1>b, <2>1, SubmissionAssumption
       DEF SubmissionInv, TypeOK, DocumentsSound, TokensLeased, Past
  <2>3. doc \in Document /\ doc.status = "queued" /\ ~doc.ready /\ doc.file = NoFile
        /\ doc.fingerprint = job[k].fingerprint /\ doc.token = NoRequest /\ ~doc.held
    BY <1>b, <2>1, <2>2 DEF Document
  <2> HIDE DEF doc
  <2>4. k \notin closing /\ ~Past(k)
    BY <2>2 DEF SubmissionInv, ClosingPast, Past
  <2>5. request' \in [Requests -> Request \cup {Idle}] /\ \A s \in Requests : Quieter(s)
    BY <1>1 DEF SubmissionInv, TypeOK, Quieter, Respond
  <2> HIDE DEF k
  <2> QED
    BY <1>1, <2>1, <2>2, <2>3, <2>4, <2>5, DocumentStep
<1> QED
  BY <1>a, <1>b

\* The write that makes an intent runnable: its lease still holds.
LEMMA MakeReadyStep ==
    ASSUME SubmissionInv, NEW r \in Requests, Active(r), request[r].step = "accept",
           MakeReady(r), Respond(r) \/ Step(r, "error"),
           UNCHANGED <<first, reserved, lapsed, closing, stored, files, old>>,
           submits' \in 0 .. MaxSubmits, faults' \in 0 .. MaxFaults
    PROVE  SubmissionInv'
<1> DEFINE k == request[r].key
           doc == [job[k] EXCEPT !.ready = TRUE, !.file = request[r].file,
                                 !.token = NoRequest, !.held = FALSE]
           n == 1
<1>1. /\ k \in Keys /\ job[k] \in Document /\ request[r] \in Request
      /\ job[k].status = "queued" /\ ~job[k].ready /\ job[k].token = r /\ job[k].held
  BY RequestType DEF MakeReady, Owned
<1>2. Leased(r) /\ k \in reserved \cup lapsed /\ request[r].input = first[k]
  BY <1>1 DEF Leased, Intaking, SubmissionInv, LeaseReserved, InputsSame
<1>3. accepted[k] = 0 /\ accepted' = [accepted EXCEPT ![k] = n] /\ n \in 0 .. 1
  <2>1. accepted[k] = 0
    BY <1>1 DEF SubmissionInv, TypeOK, DocumentsSound, Past
  <2> QED
    BY <2>1 DEF MakeReady
<1>4. job' = [job EXCEPT ![k] = doc]
  BY DEF MakeReady
<1>5. doc \in Document /\ doc.status = "queued" /\ doc.ready /\ doc.file = request[r].file
      /\ doc.fingerprint = job[k].fingerprint /\ doc.token = NoRequest /\ ~doc.held
  BY <1>1 DEF Document, Request
<1> HIDE DEF doc
<1>6. request' \in [Requests -> Request \cup {Idle}] /\ \A s \in Requests : Quieter(s)
  <2>1. CASE Respond(r)
    BY <2>1 DEF SubmissionInv, TypeOK, Quieter, Respond
  <2>2. CASE Step(r, "error")
    <3>1. [request[r] EXCEPT !.step = "error"] \in Request
      BY <1>1 DEF Request
    <3> QED
      BY <2>2, <3>1 DEF SubmissionInv, TypeOK, Quieter, Step
  <2> QED
    BY <2>1, <2>2
<1>7. \A s \in Requests : Accepting(s)' =>
        s # r /\ Accepting(s) /\ request'[s].file = request[s].file
  <2>1. ~Accepting(r)'
    <3>1. CASE Respond(r)
      BY <3>1 DEF Respond, Accepting, Active, SubmissionInv, TypeOK
    <3>2. CASE Step(r, "error")
      <4>1. request'[r] = [request[r] EXCEPT !.step = "error"]
        BY <3>2 DEF Step, SubmissionInv, TypeOK
      <4>2. request'[r].step = "error"
        BY <1>1, <4>1 DEF Request
      <4> QED
        BY <4>2 DEF Accepting
    <3> QED
      BY <3>1, <3>2
  <2>2. \A s \in Requests : Accepting(s)' =>
          Accepting(s) /\ request'[s].file = request[s].file
    BY <1>6, QuieterRequest DEF Accepting
  <2> QED
    BY <2>1, <2>2
<1>8. doc.file # NoFile =>
        /\ doc.file <= stored
        /\ \A l \in Keys : l # k => job[l].file # doc.file
        /\ \A s \in Requests : Accepting(s)' => request[s].file # doc.file
  <2>1. doc.file # NoFile => Accepting(r)
    BY <1>5 DEF Accepting
  <2> QED
    BY <1>5, <1>7, <2>1 DEF SubmissionInv, FilesOwned
<1>9. first[k].content \in Uploads => [id |-> doc.file, input |-> first[k]] \in files'
  BY <1>1, <1>2, <1>5 DEF SubmissionInv, LeaseHasMedia
<1>10. k \notin closing /\ ~Past(k)
  BY <1>1 DEF SubmissionInv, ClosingPast, Past
<1> HIDE DEF k, n
<1>11. /\ files' \subseteq files /\ closing' \subseteq closing \cup {k} /\ k \notin closing'
       /\ \A f \in files \ files' : f.id = job[k].file
       /\ job[k].status # "none" /\ doc.status # "none" /\ doc.status # "settled"
       /\ doc.status \notin {"deleting", "deleted"} /\ job[k].status # "deleted"
       /\ doc.token \in {job[k].token, NoRequest}
  BY <1>1, <1>5, <1>10
<1>12. UNCHANGED <<first, reserved, lapsed, stored, old>>
  OBVIOUS
<1> QED
  BY <1>1, <1>2, <1>3, <1>4, <1>5, <1>6, <1>8, <1>9, <1>10, <1>11, <1>12, DocumentStep

LEMMA AcceptStep ==
    ASSUME SubmissionInv, NEW r \in Requests, Accept(r) \/ AcceptUnknown(r)
    PROVE  SubmissionInv'
<1>1. /\ Active(r) /\ request[r].step = "accept"
      /\ UNCHANGED <<first, reserved, lapsed, closing, stored, files, old>>
      /\ submits' \in 0 .. MaxSubmits /\ faults' \in 0 .. MaxFaults
  BY SubmissionAssumption DEF Accept, AcceptUnknown, Fault, Active, media, SubmissionInv, TypeOK
<1>2. \/ MakeReady(r) /\ (Respond(r) \/ Step(r, "error"))
      \/ Step(r, "error") /\ UNCHANGED <<job, accepted>>
  BY DEF Accept, AcceptUnknown
<1> QED
  BY <1>1, <1>2, MakeReadyStep, EndStep

----------------------------------------------------------------------------
(* Steps that change reservations or originals *)

LEMMA ReserveStep ==
    ASSUME SubmissionInv, NEW r \in Requests, Reserve(r)
    PROVE  SubmissionInv'
<1> DEFINE k == request[r].key
<1>1. /\ Active(r) /\ request[r].step = "reserve" /\ k \in Keys
      /\ UNCHANGED <<job, first, accepted, closing, stored, files, old, submits, faults>>
      /\ submits' \in 0 .. MaxSubmits /\ faults' \in 0 .. MaxFaults
  BY RequestType DEF Reserve, Active, media, SubmissionInv, TypeOK
<1>a. CASE Step(r, "error") /\ UNCHANGED <<reserved, lapsed>>
  BY <1>1, <1>a, EndStep
<1>b. CASE /\ reserved' = reserved \cup {k} /\ lapsed' = lapsed \ {k}
           /\ request' = [request EXCEPT ![r].step = "media"]
  <2>1. \A s \in Requests :
          /\ Active(s)' <=> Active(s)
          /\ Active(s) => /\ request'[s].key = request[s].key
                          /\ request'[s].input = request[s].input
                          /\ request'[s].file = request[s].file
                          /\ request'[s].step = IF s = r THEN "media" ELSE request[s].step
    BY <1>1, <1>b DEF SubmissionInv, TypeOK, Active, Request, Idle
  <2>2. TypeOK'
    BY <1>1, <1>b DEF SubmissionInv, TypeOK, Active, Request, Idle
  <2>3. DocumentsSound' /\ TokensLeased' /\ AcceptedHasMedia'
    BY <1>1 DEF SubmissionInv, DocumentsSound, Past, TokensLeased, AcceptedHasMedia
  <2>4. ClosingPast'
    BY <1>1, <2>1 DEF SubmissionInv, ClosingPast, Past
  <2>5. InputsSame'
    BY <1>1, <2>1 DEF SubmissionInv, InputsSame
  <2>6. LeaseReserved'
    BY <1>1, <1>b, <2>1 DEF SubmissionInv, LeaseReserved, Leased, Intaking
  <2>7. FilesOwned' /\ LeaseHasMedia'
    BY <1>1, <2>1 DEF SubmissionInv, FilesOwned, Accepting, LeaseHasMedia, Leased, Intaking
  <2>8. AcceptedIsReserved'
    BY <1>1, <1>b DEF SubmissionInv, AcceptedIsReserved
  <2> QED
    BY <2>2, <2>3, <2>4, <2>5, <2>6, <2>7, <2>8 DEF SubmissionInv
<1> QED
  BY <1>a, <1>b DEF Reserve, Step

\* The intake goes on to its last write with no file, or with one just stored.
LEMMA StoreMediaStep ==
    ASSUME SubmissionInv, NEW r \in Requests, StoreMedia(r)
    PROVE  SubmissionInv'
<1> DEFINE k == request[r].key
           input == request[r].input
<1>1. /\ Active(r) /\ request[r].step = "media" /\ k \in Keys /\ input \in Input
      /\ request[r].file = NoFile
      /\ UNCHANGED <<job, first, accepted, reserved, lapsed, closing, old, submits, faults>>
      /\ submits' \in 0 .. MaxSubmits /\ faults' \in 0 .. MaxFaults
  BY RequestType DEF StoreMedia, Active, SubmissionInv, TypeOK, FilesOwned
<1>2. DocumentsSound' /\ TokensLeased' /\ AcceptedIsReserved'
  BY <1>1 DEF SubmissionInv, DocumentsSound, Past, TokensLeased, AcceptedIsReserved
<1>a. CASE Step(r, "error") /\ UNCHANGED <<stored, files>>
  BY <1>1, <1>a, EndStep
<1>b. CASE /\ input.content \in Links /\ UNCHANGED <<stored, files>>
           /\ request' = [request EXCEPT ![r].step = "accept"]
  <2>1. \A s \in Requests :
          /\ Active(s)' <=> Active(s)
          /\ Active(s) => /\ request'[s].key = request[s].key
                          /\ request'[s].input = request[s].input
                          /\ request'[s].file = request[s].file
                          /\ request'[s].step = IF s = r THEN "accept" ELSE request[s].step
    BY <1>1, <1>b DEF SubmissionInv, TypeOK, Active, Request, Idle
  <2>2. TypeOK'
    BY <1>1, <1>b DEF SubmissionInv, TypeOK, Active, Request, Idle
  <2>3. ClosingPast' /\ InputsSame'
    <3>1. ClosingPast'
      BY <1>1, <2>1 DEF SubmissionInv, ClosingPast, Past
    <3>2. InputsSame'
      BY <1>1, <2>1 DEF SubmissionInv, InputsSame
    <3> QED
      BY <3>1, <3>2
  <2>4. LeaseReserved'
    BY <1>1, <2>1 DEF SubmissionInv, LeaseReserved, Leased, Intaking
  <2>5. FilesOwned'
    BY <1>1, <1>b, <2>1 DEF SubmissionInv, FilesOwned, Accepting
  <2>6. LeaseHasMedia'
    BY <1>1, <1>b, <2>1, SubmissionAssumption
       DEF SubmissionInv, LeaseHasMedia, Leased, Intaking
  <2>7. AcceptedHasMedia'
    BY <1>1, <1>b DEF SubmissionInv, AcceptedHasMedia
  <2> QED
    BY <1>2, <2>2, <2>3, <2>4, <2>5, <2>6, <2>7 DEF SubmissionInv
<1>c. CASE /\ stored < MaxFiles /\ stored' = stored + 1
           /\ files' = files \cup {[id |-> stored + 1, input |-> input]}
           /\ request' = [request EXCEPT ![r].step = "accept", ![r].file = stored + 1]
  <2>1. \A s \in Requests :
          /\ Active(s)' <=> Active(s)
          /\ Active(s) => /\ request'[s].key = request[s].key
                          /\ request'[s].input = request[s].input
                          /\ request'[s].file = IF s = r THEN stored + 1 ELSE request[s].file
                          /\ request'[s].step = IF s = r THEN "accept" ELSE request[s].step
    BY <1>1, <1>c DEF SubmissionInv, TypeOK, Active, Request, Idle
  <2>2. TypeOK'
    <3> DEFINE q == [request[r] EXCEPT !.step = "accept", !.file = stored + 1]
    <3>1. request[r] \in Request /\ stored + 1 \in 0 .. MaxFiles /\ stored' \in 0 .. MaxFiles
      BY <1>1, <1>c, RequestType, SubmissionAssumption DEF SubmissionInv, TypeOK
    <3>2. q \in Request /\ request' = [request EXCEPT ![r] = q]
      BY <1>c, <3>1 DEF Request
    <3> HIDE DEF q
    <3>3. request' \in [Requests -> Request \cup {Idle}]
      BY <3>2 DEF SubmissionInv, TypeOK
    <3>4. (\A f \in files' : f.id \in 1 .. stored' /\ f.input \in Input)
          /\ old \subseteq 1 .. stored'
      BY <1>1, <1>c, <3>1 DEF SubmissionInv, TypeOK
    <3> QED
      BY <1>1, <3>1, <3>3, <3>4 DEF SubmissionInv, TypeOK
  <2>3. ClosingPast' /\ InputsSame'
    <3>1. ClosingPast'
      BY <1>1, <2>1 DEF SubmissionInv, ClosingPast, Past
    <3>2. InputsSame'
      BY <1>1, <2>1 DEF SubmissionInv, InputsSame
    <3> QED
      BY <3>1, <3>2
  <2>4. LeaseReserved'
    BY <1>1, <2>1 DEF SubmissionInv, LeaseReserved, Leased, Intaking
  <2> DEFINE new == [id |-> stored + 1, input |-> input]
  <2>5. /\ stored' = stored + 1 /\ files' = files \cup {new}
        /\ job' = job /\ old' = old
    BY <1>1, <1>c
  <2>6. new.id = stored + 1
    OBVIOUS
  <2> HIDE DEF new
  <2>7. FilesOwned'
    <3>1. stored \in Nat /\ \A l \in Keys : job[l].file \in Nat /\ job[l].file <= stored
      BY SubmissionAssumption DEF SubmissionInv, TypeOK, FilesOwned, Document
    <3>2. \A s \in Requests : Accepting(s)' =>
            IF s = r THEN request'[s].file = stored + 1
            ELSE Accepting(s) /\ request'[s].file = request[s].file
      BY <1>1, <2>1 DEF Accepting
    <3>3. \A s \in Requests : Accepting(s) => request[s].file \in Nat /\ request[s].file <= stored
      BY RequestType, SubmissionAssumption DEF SubmissionInv, FilesOwned, Accepting, Request
    <3>4. \A f \in files' : f.id \in 1 .. stored'
      BY <2>5, <2>6, <3>1 DEF SubmissionInv, FilesOwned
    <3>5. \A s \in Requests : Active(s)' /\ request'[s].step \in {"reserve", "media"}
                                => request'[s].file = NoFile
      BY <2>1 DEF SubmissionInv, FilesOwned
    <3>6. \A s \in Requests : Accepting(s)' =>
            /\ request'[s].file <= stored'
            /\ \A l \in Keys : job'[l].file # request'[s].file
            /\ \A t \in Requests : t # s /\ Accepting(t)' => request'[t].file # request'[s].file
      <4> SUFFICES ASSUME NEW s \in Requests, Accepting(s)'
                   PROVE  /\ request'[s].file <= stored'
                          /\ \A l \in Keys : job'[l].file # request'[s].file
                          /\ \A t \in Requests : t # s /\ Accepting(t)'
                                                   => request'[t].file # request'[s].file
        OBVIOUS
      <4>1. CASE s = r
        BY <2>5, <3>1, <3>2, <3>3, <4>1
      <4>2. CASE s # r
        <5>1. request'[s].file = request[s].file /\ Accepting(s)
          BY <3>2, <4>2
        <5>2. \A l \in Keys : job[l].file # request[s].file
          BY <5>1 DEF SubmissionInv, FilesOwned
        <5>3. \A t \in Requests : t # s /\ Accepting(t) => request[t].file # request[s].file
          BY <5>1 DEF SubmissionInv, FilesOwned
        <5> QED
          BY <2>5, <3>1, <3>2, <3>3, <4>2, <5>1, <5>2, <5>3
      <4> QED
        BY <4>1, <4>2
    <3>7. \A l \in Keys : job'[l].file <= stored'
      BY <2>5, <3>1
    <3>8. \A l, m \in Keys : l # m /\ job'[l].file # NoFile => job'[l].file # job'[m].file
      BY <1>1 DEF SubmissionInv, FilesOwned
    <3> QED
      BY <3>4, <3>5, <3>6, <3>7, <3>8 DEF FilesOwned
  <2>8. LeaseHasMedia'
    <3>1. stored + 1 \notin old
      BY DEF SubmissionInv, TypeOK
    <3> SUFFICES ASSUME NEW s \in Requests, Leased(s)', job'[request'[s].key].held,
                        request'[s].step = "accept", request'[s].input.content \in Uploads
                 PROVE  /\ [id |-> request'[s].file, input |-> request'[s].input] \in files'
                        /\ request'[s].file \notin old'
      BY DEF LeaseHasMedia
    <3>2. Active(s)
      BY <2>1 DEF Leased, Intaking
    <3>3. CASE s = r
      <4>1. request'[s].file = stored + 1 /\ request'[s].input = input
        BY <2>1, <3>2, <3>3
      <4> QED
        BY <2>5, <3>1, <4>1 DEF new
    <3>4. CASE s # r
      <4>1. Leased(s) /\ request'[s] = request[s]
        BY <1>1, <1>c, <2>1, <3>2, <3>4 DEF Leased, Intaking, SubmissionInv, TypeOK
      <4> QED
        BY <2>5, <4>1 DEF SubmissionInv, LeaseHasMedia
    <3> QED
      BY <3>3, <3>4
  <2>9. AcceptedHasMedia'
    BY <1>1, <1>c DEF SubmissionInv, AcceptedHasMedia
  <2> QED
    BY <1>2, <2>2, <2>3, <2>4, <2>7, <2>8, <2>9 DEF SubmissionInv
<1> QED
  BY <1>1, <1>a, <1>b, <1>c DEF StoreMedia, Step

\* Only a job that nobody runs any more gives its reservation back.
LEMMA FinishJobStep ==
    ASSUME SubmissionInv, NEW k \in Keys, FinishJob(k)
    PROVE  SubmissionInv'
<1>1. /\ Past(k) /\ reserved' = reserved \ {k} /\ closing' = closing \ {k}
      /\ UNCHANGED <<job, first, accepted, lapsed, request, stored, files, old, submits, faults>>
  BY DEF FinishJob, media, SubmissionInv, ClosingPast
<1>2. TypeOK' /\ DocumentsSound' /\ TokensLeased' /\ AcceptedHasMedia'
  BY <1>1 DEF SubmissionInv, TypeOK, DocumentsSound, Past, TokensLeased, AcceptedHasMedia
<1>3. ClosingPast' /\ InputsSame' /\ FilesOwned' /\ LeaseHasMedia'
  BY <1>1 DEF SubmissionInv, ClosingPast, Past, InputsSame, FilesOwned, Accepting,
              LeaseHasMedia, Leased, Intaking, Active
<1>4. LeaseReserved'
  BY <1>1, RequestType, SubmissionAssumption
     DEF SubmissionInv, TokensLeased, LeaseReserved, Leased, Intaking, Active, Past
<1>5. AcceptedIsReserved'
  BY <1>1 DEF SubmissionInv, AcceptedIsReserved, Past
<1> QED
  BY <1>2, <1>3, <1>4, <1>5 DEF SubmissionInv

LEMMA ReservationExpiresStep ==
    ASSUME SubmissionInv, NEW k \in Keys, ReservationExpires(k)
    PROVE  SubmissionInv'
<1>1. /\ reserved' = reserved \ {k} /\ lapsed' = lapsed \cup {k}
      /\ UNCHANGED <<job, first, accepted, closing, request, stored, files, old, submits>>
      /\ faults' \in 0 .. MaxFaults
  BY SubmissionAssumption DEF ReservationExpires, Fault, media, SubmissionInv, TypeOK
<1>2. TypeOK' /\ DocumentsSound' /\ TokensLeased' /\ AcceptedHasMedia'
  BY <1>1 DEF SubmissionInv, TypeOK, DocumentsSound, Past, TokensLeased, AcceptedHasMedia
<1>3. ClosingPast' /\ InputsSame' /\ FilesOwned' /\ LeaseHasMedia'
  BY <1>1 DEF SubmissionInv, ClosingPast, Past, InputsSame, FilesOwned, Accepting,
              LeaseHasMedia, Leased, Intaking, Active
<1>4. LeaseReserved' /\ AcceptedIsReserved'
  BY <1>1 DEF SubmissionInv, LeaseReserved, Leased, Intaking, Active, AcceptedIsReserved
<1> QED
  BY <1>2, <1>3, <1>4 DEF SubmissionInv

\* No original grows old while the lease of the intake that stored it holds.
LEMMA GrowsOldStep ==
    ASSUME SubmissionInv, NEW f \in 1 .. stored, GrowsOld(f)
    PROVE  SubmissionInv'
<1>1. /\ old' = old \cup {f}
      /\ \A r \in Requests :
            Active(r) /\ request[r].file = f
               => ~(job[request[r].key].token = r /\ job[request[r].key].held)
      /\ UNCHANGED <<job, first, accepted, reserved, lapsed, closing, request, stored, files,
                     submits, faults>>
  BY DEF GrowsOld, Active
<1>2. TypeOK' /\ DocumentsSound' /\ TokensLeased' /\ AcceptedHasMedia' /\ AcceptedIsReserved'
  BY <1>1 DEF SubmissionInv, TypeOK, DocumentsSound, Past, TokensLeased, AcceptedHasMedia,
              AcceptedIsReserved
<1>3. ClosingPast' /\ InputsSame' /\ FilesOwned' /\ LeaseReserved'
  BY <1>1 DEF SubmissionInv, ClosingPast, Past, InputsSame, FilesOwned, Accepting,
              LeaseReserved, Leased, Intaking, Active
<1>4. LeaseHasMedia'
  BY <1>1 DEF SubmissionInv, LeaseHasMedia, Leased, Intaking, Active
<1> QED
  BY <1>2, <1>3, <1>4 DEF SubmissionInv

\* What is collected is no job's, and too old for an intake.
LEMMA CollectOrphanStep ==
    ASSUME SubmissionInv, NEW f \in 1 .. stored, CollectOrphan(f)
    PROVE  SubmissionInv'
<1>1. /\ f \in old /\ files' = {g \in files : g.id # f}
      /\ \A k \in Keys : job[k].file # f
      /\ UNCHANGED <<job, first, accepted, reserved, lapsed, closing, request, stored, old,
                     submits, faults>>
  BY DEF CollectOrphan
<1>2. TypeOK' /\ DocumentsSound' /\ TokensLeased' /\ AcceptedIsReserved'
  BY <1>1 DEF SubmissionInv, TypeOK, DocumentsSound, Past, TokensLeased, AcceptedIsReserved
<1>3. ClosingPast' /\ InputsSame' /\ FilesOwned' /\ LeaseReserved'
  BY <1>1 DEF SubmissionInv, ClosingPast, Past, InputsSame, FilesOwned, Accepting,
              LeaseReserved, Leased, Intaking, Active
<1>4. LeaseHasMedia'
  BY <1>1 DEF SubmissionInv, LeaseHasMedia, Leased, Intaking, Active
<1>5. AcceptedHasMedia'
  BY <1>1 DEF SubmissionInv, AcceptedHasMedia
<1> QED
  BY <1>2, <1>3, <1>4, <1>5 DEF SubmissionInv

----------------------------------------------------------------------------
(* The theorems *)

LEMMA SubmissionInit == Init => SubmissionInv
<1> SUFFICES ASSUME Init PROVE SubmissionInv
  OBVIOUS
<1>1. NoDocument \in Document /\ ~NoDocument.held /\ NoDocument.token = NoRequest
      /\ NoDocument.status = "none" /\ NoDocument.file = NoFile /\ ~NoDocument.ready
  BY SubmissionAssumption DEF NoDocument, Document, NoFile
<1>2. TypeOK
  BY <1>1, SubmissionAssumption DEF Init, TypeOK
<1>3. /\ \A k \in Keys : job[k] = NoDocument /\ accepted[k] = 0
      /\ \A r \in Requests : ~Active(r)
      /\ files = {} /\ closing = {} /\ stored = 0
  BY DEF Init, Active
<1>4. DocumentsSound /\ TokensLeased /\ AcceptedIsReserved /\ AcceptedHasMedia
  BY <1>1, <1>3 DEF DocumentsSound, TokensLeased, AcceptedIsReserved, AcceptedHasMedia
<1>5. ClosingPast /\ InputsSame /\ FilesOwned
  BY <1>1, <1>3 DEF ClosingPast, InputsSame, FilesOwned, Accepting, NoFile
<1>6. LeaseReserved /\ LeaseHasMedia
  BY <1>3 DEF LeaseReserved, LeaseHasMedia, Leased, Intaking
<1> QED
  BY <1>2, <1>4, <1>5, <1>6 DEF SubmissionInv

LEMMA SubmissionStep ==
    ASSUME SubmissionInv, [Next]_vars
    PROVE  SubmissionInv'
<1>1. ASSUME NEW r \in Requests,
             (\E k \in Keys : Submit(r, k)) \/ (\E k, p \in Keys : Retry(r, p, k))
      PROVE  SubmissionInv'
  BY <1>1, SubmitStep, RetryStep
<1>2. ASSUME NEW r \in Requests, Intake(r)
      PROVE  SubmissionInv'
  <2>1. CASE AnswerConflict(r)
    BY <2>1, EndStep DEF AnswerConflict, Active, media, SubmissionInv, TypeOK
  <2> QED
    BY <1>2, <2>1, CloseFirstStep, UpsertStep, TakeLeaseStep, ReserveStep, StoreMediaStep,
       AcceptStep, HandleErrorStep DEF Intake
<1>3. ASSUME NEW r \in Requests, AcceptUnknown(r) \/ IntakeFails(r)
      PROVE  SubmissionInv'
  <2>1. CASE IntakeFails(r)
    <3>1. /\ Active(r) /\ Step(r, "error")
          /\ UNCHANGED <<job, first, accepted, reserved, lapsed, closing, stored, files, old>>
          /\ submits' \in 0 .. MaxSubmits /\ faults' \in 0 .. MaxFaults
      BY <2>1, SubmissionAssumption DEF IntakeFails, Fault, Active, media, SubmissionInv, TypeOK
    <3> QED
      BY <3>1, EndStep
  <2> QED
    BY <1>3, <2>1, AcceptStep
<1>4. ASSUME NEW k \in Keys,
             \/ Settle(k) \/ DeleteJob(k) \/ FinishJob(k) \/ EraseJob(k)
             \/ LeaseEnds(k) \/ ReservationExpires(k)
      PROVE  SubmissionInv'
  BY <1>4, SettleStep, DeleteJobStep, FinishJobStep, EraseJobStep, LeaseEndsStep,
     ReservationExpiresStep
<1>5. ASSUME NEW f \in 1 .. stored, GrowsOld(f) \/ CollectOrphan(f)
      PROVE  SubmissionInv'
  BY <1>5, GrowsOldStep, CollectOrphanStep
<1>6. CASE Crash
  BY <1>6, CrashStep
<1>7. CASE UNCHANGED vars
  BY <1>7
     DEF vars, media, SubmissionInv, TypeOK, DocumentsSound, Past, ClosingPast, TokensLeased,
         InputsSame, LeaseReserved, FilesOwned, LeaseHasMedia, Leased, Intaking, Accepting,
         Active, AcceptedIsReserved, AcceptedHasMedia
<1> QED
  BY <1>1, <1>2, <1>3, <1>4, <1>5, <1>6, <1>7 DEF Next

\* The documents, reservations, originals and requests of jobSubmission.js stay
\* consistent, however intakes of a key overtake each other.
THEOREM SubmissionInvariant == Spec => []SubmissionInv
<1> QED
  BY SubmissionInit, SubmissionStep, PTL DEF Spec

\* However often a key is submitted, one intake at most makes it a job.
THEOREM KeyAcceptedOnce == Spec => []AcceptedOnce
<1>1. SubmissionInv => AcceptedOnce
  BY DEF SubmissionInv, DocumentsSound, AcceptedOnce
<1> QED
  BY <1>1, SubmissionInvariant, PTL

\* An accepted job that is not settled holds its reservation, or that expired.
THEOREM ReservationKept == Spec => []AcceptedIsReserved
<1>1. SubmissionInv => AcceptedIsReserved
  BY DEF SubmissionInv
<1> QED
  BY <1>1, SubmissionInvariant, PTL

\* An accepted job of a file has its own original, which no scan collected.
THEOREM OriginalKept == Spec => []AcceptedHasMedia
<1>1. SubmissionInv => AcceptedHasMedia
  BY DEF SubmissionInv
<1> QED
  BY <1>1, SubmissionInvariant, PTL

----------------------------------------------------------------------------
(* Submission implements JobIntake *)

IntakeStep == [Contract!Next]_(Contract!vars)

\* A reservation that expired and was made again counts as held.
LapsedApart == reserved \cap lapsed = {}

LEMMA LapsedStep ==
    ASSUME LapsedApart, [Next]_vars
    PROVE  LapsedApart'
<1> DEFINE Kept == lapsed' = lapsed /\ reserved' \subseteq reserved
<1>0. Kept => LapsedApart'
  BY DEF LapsedApart
<1>1. ASSUME NEW r \in Requests,
             (\E k \in Keys : Submit(r, k)) \/ (\E k, p \in Keys : Retry(r, p, k))
      PROVE  LapsedApart'
  BY <1>0, <1>1 DEF Submit, Retry
<1>2. ASSUME NEW r \in Requests, Intake(r) PROVE LapsedApart'
  <2>1. CASE Reserve(r)
    BY <2>1 DEF Reserve, LapsedApart
  <2>2. CASE CloseFirst(r)
    BY <1>0, <2>2 DEF CloseFirst
  <2>3. CASE HandleError(r)
    BY <1>0, <2>3 DEF HandleError, AfterError
  <2>4. CASE Upsert(r) \/ AnswerConflict(r) \/ TakeLease(r)
    BY <1>0, <2>4 DEF Upsert, AnswerConflict, TakeLease
  <2>5. CASE StoreMedia(r) \/ Accept(r)
    BY <1>0, <2>5 DEF StoreMedia, Accept
  <2> QED
    BY <1>2, <2>1, <2>2, <2>3, <2>4, <2>5 DEF Intake
<1>3. ASSUME NEW r \in Requests, AcceptUnknown(r) \/ IntakeFails(r) PROVE LapsedApart'
  BY <1>0, <1>3 DEF AcceptUnknown, IntakeFails
<1>4. ASSUME NEW k \in Keys, Settle(k) \/ DeleteJob(k) \/ EraseJob(k) \/ LeaseEnds(k)
      PROVE  LapsedApart'
  BY <1>0, <1>4 DEF Settle, DeleteJob, EraseJob, LeaseEnds
<1>5. ASSUME NEW k \in Keys, FinishJob(k) \/ ReservationExpires(k) PROVE LapsedApart'
  BY <1>5 DEF FinishJob, ReservationExpires, LapsedApart
<1>6. ASSUME NEW f \in 1 .. stored, GrowsOld(f) \/ CollectOrphan(f) PROVE LapsedApart'
  BY <1>0, <1>6 DEF GrowsOld, CollectOrphan
<1>7. CASE Crash \/ UNCHANGED vars
  BY <1>0, <1>7 DEF Crash, vars
<1> QED
  BY <1>1, <1>2, <1>3, <1>4, <1>5, <1>6, <1>7 DEF Next

LEMMA LapsedAlways == Spec => []LapsedApart
<1>1. Init => LapsedApart
  BY DEF Init, LapsedApart
<1> QED
  BY <1>1, LapsedStep, PTL DEF Spec

\* Nothing changes for the owner of a key.
SameJob(k) ==
    /\ PhaseOf(k)' = PhaseOf(k) /\ job'[k].fingerprint = job[k].fingerprint
    /\ (HasOriginal(k)' <=> HasOriginal(k))

SameFor(k) == SameJob(k) /\ ReservationOf(k)' = ReservationOf(k)

\* The steps of JobIntake, as they show in what is stored of one key.
Opens(k) ==
    /\ PhaseOf(k) = "none" /\ PhaseOf(k)' = "open" /\ job'[k].fingerprint \in Input
    /\ ReservationOf(k)' = ReservationOf(k) /\ (HasOriginal(k)' <=> HasOriginal(k))

Reserves(k) ==
    /\ PhaseOf(k) # "none" /\ Cardinality(reserved) < ActiveLimit
    /\ ReservationOf(k)' = "held" /\ SameJob(k)

Runs(k) ==
    /\ PhaseOf(k) = "open" /\ PhaseOf(k)' = "running" /\ ReservationOf(k) # "none"
    /\ job[k].fingerprint \in Input /\ job'[k].fingerprint = job[k].fingerprint
    /\ ~HasOriginal(k) /\ (HasOriginal(k)' <=> job[k].fingerprint.content \in Uploads)
    /\ ReservationOf(k)' = ReservationOf(k)

MovesOn(k, from, to) ==
    /\ PhaseOf(k) \in from /\ PhaseOf(k)' = to
    /\ job'[k].fingerprint = job[k].fingerprint
    /\ (HasOriginal(k)' <=> HasOriginal(k)) /\ ReservationOf(k)' = ReservationOf(k)

GivesUp(k) ==
    /\ ReservationOf(k) = "held" /\ SameJob(k)
    /\ \/ PhaseOf(k) \in {"settled", "deleting", "deleted"} /\ ReservationOf(k)' = "none"
       \/ ReservationOf(k)' = "expired"

Erases(k) ==
    /\ PhaseOf(k) = "deleting" /\ PhaseOf(k)' = "deleted"
    /\ job'[k].fingerprint = NoInput /\ ~HasOriginal(k)'
    /\ ReservationOf(k)' = ReservationOf(k)

KeyStep(k) ==
    \/ SameFor(k) \/ Opens(k) \/ Reserves(k) \/ Runs(k) \/ GivesUp(k) \/ Erases(k)
    \/ MovesOn(k, {"running"}, "settled")
    \/ MovesOn(k, {"open", "running", "settled"}, "deleting")

\* A step of what is stored of one key is one of the contract.
LEMMA ContractStep ==
    ASSUME SubmissionInv, NEW k \in Keys, \A l \in Keys \ {k} : SameFor(l), KeyStep(k)
    PROVE  IntakeStep
<1> DEFINE phase == [l \in Keys |-> PhaseOf(l)]
           made == [l \in Keys |-> job[l].fingerprint]
           place == [l \in Keys |-> ReservationOf(l)]
           originals == {l \in Keys : HasOriginal(l)}
<1>1. phase' = [phase EXCEPT ![k] = PhaseOf(k)']
  BY DEF SameFor, SameJob
<1>2. made' = [made EXCEPT ![k] = job'[k].fingerprint]
  BY DEF SameFor, SameJob
<1>3. place' = [place EXCEPT ![k] = ReservationOf(k)']
  BY DEF SameFor
<1>4. originals' = IF HasOriginal(k)' THEN originals \cup {k} ELSE originals \ {k}
  BY DEF SameFor, SameJob
<1>5. phase[k] = PhaseOf(k) /\ made[k] = job[k].fingerprint /\ place[k] = ReservationOf(k)
  OBVIOUS
<1>6. PhaseOf(k)' = PhaseOf(k) => phase' = phase
  BY <1>1, <1>5
<1>7. job'[k].fingerprint = job[k].fingerprint => made' = made
  BY <1>2, <1>5
<1>8. ReservationOf(k)' = ReservationOf(k) => place' = place
  BY <1>3, <1>5
<1>9. (HasOriginal(k)' <=> HasOriginal(k)) => originals' = originals
  BY DEF SameFor, SameJob
<1>10. Contract!Held = reserved
  BY DEF Contract!Held, ReservationOf, SubmissionInv, TypeOK
<1>11. CASE SameFor(k)
  BY <1>6, <1>7, <1>8, <1>9, <1>11 DEF SameFor, SameJob, IntakeStep, Contract!vars
<1>12. CASE Opens(k)
  <2>1. Contract!Open(k)
    BY <1>1, <1>2, <1>5, <1>8, <1>9, <1>12 DEF Opens, Contract!Open, Contract!Moves
  <2> QED
    BY <2>1 DEF IntakeStep, Contract!Next
<1>13. CASE Reserves(k)
  <2>1. Contract!Reserve(k)
    BY <1>3, <1>5, <1>6, <1>7, <1>9, <1>10, <1>13 DEF Reserves, SameJob, Contract!Reserve, Contract!Cardinality, Cardinality
  <2> QED
    BY <2>1 DEF IntakeStep, Contract!Next
<1>14. CASE Runs(k)
  <2>1. ~HasOriginal(k)
    BY <1>14 DEF Runs
  <2>2. originals' = IF made[k] \in {i \in Input : i.content \in Uploads}
                     THEN originals \cup {k} ELSE originals
    BY <1>4, <1>5, <1>14, <2>1 DEF Runs
  <2>3. Contract!Run(k)
    BY <1>1, <1>5, <1>7, <1>8, <1>14, <2>2 DEF Runs, Contract!Run, Contract!Moves
  <2> QED
    BY <2>3 DEF IntakeStep, Contract!Next
<1>15. CASE GivesUp(k)
  <2>1. Contract!Release(k) \/ Contract!Expire(k)
    BY <1>3, <1>5, <1>6, <1>7, <1>9, <1>15
    DEF GivesUp, SameJob, Contract!Release, Contract!Expire
  <2> QED
    BY <2>1 DEF IntakeStep, Contract!Next
<1>16. CASE Erases(k)
  <2>1. originals' = originals \ {k}
    BY <1>4, <1>16 DEF Erases
  <2>2. Contract!Erase(k)
    BY <1>1, <1>2, <1>5, <1>8, <1>16, <2>1 DEF Erases, Contract!Erase, Contract!Moves
  <2> QED
    BY <2>2 DEF IntakeStep, Contract!Next
<1>17. CASE MovesOn(k, {"running"}, "settled")
  <2>1. Contract!Settle(k)
    BY <1>1, <1>5, <1>7, <1>8, <1>9, <1>17 DEF MovesOn, Contract!Settle, Contract!Moves
  <2> QED
    BY <2>1 DEF IntakeStep, Contract!Next
<1>18. CASE MovesOn(k, {"open", "running", "settled"}, "deleting")
  <2>1. Contract!Delete(k)
    BY <1>1, <1>5, <1>7, <1>8, <1>9, <1>18 DEF MovesOn, Contract!Delete, Contract!Moves
  <2> QED
    BY <2>1 DEF IntakeStep, Contract!Next
<1> QED
  BY <1>11, <1>12, <1>13, <1>14, <1>15, <1>16, <1>17, <1>18 DEF KeyStep

LEMMA NothingChanges ==
    ASSUME \A l \in Keys : SameFor(l)
    PROVE  IntakeStep
<1>1. [l \in Keys |-> PhaseOf(l)]' = [l \in Keys |-> PhaseOf(l)]
  BY DEF SameFor, SameJob
<1>2. [l \in Keys |-> job[l].fingerprint]' = [l \in Keys |-> job[l].fingerprint]
  BY DEF SameFor, SameJob
<1>3. [l \in Keys |-> ReservationOf(l)]' = [l \in Keys |-> ReservationOf(l)]
  BY DEF SameFor
<1>4. {l \in Keys : HasOriginal(l)}' = {l \in Keys : HasOriginal(l)}
  BY DEF SameFor, SameJob
<1> QED
  BY <1>1, <1>2, <1>3, <1>4 DEF IntakeStep, Contract!vars

\* What a step leaves of one key.
SameFields(l) ==
    /\ job'[l].status = job[l].status /\ job'[l].ready = job[l].ready
    /\ job'[l].fingerprint = job[l].fingerprint /\ job'[l].file = job[l].file

FileStays(l) ==
    LET f == [id |-> job[l].file, input |-> job[l].fingerprint]
    IN  f \in files' <=> f \in files

SamePlace(l) == (l \in reserved' <=> l \in reserved) /\ (l \in lapsed' <=> l \in lapsed)

LEMMA LeftAlone ==
    ASSUME NEW l, SameFields(l), FileStays(l), SamePlace(l)
    PROVE  SameFor(l)
<1>1. PhaseOf(l)' = PhaseOf(l)
  BY DEF PhaseOf, SameFields
<1>2. HasOriginal(l)' <=> HasOriginal(l)
  BY DEF HasOriginal, SameFields, FileStays
<1>3. ReservationOf(l)' = ReservationOf(l)
  BY DEF ReservationOf, SamePlace
<1> QED
  BY <1>1, <1>2, <1>3 DEF SameFor, SameJob, SameFields

\* Only who has an intake's lease changes, or nothing at all.
LEMMA LeaseContract ==
    ASSUME \A l \in Keys : SameFields(l), UNCHANGED <<reserved, lapsed, files>>
    PROVE  IntakeStep
<1>1. ASSUME NEW l \in Keys PROVE SameFor(l)
  BY LeftAlone DEF FileStays, SamePlace
<1> QED
  BY <1>1, NothingChanges

LEMMA RequestContract ==
    ASSUME UNCHANGED <<job, reserved, lapsed, files>>
    PROVE  IntakeStep
  BY LeaseContract DEF SameFields

\* Of other keys nothing changes, and no original either.
LEMMA OthersAlone ==
    ASSUME NEW k \in Keys, \A l \in Keys \ {k} : job'[l] = job[l] /\ SamePlace(l), files' = files
    PROVE  \A l \in Keys \ {k} : SameFor(l)
<1> SUFFICES ASSUME NEW l \in Keys \ {k} PROVE SameFor(l)
  OBVIOUS
<1>1. SameFields(l) /\ FileStays(l)
  BY DEF SameFields, FileStays
<1> QED
  BY <1>1, LeftAlone

\* A job without a file has no original: identifiers begin with 1.
LEMMA FileMissing ==
    ASSUME SubmissionInv, NEW d, d.file = NoFile
    PROVE  [id |-> d.file, input |-> d.fingerprint] \notin files
<1>1. \A f \in files : f.id \in 1 .. stored
  BY DEF SubmissionInv, FilesOwned
<1>2. \A f \in files : f.id # NoFile
  BY <1>1 DEF NoFile
<1> QED
  BY <1>2

LEMMA UpsertContract ==
    ASSUME SubmissionInv, NEW r \in Requests, NEW k \in Keys, k = request[r].key, Upsert(r)
    PROVE  IntakeStep
<1>1. request[r].input \in Input /\ job \in [Keys -> Document]
      /\ UNCHANGED <<reserved, lapsed, files>>
  BY RequestType DEF Upsert, Active, media, SubmissionInv, TypeOK
<1>2. CASE job' = job
  BY <1>1, <1>2, RequestContract
<1>3. CASE job[k].status = "none"
  <2> DEFINE new == [NoDocument EXCEPT !.status = "queued", !.fingerprint = request[r].input]
  <2>1. job' = [job EXCEPT ![k] = new] /\ job[k] = NoDocument
    BY <1>1, <1>3 DEF Upsert, SubmissionInv, DocumentsSound
  <2>2. new.status = "queued" /\ ~new.ready /\ new.fingerprint = request[r].input
        /\ new.file = NoFile /\ job[k].file = NoFile
    BY <2>1 DEF NoDocument
  <2> HIDE DEF new
  <2>3. job'[k] = new /\ \A l \in Keys \ {k} : job'[l] = job[l] /\ SamePlace(l)
    BY <1>1, <2>1 DEF SamePlace
  <2>4. ~HasOriginal(k) /\ ~HasOriginal(k)'
    BY <1>1, <2>2, <2>3, FileMissing DEF HasOriginal
  <2>5. PhaseOf(k) = "none" /\ PhaseOf(k)' = "open"
    BY <1>3, <2>2, <2>3 DEF PhaseOf
  <2>6. ReservationOf(k)' = ReservationOf(k)
    BY <1>1 DEF ReservationOf
  <2>7. Opens(k)
    BY <1>1, <2>2, <2>3, <2>4, <2>5, <2>6 DEF Opens
  <2> QED
    BY <1>1, <2>3, <2>7, OthersAlone, ContractStep DEF KeyStep
<1> QED
  BY <1>2, <1>3 DEF Upsert

\* A reservation is given back, or expires.
LEMMA GiveUpContract ==
    ASSUME SubmissionInv, LapsedApart, NEW k \in Keys, UNCHANGED <<job, files>>,
           reserved' = reserved \ {k},
           \/ Past(k) /\ lapsed' = lapsed
           \/ k \in reserved /\ lapsed' = lapsed \cup {k}
    PROVE  IntakeStep
<1>1. CASE k \notin reserved
  BY <1>1, RequestContract
<1>2. CASE k \in reserved
  <2>1. \A l \in Keys \ {k} : job'[l] = job[l] /\ SamePlace(l)
    BY DEF SamePlace
  <2>2. SameJob(k) /\ ReservationOf(k) = "held"
    BY <1>2 DEF SameJob, PhaseOf, HasOriginal, ReservationOf
  <2>3. Past(k) /\ lapsed' = lapsed => ReservationOf(k)' = "none" /\ PhaseOf(k) = job[k].status
    BY <1>2 DEF ReservationOf, LapsedApart, Past, PhaseOf
  <2>4. lapsed' = lapsed \cup {k} => ReservationOf(k)' = "expired"
    BY DEF ReservationOf
  <2>5. GivesUp(k)
    BY <2>2, <2>3, <2>4 DEF GivesUp, Past
  <2> QED
    BY <2>1, <2>5, OthersAlone, ContractStep DEF KeyStep
<1> QED
  BY <1>1, <1>2

LEMMA CloseFirstContract ==
    ASSUME SubmissionInv, LapsedApart, NEW r \in Requests, CloseFirst(r)
    PROVE  IntakeStep
<1> DEFINE p == request[r].input.retryOf
<1>1. /\ UNCHANGED <<job, files, lapsed>> /\ reserved' = reserved \ {p}
      /\ request[r].input \in Input /\ reserved \subseteq Keys /\ (p # NoKey => Past(p))
  BY RequestType DEF CloseFirst, Active, media, SubmissionInv, TypeOK
<1>2. CASE p = NoKey
  BY <1>1, <1>2, RequestContract, SubmissionAssumption
<1>3. CASE p # NoKey
  <2>1. p \in Keys
    BY <1>1, <1>3 DEF Input
  <2> QED
    BY <1>1, <1>3, <2>1, GiveUpContract
<1> QED
  BY <1>2, <1>3

LEMMA ReserveContract ==
    ASSUME SubmissionInv, NEW r \in Requests, NEW k \in Keys, k = request[r].key, Reserve(r)
    PROVE  IntakeStep
<1>1. UNCHANGED <<job, files>> /\ job[k].status # "none"
  BY RequestType DEF Reserve, Active, media, SubmissionInv, InputsSame
<1>2. CASE UNCHANGED <<reserved, lapsed>>
  BY <1>1, <1>2, RequestContract
<1>3. CASE reserved' = reserved \cup {k} /\ lapsed' = lapsed \ {k}
  <2>1. \A l \in Keys \ {k} : job'[l] = job[l] /\ SamePlace(l)
    BY <1>1, <1>3 DEF SamePlace
  <2>2. SameJob(k) /\ ReservationOf(k)' = "held" /\ PhaseOf(k) # "none"
    BY <1>1, <1>3 DEF SameJob, PhaseOf, HasOriginal, ReservationOf
  <2>3. CASE k \in reserved
    <3>1. ReservationOf(k) = "held"
      BY <2>3 DEF ReservationOf
    <3>2. SameFor(k)
      BY <2>2, <3>1 DEF SameFor
    <3> QED
      BY <1>1, <2>1, <3>2, OthersAlone, ContractStep DEF KeyStep
  <2>4. CASE Cardinality(reserved) < ActiveLimit
    <3>1. Reserves(k)
      BY <2>2, <2>4 DEF Reserves
    <3> QED
      BY <1>1, <2>1, <3>1, OthersAlone, ContractStep DEF KeyStep
  <2>5. k \in reserved \/ Cardinality(reserved) < ActiveLimit \/ UNCHANGED <<reserved, lapsed>>
    BY DEF Reserve
  <2> QED
    BY <1>2, <2>3, <2>4, <2>5
<1> QED
  BY <1>2, <1>3 DEF Reserve

\* What is stored or collected is no original of a job.
LEMMA StoreMediaContract ==
    ASSUME SubmissionInv, NEW r \in Requests, StoreMedia(r)
    PROVE  IntakeStep
<1>1. UNCHANGED <<job, reserved, lapsed>>
  BY DEF StoreMedia
<1>2. CASE files' = files
  BY <1>1, <1>2, RequestContract
<1>3. CASE files' = files \cup {[id |-> stored + 1, input |-> request[r].input]}
  <2>1. ASSUME NEW l \in Keys PROVE SameFor(l)
    <3>1. job[l].file <= stored /\ job[l].file \in Int /\ stored \in Int
      BY DEF SubmissionInv, FilesOwned, TypeOK, Document
    <3>2. job[l].file # stored + 1
      BY <3>1
    <3>3. FileStays(l)
      BY <1>3, <3>2 DEF FileStays
    <3>4. SameFields(l) /\ SamePlace(l)
      BY <1>1 DEF SameFields, SamePlace
    <3> QED
      BY <3>3, <3>4, LeftAlone
  <2> QED
    BY <2>1, NothingChanges
<1> QED
  BY <1>2, <1>3 DEF StoreMedia

LEMMA CollectOrphanContract ==
    ASSUME SubmissionInv, NEW f, CollectOrphan(f)
    PROVE  IntakeStep
<1>1. ASSUME NEW l \in Keys PROVE SameFor(l)
  <2>1. FileStays(l)
    BY DEF FileStays, CollectOrphan
  <2>2. SameFields(l) /\ SamePlace(l)
    BY DEF CollectOrphan, SameFields, SamePlace
  <2> QED
    BY <2>1, <2>2, LeftAlone
<1> QED
  BY <1>1, NothingChanges

\* The last write: the lease's reservation and original are there.
LEMMA MakeReadyContract ==
    ASSUME SubmissionInv, NEW r \in Requests, NEW k \in Keys, k = request[r].key,
           Active(r), request[r].step = "accept", MakeReady(r),
           UNCHANGED <<reserved, lapsed, files>>
    PROVE  IntakeStep
<1>1. /\ job \in [Keys -> Document] /\ Leased(r) /\ job[k].held
      /\ job[k].status = "queued" /\ ~job[k].ready
      /\ request[r].input = first[k] /\ job[k].fingerprint = first[k] /\ first[k] \in Input
      /\ job[k].file = NoFile
  BY DEF MakeReady, Owned, Leased, Intaking, SubmissionInv, TypeOK, InputsSame, DocumentsSound
<1>2. /\ job'[k].status = "queued" /\ job'[k].ready /\ job'[k].file = request[r].file
      /\ job'[k].fingerprint = first[k]
      /\ \A l \in Keys \ {k} : job'[l] = job[l] /\ SamePlace(l)
  <2>1. job' = [job EXCEPT ![k].ready = TRUE, ![k].file = request[r].file,
                           ![k].token = NoRequest, ![k].held = FALSE]
    BY DEF MakeReady
  <2>2. job[k] \in Document
    BY <1>1
  <2>3. job'[k] = [job[k] EXCEPT !.ready = TRUE, !.file = request[r].file,
                                 !.token = NoRequest, !.held = FALSE]
        /\ \A l \in Keys \ {k} : job'[l] = job[l]
    BY <1>1, <2>1
  <2> QED
    BY <1>1, <2>2, <2>3 DEF SamePlace, Document
<1>3. PhaseOf(k) = "open" /\ PhaseOf(k)' = "running"
  BY <1>1, <1>2 DEF PhaseOf
<1>4. ReservationOf(k) # "none" /\ ReservationOf(k)' = ReservationOf(k)
  BY <1>1 DEF ReservationOf, SubmissionInv, LeaseReserved
<1>5. ~HasOriginal(k)
  BY <1>1, FileMissing DEF HasOriginal
<1>6. HasOriginal(k)' <=> first[k].content \in Uploads
  <2>1. first[k].content \in Uploads => [id |-> request[r].file, input |-> first[k]] \in files
    BY <1>1 DEF SubmissionInv, LeaseHasMedia
  <2> QED
    BY <1>2, <2>1 DEF HasOriginal
<1>7. Runs(k)
  BY <1>1, <1>2, <1>3, <1>4, <1>5, <1>6 DEF Runs
<1> QED
  BY <1>2, <1>7, OthersAlone, ContractStep DEF KeyStep

\* The job is settled or marked; its file and its reservation stay for now.
LEMMA MoveOnContract ==
    ASSUME SubmissionInv, NEW k \in Keys, UNCHANGED <<reserved, lapsed, files>>,
           Settle(k) \/ DeleteJob(k)
    PROVE  IntakeStep
<1>1. job \in [Keys -> Document]
  BY DEF SubmissionInv, TypeOK
<1>2. /\ job'[k].fingerprint = job[k].fingerprint /\ job'[k].file = job[k].file
      /\ \A l \in Keys \ {k} : job'[l] = job[l] /\ SamePlace(l)
      /\ job'[k].status = IF Settle(k) THEN "settled" ELSE "deleting"
  <2>1. job[k] \in Document /\ \A l \in Keys : SamePlace(l)
    BY <1>1 DEF SamePlace
  <2>2. CASE Settle(k)
    BY <1>1, <2>1, <2>2 DEF Settle, Document
  <2>3. CASE DeleteJob(k) /\ ~Settle(k)
    <3>1. job'[k] = [job[k] EXCEPT !.status = "deleting", !.ready = FALSE,
                                   !.token = NoRequest, !.held = FALSE]
          /\ \A l \in Keys \ {k} : job'[l] = job[l]
      BY <1>1, <2>3 DEF DeleteJob
    <3> QED
      BY <2>1, <2>3, <3>1 DEF Document
  <2> QED
    BY <2>2, <2>3
<1>3. ReservationOf(k)' = ReservationOf(k) /\ (HasOriginal(k)' <=> HasOriginal(k))
  BY <1>2 DEF ReservationOf, HasOriginal
<1>4. CASE Settle(k)
  <2>1. PhaseOf(k) = "running" /\ PhaseOf(k)' = "settled"
    BY <1>2, <1>4 DEF Settle, PhaseOf
  <2>2. MovesOn(k, {"running"}, "settled")
    BY <1>2, <1>3, <2>1 DEF MovesOn
  <2> QED
    BY <1>2, <2>2, OthersAlone, ContractStep DEF KeyStep
<1>5. CASE DeleteJob(k) /\ ~Settle(k)
  <2>1. PhaseOf(k) \in {"open", "running", "settled"} /\ PhaseOf(k)' = "deleting"
    BY <1>2, <1>5 DEF DeleteJob, PhaseOf
  <2>2. MovesOn(k, {"open", "running", "settled"}, "deleting")
    BY <1>2, <1>3, <2>1 DEF MovesOn
  <2> QED
    BY <1>2, <2>2, OthersAlone, ContractStep DEF KeyStep
<1> QED
  BY <1>4, <1>5

\* No other job has the original that is erased.
LEMMA EraseContract ==
    ASSUME SubmissionInv, NEW k \in Keys, EraseJob(k)
    PROVE  IntakeStep
<1> DEFINE gone == [NoDocument EXCEPT !.status = "deleted"]
<1>1. /\ job' = [job EXCEPT ![k] = gone] /\ job \in [Keys -> Document]
      /\ files' = {f \in files : f.id # job[k].file} /\ UNCHANGED <<reserved, lapsed>>
      /\ job[k].status = "deleting"
  BY DEF EraseJob, SubmissionInv, TypeOK
<1>2. gone.status = "deleted" /\ gone.fingerprint = NoInput /\ gone.file = NoFile
  BY DEF NoDocument
<1> HIDE DEF gone
<1>3. job'[k] = gone /\ \A l \in Keys \ {k} : job'[l] = job[l]
  BY <1>1
<1>4. ASSUME NEW l \in Keys \ {k} PROVE SameFor(l)
  <2>1. job[l].file = NoFile \/ job[l].file # job[k].file
    BY DEF SubmissionInv, FilesOwned
  <2>2. job[l].file = NoFile => [id |-> job[l].file, input |-> job[l].fingerprint] \notin files
    BY FileMissing
  <2>3. FileStays(l)
    BY <1>1, <2>1, <2>2 DEF FileStays
  <2>4. SameFields(l) /\ SamePlace(l)
    BY <1>1, <1>3 DEF SameFields, SamePlace
  <2> QED
    BY <2>3, <2>4, LeftAlone
<1>5. ~HasOriginal(k)'
  <2>1. [id |-> gone.file, input |-> gone.fingerprint] \notin files
    BY <1>2, FileMissing
  <2> QED
    BY <1>1, <1>3, <2>1 DEF HasOriginal
<1>6. PhaseOf(k) = "deleting" /\ PhaseOf(k)' = "deleted" /\ ReservationOf(k)' = ReservationOf(k)
  BY <1>1, <1>2, <1>3 DEF PhaseOf, ReservationOf
<1>7. Erases(k)
  BY <1>2, <1>3, <1>5, <1>6 DEF Erases
<1> QED
  BY <1>4, <1>7, ContractStep DEF KeyStep

LEMMA LeaseMoves ==
    ASSUME job \in [Keys -> Document], NEW k, NEW t, NEW b,
           job' = [job EXCEPT ![k].token = t, ![k].held = b], NEW l \in Keys
    PROVE  SameFields(l)
<1>1. job[l] \in Document
  OBVIOUS
<1>2. job'[l] = job[l] \/ job'[l] = [job[l] EXCEPT !.token = t, !.held = b]
  OBVIOUS
<1> QED
  BY <1>1, <1>2 DEF SameFields, Document

\* Every step of submitting is one of the contract, or not seen.
LEMMA ContractKept ==
    ASSUME SubmissionInv, LapsedApart, [Next]_vars
    PROVE  IntakeStep
<1>1. ASSUME NEW r \in Requests,
             \/ \E k \in Keys : Submit(r, k)
             \/ \E k, p \in Keys : Retry(r, p, k)
      PROVE  IntakeStep
  BY <1>1, RequestContract DEF Submit, Retry, media
<1>2. ASSUME NEW r \in Requests, Intake(r) PROVE IntakeStep
  <2>1. /\ Active(r) => request[r].key \in Keys
        /\ job \in [Keys -> Document]
    BY RequestType DEF SubmissionInv, TypeOK
  <2>2. CASE AnswerConflict(r)
    BY <2>2, RequestContract DEF AnswerConflict, media
  <2>3. CASE Upsert(r)
    <3>1. request[r].key \in Keys
      BY <2>1, <2>3 DEF Upsert, Active
    <3> QED
      BY <2>3, <3>1, UpsertContract
  <2>4. CASE Reserve(r)
    BY <2>1, <2>4, ReserveContract DEF Reserve, Active
  <2>5. CASE TakeLease(r) \/ HandleError(r)
    <3>1. UNCHANGED <<reserved, lapsed, files>>
      BY <2>5 DEF TakeLease, HandleError, AfterError, media
    <3>2. \/ job' = job
          \/ \E t, b : job' = [job EXCEPT ![request[r].key].token = t, ![request[r].key].held = b]
      BY <2>5 DEF TakeLease, HandleError, GiveBack
    <3>3. \A l \in Keys : SameFields(l)
      BY <2>1, <3>2, LeaseMoves DEF SameFields
    <3> QED
      BY <3>1, <3>3, LeaseContract
  <2>6. CASE Accept(r)
    <3>1. UNCHANGED <<reserved, lapsed, files>> /\ Active(r) /\ request[r].step = "accept"
      BY <2>6 DEF Accept, media, Active
    <3>2. CASE MakeReady(r)
      BY <2>1, <3>1, <3>2, MakeReadyContract
    <3>3. CASE job' = job
      BY <3>1, <3>3, RequestContract
    <3> QED
      BY <2>6, <3>2, <3>3 DEF Accept
  <2> QED
    BY <1>2, <2>2, <2>3, <2>4, <2>5, <2>6, CloseFirstContract, StoreMediaContract DEF Intake
<1>3. ASSUME NEW r \in Requests, AcceptUnknown(r) PROVE IntakeStep
  <2>1. /\ UNCHANGED <<reserved, lapsed, files>> /\ Active(r) /\ request[r].step = "accept"
        /\ MakeReady(r)
    BY <1>3 DEF AcceptUnknown, media, Active
  <2> QED
    BY <2>1, RequestType, MakeReadyContract
<1>4. ASSUME NEW r \in Requests, IntakeFails(r) PROVE IntakeStep
  BY <1>4, RequestContract DEF IntakeFails, media
<1>5. ASSUME NEW k \in Keys, Settle(k) \/ DeleteJob(k) PROVE IntakeStep
  <2>1. UNCHANGED <<reserved, lapsed, files>>
    BY <1>5 DEF Settle, DeleteJob, media
  <2> QED
    BY <1>5, <2>1, MoveOnContract
<1>6. ASSUME NEW k \in Keys, FinishJob(k) PROVE IntakeStep
  <2>1. /\ UNCHANGED <<job, files, lapsed>> /\ reserved' = reserved \ {k} /\ Past(k)
    BY <1>6 DEF FinishJob, media, SubmissionInv, ClosingPast
  <2> QED
    BY <2>1, GiveUpContract
<1>7. ASSUME NEW k \in Keys, ReservationExpires(k) PROVE IntakeStep
  BY <1>7, GiveUpContract DEF ReservationExpires, media
<1>8. ASSUME NEW k \in Keys, LeaseEnds(k) PROVE IntakeStep
  <2>1. job \in [Keys -> Document]
    BY DEF SubmissionInv, TypeOK
  <2>2. job' = [job EXCEPT ![k].held = FALSE]
    BY <1>8 DEF LeaseEnds
  <2>3. \A l \in Keys : SameFields(l)
    BY <2>1, <2>2 DEF SameFields, Document
  <2> QED
    BY <1>8, <2>3, LeaseContract DEF LeaseEnds, media
<1>9. ASSUME NEW f \in 1 .. stored, GrowsOld(f) \/ CollectOrphan(f) PROVE IntakeStep
  <2>1. CASE GrowsOld(f)
    BY <2>1, RequestContract DEF GrowsOld
  <2> QED
    BY <1>9, <2>1, CollectOrphanContract
<1>10. CASE Crash \/ UNCHANGED vars
  BY <1>10, RequestContract DEF Crash, media, vars
<1> QED
  BY <1>1, <1>2, <1>3, <1>4, <1>5, <1>6, <1>7, <1>8, <1>9, <1>10, EraseContract DEF Next

\* jobSubmission.js, with the reservations and originals it makes, does what
\* JobIntake promises of a key: one job from the first input, which runs with its
\* reservation and its original and goes on only forward.
THEOREM IntakeImplemented == Spec => ImplementsIntake
<1>1. Init => Contract!Init
  <2> SUFFICES ASSUME Init PROVE Contract!Init
    OBVIOUS
  <2>1. /\ job = [k \in Keys |-> NoDocument] /\ reserved = {} /\ lapsed = {} /\ files = {}
        /\ NoDocument.status = "none" /\ NoDocument.fingerprint = NoInput
    BY DEF Init, NoDocument
  <2>2. \A k \in Keys : /\ PhaseOf(k) = "none" /\ job[k].fingerprint = NoInput
                        /\ ReservationOf(k) = "none" /\ ~HasOriginal(k)
    BY <2>1 DEF PhaseOf, ReservationOf, HasOriginal
  <2> QED
    BY <2>2 DEF Contract!Init
<1> QED
  BY <1>1, ContractKept, SubmissionInvariant, LapsedAlways, PTL
  DEF Spec, ImplementsIntake, Contract!Spec, IntakeStep

----------------------------------------------------------------------------
(* Submission implements UserBudget *)

PlacesStep == [Budget!Next]_([u \in {"owner"} |-> reserved])

LEMMA FewerPlaces ==
    ASSUME reserved \subseteq Keys, reserved' \subseteq reserved
    PROVE  PlacesStep
<1>1. Budget!Lose
  BY DEF Budget!Lose
<1> QED
  BY <1>1 DEF PlacesStep, Budget!Next

LEMMA PlaceTaken ==
    ASSUME NEW k \in Keys, Cardinality(reserved) < ActiveLimit, reserved' = reserved \cup {k}
    PROVE  PlacesStep
<1>1. Budget!Reserve("owner", k)
  BY DEF Budget!Reserve, Budget!Cardinality, Cardinality
<1> QED
  BY <1>1 DEF PlacesStep, Budget!Next

LEMMA PlacesKept ==
    ASSUME SubmissionInv, [Next]_vars
    PROVE  PlacesStep
<1>0. reserved \subseteq Keys
  BY DEF SubmissionInv, TypeOK
<1>1. ASSUME reserved' \subseteq reserved PROVE PlacesStep
  BY <1>0, <1>1, FewerPlaces
<1>2. ASSUME NEW r \in Requests, NEW k \in Keys,
             Submit(r, k) \/ \E p \in Keys : Retry(r, p, k)
      PROVE  PlacesStep
  BY <1>1, <1>2 DEF Submit, Retry
<1>3. ASSUME NEW r \in Requests, Reserve(r) PROVE PlacesStep
  <2>1. PICK k \in Keys : k = request[r].key
    <3>1. Active(r)
      BY <1>3 DEF Reserve, Active
    <3> QED
      BY <3>1, RequestType
  <2>2. \/ reserved' = reserved
        \/ /\ k \in reserved \/ Cardinality(reserved) < ActiveLimit
           /\ reserved' = reserved \cup {k}
    BY <1>3, <2>1 DEF Reserve
  <2>3. CASE k \in reserved \/ reserved' = reserved
    BY <1>1, <2>2, <2>3
  <2> QED
    BY <2>2, <2>3, PlaceTaken
<1>4. ASSUME NEW r \in Requests, CloseFirst(r) \/ HandleError(r) PROVE PlacesStep
  BY <1>1, <1>4 DEF CloseFirst, HandleError, AfterError
<1>5. ASSUME NEW r \in Requests,
             Upsert(r) \/ AnswerConflict(r) \/ TakeLease(r) \/ StoreMedia(r) \/ Accept(r)
      PROVE  PlacesStep
  BY <1>1, <1>5 DEF Upsert, AnswerConflict, TakeLease, StoreMedia, Accept
<1>6. ASSUME NEW r \in Requests, AcceptUnknown(r) \/ IntakeFails(r) PROVE PlacesStep
  BY <1>1, <1>6 DEF AcceptUnknown, IntakeFails
<1>7. ASSUME NEW k \in Keys, Settle(k) \/ DeleteJob(k) \/ EraseJob(k) \/ LeaseEnds(k)
      PROVE  PlacesStep
  BY <1>1, <1>7 DEF Settle, DeleteJob, EraseJob, LeaseEnds
<1>8. ASSUME NEW k \in Keys, FinishJob(k) \/ ReservationExpires(k) PROVE PlacesStep
  BY <1>1, <1>8 DEF FinishJob, ReservationExpires
<1>9. ASSUME NEW f \in 1 .. stored, GrowsOld(f) \/ CollectOrphan(f) PROVE PlacesStep
  BY <1>1, <1>9 DEF GrowsOld, CollectOrphan
<1>10. CASE Crash \/ UNCHANGED vars
  BY <1>1, <1>10 DEF Crash, vars
<1> QED
  BY <1>2, <1>3, <1>4, <1>5, <1>6, <1>7, <1>8, <1>9, <1>10 DEF Next, Intake

\* What submitting a job knows of the usage document, a set of reservations that
\* one update tests and extends, is what UserBudget promises, which usageService.js
\* is shown to implement with its lists, clocks and leases.
THEOREM SubmissionBudget == Spec => ImplementsBudget
<1>1. Init => Budget!Init
  BY DEF Init, Budget!Init
<1> QED
  BY <1>1, PlacesKept, SubmissionInvariant, PTL
  DEF Spec, ImplementsBudget, Budget!Spec, PlacesStep

=============================================================================
