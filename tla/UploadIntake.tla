---------------------------- MODULE UploadIntake ----------------------------
(***************************************************************************)
(* The upload slots of the gateway: createUploadMiddleware of server/src/  *)
(* middleware/upload.js between the arrival of POST /api/videos and the    *)
(* end of createJob.  A request gets a slot and a directory, its file is   *)
(* written while it arrives, and four parties end it: the parser, the      *)
(* "aborted" event, the response's "close" event, and the controller.      *)
(* Each may start the cleanup, which they share, and each releases.        *)
(*                                                                         *)
(* What the parser (multer) does is known from how it is used: it calls    *)
(* back once, with an error if the request broke off or its content is     *)
(* refused, else when the body was read and the file is written.           *)
(***************************************************************************)
EXTENDS Integers, FiniteSets

CONSTANTS
    Users, NoUser,
    MaxRequests, \* bound: requests in a behaviour
    MaxSlots,    \* MAX_CONCURRENT_UPLOADS
    MaxFaults    \* bound: errors of the file system in a behaviour

ASSUME IntakeAssumption ==
    /\ NoUser \notin Users
    /\ MaxRequests \in Nat
    /\ MaxSlots \in Nat \ {0}
    /\ MaxFaults \in Nat

VARIABLES
    request,   \* the requests, with their files
    slots,     \* uploads that are counted
    users,     \* users who have one
    faults     \* of what MaxFaults bounds, how much so far

vars == <<request, slots, users, faults>>

----------------------------------------------------------------------------
(* Types *)

\* Requests are numbered as they arrive.
Requests == 1 .. MaxRequests

Request ==
    [step      : {"new", "mkdir", "parse", "failing", "controller", "finally", "done"},
     user      : Users \cup {NoUser},
     whole     : BOOLEAN,    \* the body was read to its end
     aborted   : BOOLEAN,    \* the connection broke before that
     closed    : BOOLEAN,    \* the connection broke
     broken    : BOOLEAN,    \* the parser will call back with an error
     directory : {"none", "there", "gone", "leaked"},
     write     : {"none", "open", "stored", "broken"},   \* req.uploadWrite
     cleaning  : {"no", "waiting", "done"},              \* req.uploadCleanup
     early     : BOOLEAN,    \* the controller got it after it was closed (history)
     released  : BOOLEAN]

NewRequest ==
    [step |-> "new", user |-> NoUser, whole |-> FALSE, aborted |-> FALSE,
     closed |-> FALSE, broken |-> FALSE, directory |-> "none", write |-> "none",
     cleaning |-> "no", early |-> FALSE, released |-> FALSE]

TypeOK ==
    /\ request \in [Requests -> Request]
    /\ slots \in 0 .. MaxSlots
    /\ users \subseteq Users
    /\ faults \in 0 .. MaxFaults

----------------------------------------------------------------------------

Init ==
    /\ request = [r \in Requests |-> NewRequest]
    /\ slots = 0 /\ users = {} /\ faults = 0

Fault ==
    /\ faults < MaxFaults
    /\ faults' = faults + 1

Save(r, rec) == request' = [request EXCEPT ![r] = rec]

\* Mutant: a release counts however often it comes.
FreesAlways(r) == TRUE

\* releaseUpload works once.
Frees(r) == ~request[r].released

Release(r, rec) ==
    /\ Save(r, [rec EXCEPT !.released = TRUE])
    /\ IF Frees(r)
       THEN slots' = slots - 1 /\ users' = users \ {request[r].user}
       ELSE UNCHANGED <<slots, users>>

\* The first call of cleanupUpload starts the removal, the others share it.
Cleaned(rec) == IF rec.cleaning = "no" THEN [rec EXCEPT !.cleaning = "waiting"] ELSE rec

\* What still matters of a request that only waits for its cleanup, or ended.
Rest(rec, step) ==
    [NewRequest EXCEPT !.step = step, !.user = rec.user, !.directory = rec.directory,
                       !.cleaning = Cleaned(rec).cleaning, !.released = rec.released]
Ended(rec) == [Rest(rec, "done") EXCEPT !.cleaning = "done"]

\* What awaits the cleanup goes on at once if it is over.
AfterCleanup(rec, step) ==
    IF rec.cleaning = "done" THEN Ended(rec) ELSE Rest(rec, step)

----------------------------------------------------------------------------
(* The middleware *)

Full(u) == slots >= MaxSlots \/ u \in users

\* A request is refused or admitted.  The body of a submission without a file
\* may have been read before.
Arrive(r, u) ==
    /\ request[r].step = "new" /\ \A q \in 1 .. r - 1 : request[q].step # "new"
    /\ \E read \in BOOLEAN :
        IF Full(u)
        THEN /\ Save(r, [NewRequest EXCEPT !.step = "done"])
             /\ UNCHANGED <<slots, users>>
        ELSE /\ Save(r, [NewRequest EXCEPT !.step = "mkdir", !.user = u, !.whole = read])
             /\ slots' = slots + 1 /\ users' = users \cup {u}
    /\ UNCHANGED faults

\* Mutant: nobody looks whether the client is still there.
NeverGone(r) == FALSE

Gone(r) == request[r].aborted \/ request[r].closed

\* The directory exists; the client may have left meanwhile.
MakeDirectory(r) ==
    LET rec == [request[r] EXCEPT !.directory = "there"]
    IN  /\ request[r].step = "mkdir"
        /\ Save(r, IF Gone(r) THEN AfterCleanup(rec, "failing") ELSE [rec EXCEPT !.step = "parse"])
        /\ UNCHANGED <<slots, users, faults>>

DirectoryFails(r) ==
    /\ request[r].step = "mkdir"
    /\ Fault
    /\ Release(r, Ended(request[r]))

\* _handleFile: the file's part begins.
StartWrite(r) ==
    /\ request[r].step = "parse" /\ request[r].write = "none"
    /\ ~request[r].whole /\ ~request[r].broken /\ ~request[r].closed
    /\ Save(r, [request[r] EXCEPT !.write = "open"])
    /\ UNCHANGED <<slots, users, faults>>

\* The last bytes arrive.
BodyEnds(r) ==
    /\ request[r].step = "parse" /\ ~request[r].whole /\ ~request[r].closed
    /\ Save(r, [request[r] EXCEPT !.whole = TRUE])
    /\ UNCHANGED <<slots, users, faults>>

\* The file is on the disk, or its stream was destroyed.
WriteEnds(r) ==
    LET rec == request[r]
    IN  /\ rec.write = "open"
        /\ rec.whole \/ rec.broken
        /\ Save(r, [rec EXCEPT !.write = IF rec.broken THEN "broken" ELSE "stored"])
        /\ UNCHANGED <<slots, users, faults>>

\* The content is refused, or the disk is full.
ParserFails(r) ==
    /\ request[r].step = "parse" /\ ~request[r].broken
    /\ Save(r, [request[r] EXCEPT !.broken = TRUE])
    /\ UNCHANGED <<slots, users, faults>>

\* The parser's callback: the controller takes over in the same step.
ParserCallsBack(r) ==
    LET rec == request[r]
    IN  /\ rec.step = "parse" /\ rec.write # "open"
        /\ \/ /\ rec.broken
              /\ Save(r, AfterCleanup(rec, "failing"))
           \/ /\ rec.whole /\ ~rec.broken
              /\ Save(r, [rec EXCEPT !.step = "controller", !.early = rec.closed])
        /\ UNCHANGED <<slots, users, faults>>

\* createJob has submitted the job or failed, and cleans up.
ControllerEnds(r) ==
    /\ request[r].step = "controller"
    /\ Save(r, AfterCleanup(request[r], "finally"))
    /\ UNCHANGED <<slots, users, faults>>

----------------------------------------------------------------------------
(* Events *)

\* Mutant: the response's close event does not ask who owns the file.
OwnedByNobody(r) == FALSE

\* uploadOwnedByController
Owned(r) == request[r].step = "controller"

\* The client leaves, or the server's time limit for a request is over.  A
\* request that was not read to its end is aborted, which destroys the stream of
\* its file and, if it listens by now, breaks the parser; the response is closed
\* in any case.  Before there is a directory the cleanup has nothing to do, and
\* where a cleanup is all that is left of the request nobody notices.
Disconnect(r) ==
    LET rec   == request[r]
        after == [rec EXCEPT !.closed = TRUE, !.aborted = ~rec.whole,
                             !.broken = @ \/ (rec.step = "parse" /\ ~rec.whole)]
    IN  /\ rec.step \in {"mkdir", "parse", "controller"} /\ ~rec.closed
        /\ IF rec.directory = "none"
           THEN Release(r, after)
           ELSE /\ Save(r, IF rec.whole /\ Owned(r) THEN after ELSE Cleaned(after))
                /\ UNCHANGED <<slots, users>>
        /\ UNCHANGED faults

\* What becomes of a request whose cleanup ends.
Finished(rec) ==
    IF rec.step \in {"failing", "finally"} THEN Ended(rec) ELSE [rec EXCEPT !.cleaning = "done"]

\* removeUpload, once the write has ended; who waited for it releases.
RemoveUpload(r) ==
    /\ request[r].cleaning = "waiting" /\ request[r].write # "open"
    /\ Release(r, [Finished(request[r]) EXCEPT !.directory = "gone"])
    /\ UNCHANGED faults

\* It fails; the slot is released all the same.
RemovalFails(r) ==
    /\ request[r].cleaning = "waiting" /\ request[r].write # "open"
    /\ Fault
    /\ Release(r, [Finished(request[r]) EXCEPT !.directory = "leaked"])

----------------------------------------------------------------------------

Serve(r) ==
    \/ MakeDirectory(r) \/ WriteEnds(r) \/ ParserCallsBack(r)
    \/ ControllerEnds(r) \/ RemoveUpload(r)

Client(r) == BodyEnds(r) \/ Disconnect(r)

Next ==
    \E r \in Requests :
        \/ \E u \in Users : Arrive(r, u)
        \/ StartWrite(r) \/ ParserFails(r)
        \/ Serve(r) \/ Client(r)
        \/ DirectoryFails(r) \/ RemovalFails(r)

Spec == Init /\ [][Next]_vars

----------------------------------------------------------------------------
(* Properties *)

\* The requests that hold a slot.
Holding == {r \in Requests : request[r].user # NoUser /\ ~request[r].released}

\* However many events of a request release its slot, in whatever order, the
\* slots and users counted are those of the uploads that hold one, and a user's
\* late event never frees the slot of the same user's next upload.
SlotsExact ==
    /\ slots = Cardinality(Holding)
    /\ users = {request[r].user : r \in Holding}
    /\ \A r, s \in Holding : r # s => request[r].user # request[s].user

UsesFile(r) == request[r].step = "controller" /\ request[r].write = "stored"

\* A file that the controller got while the client was there stays, and so does
\* its slot, until the controller ends: whatever happens to the connection.
OwnedFileKept ==
    \A r \in Requests :
        UsesFile(r) /\ ~request[r].early
            => request[r].directory = "there" /\ ~request[r].released

\* Every upload ends: as long as one has not, the gateway or the end of a
\* connection has a step for it (no request takes infinitely many), and one that
\* ended left neither its slot nor its directory, unless its removal failed.
EveryUploadEnds ==
    \A r \in Requests :
        /\ request[r].step \notin {"new", "done"} => ENABLED (Serve(r) \/ Client(r))
        /\ request[r].step = "done" => r \notin Holding /\ request[r].directory # "there"

=============================================================================
