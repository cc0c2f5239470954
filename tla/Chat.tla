-------------------------------- MODULE Chat --------------------------------
(***************************************************************************)
(* The chat about completed jobs, composed with their deletion: requests   *)
(* of videoController.js that ask a question or list messages, each in     *)
(* several database calls, while Deletion marks and erases the job.        *)
(*                                                                         *)
(* A message is its sequence number.  Those of a job made before chat had  *)
(* a collection of its own are embedded in the job document until the      *)
(* first request moves them; one stands for them all, LegacyMessage.       *)
(***************************************************************************)
EXTENDS Deletion

CONSTANTS
    Requests,        \* chat requests served at a time
    LegacyJobs,      \* jobs with embedded messages
    MaxMessages      \* bound: questions answered for a job in a behaviour

ASSUME ChatAssumption ==
    /\ LegacyJobs \subseteq Jobs
    /\ MaxMessages \in Nat

VARIABLES
    chat,           \* whether the job document embeds messages
    chatSequence,   \* the job's message counter
    request         \* what each request is doing

chatVars == <<chat, chatSequence, request>>

LegacyMessage == -1

Idle == [step |-> "idle"]
Request ==
    [step : {"migrate", "unset", "answer", "create"}, asks : BOOLEAN,
     job  : Jobs, sequence : 0 .. MaxMessages]

\* With the types of the deletion it is composed with.
ChatTypeOK ==
    /\ TypeOK
    /\ chat \in [Jobs -> BOOLEAN]
    /\ chatSequence \in [Jobs -> 0 .. MaxMessages]
    /\ request \in [Requests -> Request \cup {Idle}]
    /\ messages \in [Jobs -> SUBSET ({LegacyMessage} \cup 1 .. MaxMessages)]

\* The jobs are completed and nobody executes them.
ChatInit ==
    /\ Init
    /\ status = [j \in Jobs |-> "settled"]
    /\ chat = [j \in Jobs |-> j \in LegacyJobs]
    /\ chatSequence = [j \in Jobs |-> 0]
    /\ request = [c \in Requests |-> Idle]

Step(c, step) == request' = [request EXCEPT ![c].step = step]
Respond(c)    == request' = [request EXCEPT ![c] = Idle]

----------------------------------------------------------------------------

\* Completed is the status of a settled job here.
Start(c, j, asks) ==
    /\ request[c] = Idle
    /\ request' = [request EXCEPT ![c] =
            [step |-> IF chat[j] THEN "migrate" ELSE "answer", asks |-> asks,
             job |-> j, sequence |-> 0]]
    /\ UNCHANGED <<vars, chat, chatSequence>>

AskQuestion(c, j) == status[j] = "settled" /\ Start(c, j, TRUE)

\* A list that finds nothing to move only reads.
ListChat(c, j) ==
    /\ status[j] # "deleted"
    /\ chat[j]
    /\ Start(c, j, FALSE)

\* migrateLegacyChat inserts what is not there yet ...
InsertLegacy(c) ==
    /\ request[c].step = "migrate"
    /\ messages' = [messages EXCEPT ![request[c].job] = @ \cup {LegacyMessage}]
    /\ Step(c, "unset")
    /\ UNCHANGED <<jobVars, deletion, index, scratch, files, pc, work, failures, faults>>
    /\ UNCHANGED <<chat, chatSequence>>

\* Mutant: the messages are dropped from the document before they are moved.
MigrationDoneEarly(step) == step \in {"migrate", "unset"}

MigrationDone(step) == step = "unset"

\* ... and only then removes the embedded messages.
UnsetLegacy(c) ==
    /\ request[c] # Idle
    /\ MigrationDone(request[c].step)
    /\ chat' = [chat EXCEPT ![request[c].job] = FALSE]
    /\ IF request[c].asks THEN Step(c, "answer") ELSE Respond(c)
    /\ UNCHANGED <<vars, chatSequence>>

\* Mutant: the messages are counted instead.
Counted(j) == Cardinality(messages[j] \ {LegacyMessage}) + 1

NextSequence(j) == chatSequence[j] + 1

\* The answer came: it gets its number unless the job was deleted meanwhile.
TakeNumber(c) ==
    LET j == request[c].job
    IN  /\ request[c].step = "answer"
        /\ chatSequence[j] < MaxMessages
        /\ IF status[j] = "settled"
           THEN /\ chatSequence' = [chatSequence EXCEPT ![j] = NextSequence(j)]
                /\ request' = [request EXCEPT ![c].step = "create",
                                              ![c].sequence = NextSequence(j)]
           ELSE Respond(c) /\ UNCHANGED chatSequence
        /\ UNCHANGED <<vars, chat>>

CreateMessage(c) ==
    /\ request[c].step = "create"
    /\ messages' = [messages EXCEPT ![request[c].job] = @ \cup {request[c].sequence}]
    /\ Respond(c)
    /\ UNCHANGED <<jobVars, deletion, index, scratch, files, pc, work, failures, faults>>
    /\ UNCHANGED <<chat, chatSequence>>

\* The AI service or the database fails, or the gateway stops.
RequestFails(c) ==
    /\ request[c] # Idle
    /\ Respond(c)
    /\ UNCHANGED <<vars, chat, chatSequence>>

\* The tombstone drops the embedded messages.
JobStep ==
    /\ Next
    /\ chat' = [j \in Jobs |-> chat[j] /\ status'[j] # "deleted"]
    /\ UNCHANGED <<chatSequence, request>>

ChatNext ==
    \/ JobStep
    \/ \E c \in Requests :
        \/ \E j \in Jobs : AskQuestion(c, j) \/ ListChat(c, j)
        \/ InsertLegacy(c) \/ UnsetLegacy(c)
        \/ TakeNumber(c) \/ CreateMessage(c)
        \/ RequestFails(c)

ChatSpec == ChatInit /\ [][ChatNext]_<<vars, chatVars>>

----------------------------------------------------------------------------
(* Properties *)

\* Answers that come at the same time get different numbers, none of which a
\* stored message has: a conversation has one order, and a page cursor one place.
SequenceUnique ==
    \A c, d \in Requests :
        request[c] # Idle /\ request[c].step = "create"
            => /\ request[c].sequence \notin messages[request[c].job]
               /\ d # c /\ request[d] # Idle /\ request[d].step = "create"
                    /\ request[d].job = request[c].job
                    => request[d].sequence # request[c].sequence

\* However many requests move the embedded messages, and wherever they stop,
\* the messages of a job that is kept are in the document or the collection.
LegacyKept ==
    \A j \in LegacyJobs :
        status[j] \notin {"deleting", "deleted"} => chat[j] \/ LegacyMessage \in messages[j]

\* deletion.py: "All user content and artifacts are erased" when the tombstone
\* is written.
MessagesErased == \A j \in Jobs : status[j] = "deleted" => messages[j] = {}

=============================================================================
