---------------------------- MODULE PublishedJob ----------------------------
(***************************************************************************)
(* What the views rely on of a job: they put together answers and events   *)
(* that come in any order and go by progressVersion alone, so what a       *)
(* version says must never change, and a later one must be a change the    *)
(* views know.  JobPage takes the changes of its document from here, and   *)
(* JobQueue is shown to publish no others.                                 *)
(***************************************************************************)
EXTENDS Integers

\* What the views tell apart of a status.
Kind(status) ==
    IF status \in {"queued", "processing"} THEN "active"
    ELSE IF status \in {"failed", "cancelled"} THEN "stopped"
    ELSE status

\* Only an active job settles, and any that is not marked may be.
NextKinds(kind) ==
    IF kind = "active" THEN {"active", "completed", "stopped", "deleting"}
    ELSE IF kind \in {"completed", "stopped"} THEN {"deleting"}
    ELSE {}
=============================================================================
