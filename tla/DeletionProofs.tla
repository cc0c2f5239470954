--------------------------- MODULE DeletionProofs ---------------------------
(***************************************************************************)
(* Theorems about Deletion, and about Chat, which composes it with the     *)
(* requests that ask, list and move messages of the jobs it erases.        *)
(*                                                                         *)
(* For any jobs, workers, originals, attempts and faults, the safety       *)
(* properties of the deletion follow from one inductive invariant, which   *)
(* says of every worker what its place implies for the job it works on,    *)
(* and of every job who may still work on it.  A second one adds what the  *)
(* chat's requests may still store; with it the chat's properties hold,    *)
(* and the deletion keeps its own while the chat runs.                     *)
(*                                                                         *)
(* The last part is about what happens in the end.  Every worker comes     *)
(* back to its loop again and again, since the lock a pass waits for comes *)
(* free; and once nothing fails any more every step that a cleanup waits   *)
(* for, of a date, of a worker or of its pass, lowers a rank below 128.    *)
(* Provers that cannot use induction descend it by doubling: who gets n    *)
(* steps down from everywhere gets 2 * n.                                  *)
(***************************************************************************)
EXTENDS Chat, TLAPS

----------------------------------------------------------------------------
(* The inductive invariant of the deletion *)

Running == Executing \cup {"leaving", "acking"}
Passing == Erasing \cup {"wait", "error"}
\* A pass that erased the vectors.
Cleared == {"scratch", "media", "unlink", "messages", "tombstone"}
Marked  == {"deleting", "deleted"}

\* No execution of this attempt is under way.
NobodyRuns(j, a) ==
    \A w \in Workers : pc[w] \in Executing /\ work[w].job = j => work[w].attempt # a

\* Nothing else refers to the job's original.
Unshared(j) == MediaOf[j] # NoFile /\ ~Shared(j)

\* Whether a pass may have given way to the worker already.
Waited(d) == ~d.wait \/ d.stopped \/ d.next = "wait"
Spare(d) == IF Waited(d) THEN 1 ELSE 0

WorkerSound(w) ==
    LET j == work[w].job
        d == deletion[j]
    IN  /\ pc[w] \in Passing => status[j] \in Marked
        /\ pc[w] \in Cleared => index[j] = {} /\ LockFree(j)
        /\ pc[w] = "unlink" => Unshared(j)
        /\ pc[w] \in Erasing => ~d.wait \/ d.stopped
        /\ pc[w] \in Passing /\ d.token = w =>
             /\ work[w].tries = d.attempts
             /\ pc[w] = "wait" => d.attempts <= failures[j] + 1
        /\ pc[w] \in Running =>
             /\ status[j] # "deleted" => work[w].attempt <= attempt[j]
             /\ \A v \in Workers \ {w} :
                  pc[v] \in Running /\ work[v].job = j => work[v].attempt # work[w].attempt

\* Every attempt of a pass but one failed: that one may have waited.
TriesCounted(d, n) ==
    /\ d.state = "pending" => d.attempts <= n + Spare(d)
    /\ d.state = "working" => d.attempts <= n + 1 + Spare(d)
    /\ d.state = "working" /\ d.next = "wait" => ~d.wait
    /\ d.state = "failed" => n >= MaxCleanups - 1

JobSound(j) ==
    /\ status[j] = "deleted" => index[j] = {} /\ LockFree(j)
    /\ status[j] \notin Marked /\ source[j] # NoFile => source[j] \in files
    /\ status[j] \notin Marked => ~deletion[j].wait
    /\ status[j] \in {"queued", "settled"} /\ lease[j] => NobodyRuns(j, attempt[j])
    /\ deletion[j].wait /\ deletion[j].stopped => NobodyRuns(j, deletion[j].active)
    /\ TriesCounted(deletion[j], failures[j])

DeletionInv ==
    /\ TypeOK
    /\ \A w \in Workers : WorkerSound(w)
    /\ \A j \in Jobs : JobSound(j)

----------------------------------------------------------------------------
(* Facts about the state *)

Places == {"idle", "leaving", "acking", "wait", "error"} \cup Executing \cup Erasing

LEMMA PlaceFacts ==
    /\ "idle" \notin Running \cup Passing
    /\ Running \cap Passing = {} /\ Executing \subseteq Running /\ "indexing" \in Executing
    /\ Erasing \subseteq Passing /\ Cleared \subseteq Erasing /\ "unlink" \in Cleared
    /\ "wait" \notin Erasing \cup Executing /\ "error" \notin Erasing
    /\ Places = {"idle"} \cup Running \cup Passing
    BY DEF Running, Passing, Cleared, Executing, Erasing, Places

\* What a worker works on.
LEMMA WorkFacts ==
    ASSUME TypeOK, NEW w \in Workers
    PROVE  /\ pc[w] \in Places
           /\ pc[w] = "idle" => work[w] = NoWork
           /\ pc[w] # "idle" =>
                /\ work[w] \in Work /\ work[w].job \in Jobs /\ work[w].attempt \in Nat
                /\ work[w].tries \in 0 .. MaxCleanups + 1
    BY DEF TypeOK, Work, Places

LEMMA PlaceTypes ==
    ASSUME DeletionInv
    PROVE  pc \in [Workers -> Places] /\ work \in [Workers -> Work \cup {NoWork}]
    BY DEF DeletionInv, TypeOK, Places

\* Who has the job's vectors open executes it.
LEMMA LockOfMarked ==
    ASSUME DeletionInv, NEW j \in Jobs
    PROVE  (status[j] = "deleted" => LockFree(j) /\ index[j] = {})
           /\ \A w \in Workers : pc[w] \in Cleared /\ work[w].job = j => LockFree(j)
    BY DEF DeletionInv, JobSound, WorkerSound

----------------------------------------------------------------------------
(* Steps *)

\* A worker goes from one place to another, and no document changes.
LEMMA MoveStep ==
    ASSUME DeletionAssumption, DeletionInv, NEW w \in Workers, NEW step \in Places,
           UNCHANGED <<jobVars, deletion, index, files, failures>>,
           scratch' \in [Jobs -> SUBSET Nat], messages' \in [Jobs -> SUBSET Int],
           faults' \in 0 .. MaxFaults,
           pc' = [pc EXCEPT ![w] = step],
           \/ step # "idle" /\ pc[w] # "idle" /\ UNCHANGED work
           \/ step = "idle" /\ work' = [work EXCEPT ![w] = NoWork],
           step = "indexing" => pc[w] # "idle" /\ status[work[w].job] = "processing",
           step \in Executing => pc[w] \in Executing,
           step \in Running => pc[w] \in Running,
           step \in Cleared => pc[w] \in Cleared,
           step \in Erasing => pc[w] \in Erasing,
           step \in Passing => pc[w] \in Passing,
           step = "unlink" => Unshared(work[w].job),
           step # "wait"
    PROVE  DeletionInv'
<1>1. /\ status' = status /\ attempt' = attempt /\ lease' = lease /\ source' = source
      /\ deletion' = deletion /\ index' = index /\ files' = files /\ failures' = failures
    BY DEF jobVars
<1>2. \A v \in Workers : pc'[v] = IF v = w THEN step ELSE pc[v]
    BY DEF DeletionInv, TypeOK
<1>3. \A v \in Workers : work'[v] = IF v = w /\ step = "idle" THEN NoWork ELSE work[v]
    BY DEF DeletionInv, TypeOK
<1>4. TypeOK'
    <2>1. pc' \in [Workers -> Places]
        BY DEF DeletionInv, TypeOK, Places
    <2>2. \A v \in Workers : IF pc'[v] = "idle" THEN work'[v] = NoWork ELSE work'[v] \in Work
        BY <1>2, <1>3 DEF DeletionInv, TypeOK
    <2> QED
        BY <1>1, <2>1, <2>2 DEF DeletionInv, TypeOK, Places
<1>5. ASSUME NEW j \in Jobs, LockFree(j), status[j] # "processing"
      PROVE  LockFree(j)'
    BY <1>2, <1>3, <1>5, PlaceFacts DEF LockFree
<1>6. ASSUME NEW j \in Jobs, NEW a, NobodyRuns(j, a)
      PROVE  NobodyRuns(j, a)'
    BY <1>2, <1>3, <1>6, PlaceFacts DEF NobodyRuns
<1>7. ASSUME NEW v \in Workers
      PROVE  WorkerSound(v)'
    <2> DEFINE j == work[v].job
    <2>1. pc'[v] # "idle" => work'[v] = work[v] /\ pc[v] # "idle" /\ j \in Jobs
        BY <1>2, <1>3, WorkFacts DEF DeletionInv
    <2>2. /\ pc'[v] \in Passing => pc[v] \in Passing
          /\ pc'[v] \in Erasing => pc[v] \in Erasing
          /\ pc'[v] \in Cleared => pc[v] \in Cleared
          /\ pc'[v] \in Running => pc[v] \in Running
          /\ pc'[v] = "unlink" => pc[v] = "unlink" \/ Unshared(j)
          /\ pc'[v] = "wait" => pc[v] = "wait"
        BY <1>2
    <2>3. WorkerSound(v)
        BY DEF DeletionInv
    <2>4. pc'[v] \in Passing => status[j] \in Marked
        BY <2>2, <2>3 DEF WorkerSound
    <2>5. pc'[v] \in Cleared => index[j] = {} /\ LockFree(j)'
        BY <1>5, <2>1, <2>2, <2>3, <2>4, PlaceFacts DEF WorkerSound, Marked
    <2>6. pc'[v] = "unlink" => Unshared(j)'
        BY <1>1, <2>1, <2>2, <2>3 DEF WorkerSound, Shared, Unshared
    <2>7. \A u \in Workers \ {v} :
            pc'[v] \in Running /\ pc'[u] \in Running /\ work'[u].job = j
              => work'[u].attempt # work[v].attempt
        BY <1>2, <1>3, <2>2, <2>3, PlaceFacts DEF WorkerSound
    <2> QED
        BY <1>1, <2>1, <2>2, <2>3, <2>4, <2>5, <2>6, <2>7, PlaceFacts DEF WorkerSound
<1>8. ASSUME NEW j \in Jobs
      PROVE  JobSound(j)'
    <2>1. JobSound(j)
        BY DEF DeletionInv
    <2>2. status[j] = "deleted" => LockFree(j)'
        BY <1>5, <2>1 DEF JobSound
    <2>3. TriesCounted(deletion[j], failures[j])'
        BY <1>1, <2>1 DEF JobSound, TriesCounted, Spare, Waited
    <2>4. NobodyRuns(j, attempt[j]) => NobodyRuns(j, attempt[j])'
        BY <1>1, <1>6 DEF NobodyRuns
    <2>5. NobodyRuns(j, deletion[j].active) => NobodyRuns(j, deletion[j].active)'
        BY <1>1, <1>6 DEF NobodyRuns
    <2> QED
        BY <1>1, <2>1, <2>2, <2>3, <2>4, <2>5 DEF JobSound
<1> QED
    BY <1>4, <1>7, <1>8 DEF DeletionInv

\* Steps that touch scratch files or messages, or nothing but the worker's place.
LEMMA MoveSteps ==
    ASSUME DeletionAssumption, DeletionInv, NEW w \in Workers,
           \/ Fetch(w) \/ EnterIndex(w) \/ RemoveScratch(w) \/ EraseScratch(w)
           \/ CheckMedia(w) \/ EraseMessages(w) \/ StepFails(w)
    PROVE  DeletionInv'
<1>1. TypeOK
    BY DEF DeletionInv
<1>2. pc[w] # "idle" => work[w].job \in Jobs /\ work[w].attempt \in Nat
    BY <1>1, WorkFacts
<1>3. UNCHANGED <<jobVars, deletion, index, files, failures, work>>
    BY DEF Fetch, EnterIndex, RemoveScratch, EraseScratch, CheckMedia, EraseMessages,
           StepFails, artifacts
<1>4. scratch' \in [Jobs -> SUBSET Nat]
    BY <1>1, <1>2 DEF TypeOK, Fetch, EnterIndex, RemoveScratch, EraseScratch, CheckMedia,
                      EraseMessages, StepFails, artifacts
<1>5. messages' \in [Jobs -> SUBSET Int]
    BY <1>1, <1>2 DEF TypeOK, Fetch, EnterIndex, RemoveScratch, EraseScratch, CheckMedia,
                      EraseMessages, StepFails, artifacts
<1>6. faults' \in 0 .. MaxFaults
    BY <1>1 DEF TypeOK, Fetch, EnterIndex, RemoveScratch, EraseScratch, CheckMedia,
                EraseMessages, StepFails, Fault, DeletionAssumption
<1>7. CASE Fetch(w)
    <2>1. pc[w] = "run" /\ pc' = [pc EXCEPT ![w] = "fetched"]
        BY <1>7 DEF Fetch, Goto
    <2> QED
        BY <1>3, <1>4, <1>5, <1>6, <2>1, MoveStep
        DEF Places, Running, Executing, Cleared, Erasing, Passing
<1>8. CASE EnterIndex(w)
    <2>1. /\ pc[w] = "fetched" /\ pc' = [pc EXCEPT ![w] = "indexing"]
          /\ status[work[w].job] = "processing"
        BY <1>8 DEF EnterIndex, Goto, Owned
    <2> QED
        BY <1>3, <1>4, <1>5, <1>6, <2>1, MoveStep
        DEF Places, Running, Executing, Cleared, Erasing, Passing
<1>9. CASE RemoveScratch(w)
    <2>1. pc[w] = "leaving" /\ pc' = [pc EXCEPT ![w] = "acking"]
        BY <1>9 DEF RemoveScratch, Goto
    <2> QED
        BY <1>3, <1>4, <1>5, <1>6, <2>1, MoveStep
        DEF Places, Running, Executing, Cleared, Erasing, Passing
<1>10. CASE EraseScratch(w)
    <2>1. pc[w] = "scratch" /\ pc' = [pc EXCEPT ![w] = "media"]
        BY <1>10 DEF EraseScratch, Goto
    <2> QED
        BY <1>3, <1>4, <1>5, <1>6, <2>1, MoveStep
        DEF Places, Running, Executing, Cleared, Erasing, Passing
<1>11. CASE CheckMedia(w)
    <2>1. PICK step \in {"messages", "unlink"} :
            /\ pc[w] = "media" /\ pc' = [pc EXCEPT ![w] = step]
            /\ step = "unlink" => Unshared(work[w].job)
        BY <1>11 DEF CheckMedia, Goto, Unshared
    <2> QED
        BY <1>3, <1>4, <1>5, <1>6, <2>1, MoveStep
        DEF Places, Running, Executing, Cleared, Erasing, Passing
<1>12. CASE EraseMessages(w)
    <2>1. pc[w] = "messages" /\ pc' = [pc EXCEPT ![w] = "tombstone"]
        BY <1>12 DEF EraseMessages, Goto
    <2> QED
        BY <1>3, <1>4, <1>5, <1>6, <2>1, MoveStep
        DEF Places, Running, Executing, Cleared, Erasing, Passing
<1>13. CASE StepFails(w)
    <2>1. pc[w] \in Erasing /\ pc' = [pc EXCEPT ![w] = "error"]
        BY <1>13 DEF StepFails, Goto
    <2> QED
        BY <1>3, <1>4, <1>5, <1>6, <2>1, MoveStep
        DEF Places, Running, Executing, Cleared, Erasing, Passing
<1> QED
    BY <1>7, <1>8, <1>9, <1>10, <1>11, <1>12, <1>13

LEMMA CrashStep ==
    ASSUME DeletionAssumption, DeletionInv, NEW w \in Workers, Crash(w)
    PROVE  DeletionInv'
<1>1. /\ UNCHANGED <<jobVars, deletion, index, files, failures, scratch, messages>>
      /\ pc' = [pc EXCEPT ![w] = "idle"] /\ work' = [work EXCEPT ![w] = NoWork]
    BY DEF Crash, Loop, Goto, artifacts
<1>2. faults' \in 0 .. MaxFaults
    BY DEF Crash, Fault, DeletionAssumption, DeletionInv, TypeOK
<1>3. scratch' \in [Jobs -> SUBSET Nat] /\ messages' \in [Jobs -> SUBSET Int]
    BY <1>1 DEF DeletionInv, TypeOK
<1> QED
    BY <1>1, <1>2, <1>3, PlaceFacts, MoveStep
    DEF Places, Running, Executing, Cleared, Erasing, Passing

LEMMA CollectScratchStep ==
    ASSUME DeletionAssumption, DeletionInv, NEW w \in Workers, NEW j \in Jobs,
           CollectScratch(w, j)
    PROVE  DeletionInv'
<1>1. /\ UNCHANGED <<jobVars, deletion, index, files, failures, messages>>
      /\ pc' = pc /\ work' = work /\ faults' = faults /\ pc[w] = "idle"
    BY DEF CollectScratch
<1>2. /\ pc' = [pc EXCEPT ![w] = "idle"] /\ work' = [work EXCEPT ![w] = NoWork]
    BY <1>1, WorkFacts DEF DeletionInv, TypeOK
<1>3. scratch' \in [Jobs -> SUBSET Nat]
    BY DEF CollectScratch, DeletionInv, TypeOK
<1>4. messages' \in [Jobs -> SUBSET Int] /\ faults' \in 0 .. MaxFaults
    BY <1>1 DEF DeletionInv, TypeOK
<1> QED
    BY <1>1, <1>2, <1>3, <1>4, MoveStep
    DEF Places, Running, Executing, Cleared, Erasing, Passing

\* Vectors and originals change under the worker's step.
LEMMA ArtifactStep ==
    ASSUME DeletionAssumption, DeletionInv, NEW w \in Workers, NEW step \in Places,
           pc[w] # "idle",
           UNCHANGED <<jobVars, deletion, scratch, messages, work, failures, faults>>,
           NEW x \in SUBSET Nat, index' = [index EXCEPT ![work[w].job] = x],
           files' \subseteq files,
           pc' = [pc EXCEPT ![w] = step],
           \/ /\ pc[w] = "indexing" /\ step = "stored" /\ files' = files
           \/ /\ pc[w] = "vector" /\ step = "scratch" /\ files' = files
              /\ x = {} /\ LockFree(work[w].job)
           \/ /\ pc[w] = "unlink" /\ step = "messages" /\ index' = index
              /\ files' = files \ {MediaOf[work[w].job]}
    PROVE  DeletionInv'
<1> DEFINE i == work[w].job
<1>1. /\ status' = status /\ attempt' = attempt /\ lease' = lease /\ source' = source
      /\ deletion' = deletion /\ scratch' = scratch /\ messages' = messages
      /\ work' = work /\ failures' = failures /\ faults' = faults
    BY DEF jobVars
<1>2. /\ \A v \in Workers : pc'[v] = IF v = w THEN step ELSE pc[v]
      /\ \A k \in Jobs : index'[k] = IF k = i THEN x ELSE index[k]
      /\ i \in Jobs
    BY WorkFacts DEF DeletionInv, TypeOK
<1>3. /\ step # "idle" /\ step # "indexing" /\ step # "unlink" /\ step # "wait"
      /\ step \in Executing => pc[w] \in Executing
      /\ step \in Running => pc[w] \in Running
      /\ step \in Passing => pc[w] \in Passing
      /\ step \in Erasing => pc[w] \in Erasing
      /\ step \in Cleared => pc[w] \in Cleared \/ (x = {} /\ LockFree(i))
    BY DEF Running, Passing, Cleared, Executing, Erasing
<1>4. TypeOK'
    <2>1. pc' \in [Workers -> Places]
        BY DEF DeletionInv, TypeOK, Places
    <2>2. index' \in [Jobs -> SUBSET Nat] /\ files' \subseteq Files
        BY DEF DeletionInv, TypeOK
    <2> QED
        BY <1>1, <1>2, <1>3, <2>1, <2>2 DEF DeletionInv, TypeOK, Places
<1>5. ASSUME NEW j \in Jobs, LockFree(j)
      PROVE  LockFree(j)'
    BY <1>1, <1>2, <1>3, <1>5 DEF LockFree
<1>6. ASSUME NEW j \in Jobs, NEW a, NobodyRuns(j, a)
      PROVE  NobodyRuns(j, a)'
    BY <1>1, <1>2, <1>3, <1>6 DEF NobodyRuns
<1>7. \A j \in Jobs : LockFree(j) /\ index[j] = {} => index'[j] = {}
    BY <1>2 DEF LockFree
<1>8. ASSUME NEW v \in Workers
      PROVE  WorkerSound(v)'
    <2> DEFINE j == work[v].job
    <2>1. WorkerSound(v)
        BY DEF DeletionInv
    <2>2. pc'[v] # "idle" => pc[v] # "idle" /\ j \in Jobs
        BY <1>2, WorkFacts DEF DeletionInv
    <2>3. /\ pc'[v] \in Passing => pc[v] \in Passing
          /\ pc'[v] \in Erasing => pc[v] \in Erasing
          /\ pc'[v] \in Running => pc[v] \in Running
          /\ pc'[v] = "unlink" => pc[v] = "unlink"
          /\ pc'[v] = "wait" => pc[v] = "wait"
        BY <1>2, <1>3
    <2>4. ASSUME pc'[v] \in Cleared
          PROVE  index'[j] = {} /\ LockFree(j)'
        <3>1. PICK k \in Jobs : k = j
            BY <2>2, <2>4, PlaceFacts
        <3>2. CASE v = w
            <4>1. LockFree(k) /\ (index[k] = {} \/ (x = {} /\ k = i))
                BY <1>2, <1>3, <2>1, <2>4, <3>1, <3>2 DEF WorkerSound
            <4> QED
                BY <1>1, <1>2, <1>5, <1>7, <3>1, <4>1
        <3>3. CASE v # w
            BY <1>1, <1>2, <1>5, <1>7, <2>1, <2>4, <3>1, <3>3 DEF WorkerSound
        <3> QED
            BY <3>2, <3>3
    <2>5. pc'[v] = "unlink" => Unshared(j)'
        BY <1>1, <2>1, <2>3 DEF WorkerSound, Shared, Unshared
    <2>6. \A u \in Workers \ {v} :
            pc'[v] \in Running /\ pc'[u] \in Running /\ work[u].job = j
              => work[u].attempt # work[v].attempt
        BY <1>2, <1>3, <2>1, <2>3 DEF WorkerSound
    <2> QED
        BY <1>1, <2>1, <2>2, <2>3, <2>4, <2>5, <2>6 DEF WorkerSound
<1>9. ASSUME NEW j \in Jobs
      PROVE  JobSound(j)'
    <2>1. JobSound(j)
        BY DEF DeletionInv
    <2>2. status[j] = "deleted" => LockFree(j)' /\ index'[j] = {}
        BY <1>5, <1>7, <2>1 DEF JobSound
    <2>3. TriesCounted(deletion[j], failures[j])'
        BY <1>1, <2>1 DEF JobSound, TriesCounted, Spare, Waited
    <2>4. NobodyRuns(j, attempt[j]) => NobodyRuns(j, attempt[j])'
        BY <1>1, <1>6 DEF NobodyRuns
    <2>5. NobodyRuns(j, deletion[j].active) => NobodyRuns(j, deletion[j].active)'
        BY <1>1, <1>6 DEF NobodyRuns
    <2>6. status[j] \notin Marked /\ source[j] # NoFile => source[j] \in files'
        <3>1. CASE files' = files
            BY <2>1, <3>1 DEF JobSound
        <3>2. CASE pc[w] = "unlink" /\ files' = files \ {MediaOf[i]}
            BY <1>2, <2>1, <3>2, PlaceFacts DEF JobSound, DeletionInv, WorkerSound, Shared, Unshared
        <3> QED
            BY <3>1, <3>2
    <2> QED
        BY <1>1, <2>1, <2>2, <2>3, <2>4, <2>5, <2>6 DEF JobSound
<1> QED
    BY <1>4, <1>8, <1>9 DEF DeletionInv

LEMMA ArtifactSteps ==
    ASSUME DeletionAssumption, DeletionInv, NEW w \in Workers,
           WriteIndex(w) \/ EraseIndex(w) \/ EraseMedia(w)
    PROVE  DeletionInv'
<1> DEFINE i == work[w].job
<1>1. pc[w] # "idle"
    BY DEF WriteIndex, EraseIndex, EraseMedia
<1>2. i \in Jobs /\ work[w].attempt \in Nat /\ index \in [Jobs -> SUBSET Nat]
    BY <1>1, WorkFacts DEF DeletionInv, TypeOK
<1>3. UNCHANGED <<jobVars, deletion, scratch, messages, work, failures, faults>>
    BY DEF WriteIndex, EraseIndex, EraseMedia
<1>4. CASE WriteIndex(w)
    <2> DEFINE x == index[i] \cup {work[w].attempt}
    <2>1. /\ pc[w] = "indexing" /\ pc' = [pc EXCEPT ![w] = "stored"] /\ files' = files
          /\ index' = [index EXCEPT ![i] = x]
        BY <1>2, <1>4 DEF WriteIndex, Goto
    <2>2. x \in SUBSET Nat
        BY <1>2
    <2> HIDE DEF x
    <2> QED
        BY <1>1, <1>3, <2>1, <2>2, ArtifactStep DEF Places, Executing
<1>5. CASE EraseIndex(w)
    <2> DEFINE x == {}
    <2>1. /\ pc[w] = "vector" /\ pc' = [pc EXCEPT ![w] = "scratch"] /\ files' = files
          /\ index' = [index EXCEPT ![i] = x] /\ LockFree(i)
        BY <1>5 DEF EraseIndex, Goto, MayErase
    <2>2. x \in SUBSET Nat /\ x = {}
        OBVIOUS
    <2> HIDE DEF x
    <2> QED
        BY <1>1, <1>3, <2>1, <2>2, ArtifactStep DEF Places, Erasing
<1>6. CASE EraseMedia(w)
    <2>1. /\ pc[w] = "unlink" /\ pc' = [pc EXCEPT ![w] = "messages"]
          /\ files' = files \ {MediaOf[i]} /\ index' = index
        BY <1>6 DEF EraseMedia, Goto
    <2>2. index' = [index EXCEPT ![i] = index[i]] /\ index[i] \in SUBSET Nat
        BY <1>2, <2>1
    <2> QED
        BY <1>1, <1>3, <2>1, <2>2, ArtifactStep DEF Places, Erasing
<1> QED
    BY <1>4, <1>5, <1>6

LEMMA CollectMediaStep ==
    ASSUME DeletionAssumption, DeletionInv, NEW w \in Workers, CollectMedia(w)
    PROVE  DeletionInv'
<1>1. PICK f \in files : Unreferenced(f) /\ files' = files \ {f}
    BY DEF CollectMedia
<1>2. /\ status' = status /\ attempt' = attempt /\ lease' = lease /\ source' = source
      /\ deletion' = deletion /\ index' = index /\ scratch' = scratch
      /\ messages' = messages /\ pc' = pc /\ work' = work
      /\ failures' = failures /\ faults' = faults
    BY DEF CollectMedia, jobVars
<1>3. TypeOK'
    BY <1>1, <1>2 DEF DeletionInv, TypeOK
<1>4. (\A v \in Workers : WorkerSound(v))'
    BY <1>2 DEF DeletionInv, WorkerSound, LockFree, Shared, Unshared
<1>5. ASSUME NEW j \in Jobs
      PROVE  JobSound(j)'
    <2>1. JobSound(j)
        BY DEF DeletionInv
    <2>2. source[j] # f
        BY <1>1 DEF Unreferenced
    <2>3. (TriesCounted(deletion[j], failures[j]))'
        BY <1>2, <2>1 DEF JobSound, TriesCounted, Spare, Waited
    <2> QED
        BY <1>1, <1>2, <2>1, <2>2, <2>3 DEF JobSound, LockFree, NobodyRuns
<1> QED
    BY <1>3, <1>4, <1>5 DEF DeletionInv

\* A job that is not marked changes its status, its lease or its attempt, and a
\* worker may begin or end an execution of it.
LEMMA StatusStep ==
    ASSUME DeletionAssumption, DeletionInv, NEW j \in Jobs, NEW s \in Statuses,
           NEW n \in Nat, NEW b \in BOOLEAN,
           status' = [status EXCEPT ![j] = s], attempt' = [attempt EXCEPT ![j] = n],
           lease' = [lease EXCEPT ![j] = b],
           UNCHANGED <<source, deletion, artifacts, failures, faults>>,
           n \in {attempt[j], attempt[j] + 1},
           s = status[j] \/ (s \notin Marked /\ status[j] \notin Marked),
           \/ UNCHANGED <<pc, work>> /\ b = FALSE
           \/ \E w \in Workers :
                /\ pc[w] \in Executing /\ pc' = [pc EXCEPT ![w] = "leaving"]
                /\ UNCHANGED work
                /\ b /\ s \in {"queued", "settled"} =>
                     work[w].job = j /\ work[w].attempt = n
           \/ \E w \in Workers :
                /\ pc[w] = "idle" /\ pc' = [pc EXCEPT ![w] = "run"]
                /\ work' = [work EXCEPT ![w] = [job |-> j, attempt |-> n, tries |-> 0]]
                /\ status[j] = "queued" /\ s = "processing" /\ n = attempt[j] + 1
    PROVE  DeletionInv'
<1>1. /\ source' = source /\ deletion' = deletion /\ index' = index /\ scratch' = scratch
      /\ files' = files /\ messages' = messages /\ failures' = failures /\ faults' = faults
    BY DEF artifacts
<1>2. /\ \A k \in Jobs : status'[k] = IF k = j THEN s ELSE status[k]
      /\ \A k \in Jobs : attempt'[k] = IF k = j THEN n ELSE attempt[k]
      /\ \A k \in Jobs : lease'[k] = IF k = j THEN b ELSE lease[k]
      /\ status' \in [Jobs -> Statuses] /\ attempt' \in [Jobs -> Nat]
      /\ lease' \in [Jobs -> BOOLEAN]
      /\ \A k \in Jobs : attempt[k] \in Nat
    BY DEF DeletionInv, TypeOK
<1> DEFINE new == [job |-> j, attempt |-> n, tries |-> 0]
           began(v) == /\ pc[v] = "idle" /\ pc'[v] = "run" /\ work'[v] = new
                       /\ status[j] = "queued" /\ s = "processing" /\ n = attempt[j] + 1
                       /\ \A u \in Workers \ {v} : pc'[u] = pc[u] /\ work'[u] = work[u]
           left(v) == pc[v] \in Executing /\ pc'[v] = "leaving" /\ work'[v] = work[v]
           same(v) == pc'[v] = pc[v] /\ work'[v] = work[v]
<1>3. new \in Work /\ new.job = j /\ new.attempt = n
    BY DEF Work, DeletionAssumption
<1> HIDE DEF new
<1>4. \A v \in Workers : began(v) \/ left(v) \/ same(v)
    BY DEF DeletionInv, TypeOK, new
<1>5. TypeOK'
    <2>1. pc' \in [Workers -> Places] /\ work' \in [Workers -> Work \cup {NoWork}]
        BY <1>3 DEF DeletionInv, TypeOK, Places, Executing, new
    <2>2. \A v \in Workers : IF pc'[v] = "idle" THEN work'[v] = NoWork ELSE work'[v] \in Work
        BY <1>3, <1>4, PlaceFacts DEF DeletionInv, TypeOK
    <2> QED
        BY <1>1, <1>2, <2>1, <2>2 DEF DeletionInv, TypeOK, Places
<1>6. ASSUME NEW v \in Workers
      PROVE  /\ pc'[v] \in Running => pc[v] \in Running \/ began(v)
             /\ pc'[v] \in Executing => same(v) \/ began(v)
             /\ pc'[v] \in Passing => same(v)
             /\ pc'[v] = "indexing" => same(v)
    BY <1>4, PlaceFacts DEF Running, Passing, Executing, Erasing
<1>7. ASSUME NEW k \in Jobs, LockFree(k)
      PROVE  LockFree(k)'
    BY <1>6, <1>7 DEF LockFree
<1>8. ASSUME NEW k \in Jobs, NEW a, NobodyRuns(k, a), k # j \/ a # attempt[j] + 1
      PROVE  NobodyRuns(k, a)'
    BY <1>3, <1>6, <1>8 DEF NobodyRuns
<1>9. \A k \in Jobs : status[k] \in Marked <=> status'[k] \in Marked
    BY <1>2
<1>10. ASSUME NEW v \in Workers
       PROVE  WorkerSound(v)'
    <2>1. WorkerSound(v)
        BY DEF DeletionInv
    <2>2. CASE began(v)
        <3>1. /\ pc'[v] \in Running /\ pc'[v] \notin Passing /\ pc'[v] # "unlink"
              /\ pc'[v] \notin Cleared /\ pc'[v] \notin Erasing
            BY <2>2 DEF Running, Passing, Executing, Erasing, Cleared
        <3>2. \A u \in Workers \ {v} : pc'[u] \in Running /\ work'[u].job = j
                => work'[u].attempt # n
            BY <1>2, <2>2, WorkFacts, PlaceFacts, SMTT(30) DEF DeletionInv, WorkerSound
        <3> QED
            BY <1>2, <1>3, <2>2, <3>1, <3>2 DEF WorkerSound
    <2>3. CASE ~began(v)
        <3> DEFINE i == work[v].job
        <3>1. /\ work'[v] = work[v]
              /\ pc'[v] # "idle" => i \in Jobs /\ work[v].attempt \in Nat
            BY <1>4, <2>3, WorkFacts, PlaceFacts DEF DeletionInv
        <3>2. /\ pc'[v] \in Running => pc[v] \in Running
              /\ pc'[v] \in Passing => pc'[v] = pc[v]
            BY <1>6, <2>3
        <3>3. pc'[v] \in Passing => status'[i] \in Marked
            BY <1>9, <2>1, <3>1, <3>2, PlaceFacts DEF WorkerSound
        <3>4. ASSUME pc'[v] \in Cleared
              PROVE  index'[i] = {} /\ LockFree(i)'
            <4>1. PICK k \in Jobs : k = i
                BY <3>1, <3>4, PlaceFacts
            <4> QED
                BY <1>1, <1>7, <2>1, <3>1, <3>2, <3>4, <4>1, PlaceFacts DEF WorkerSound
        <3>5. pc'[v] = "unlink" => Unshared(i)'
            BY <1>1, <2>1, <3>1, <3>2, PlaceFacts DEF WorkerSound, Shared, Unshared
        <3>6. pc'[v] \in Running /\ status'[i] # "deleted" => work[v].attempt <= attempt'[i]
            BY <1>2, <2>1, <3>1, <3>2, PlaceFacts DEF WorkerSound, Marked
        <3>7. ASSUME NEW u \in Workers \ {v}, pc'[v] \in Running, pc'[u] \in Running,
                     work'[u].job = i
              PROVE  work'[u].attempt # work[v].attempt
            <4>1. CASE began(u)
                <5>1. i = j /\ work'[u].attempt = attempt[j] + 1 /\ status[j] # "deleted"
                    BY <1>3, <3>7, <4>1
                <5>2. work[v].attempt <= attempt[j] /\ work[v].attempt \in Nat
                    BY <2>1, <3>1, <3>2, <3>7, <5>1, PlaceFacts DEF WorkerSound
                <5> QED
                    BY <1>2, <5>1, <5>2
            <4>2. CASE ~began(u)
                BY <1>4, <1>6, <2>1, <3>2, <3>7, <4>2 DEF WorkerSound
            <4> QED
                BY <4>1, <4>2
        <3> QED
            BY <1>1, <2>1, <3>1, <3>2, <3>3, <3>4, <3>5, <3>6, <3>7, PlaceFacts
            DEF WorkerSound
    <2> QED
        BY <2>2, <2>3
<1>11. ASSUME NEW k \in Jobs
       PROVE  JobSound(k)'
    <2>1. JobSound(k)
        BY DEF DeletionInv
    <2>2. status'[k] = "deleted" => LockFree(k)' /\ index'[k] = {}
        BY <1>1, <1>2, <1>7, <2>1 DEF JobSound, Marked
    <2>3. TriesCounted(deletion[k], failures[k])'
        BY <1>1, <2>1 DEF JobSound, TriesCounted, Spare, Waited
    <2>4. ASSUME status'[k] \in {"queued", "settled"}, lease'[k]
          PROVE  NobodyRuns(k, attempt[k])'
        <3>1. CASE k # j
            <4>1. NobodyRuns(k, attempt[k]) /\ attempt'[k] = attempt[k]
                BY <1>2, <2>1, <2>4, <3>1 DEF JobSound
            <4>2. \A v \in Workers : pc'[v] \in Executing /\ work'[v].job = k => same(v)
                BY <1>3, <1>6, <3>1
            <4> QED
                BY <4>1, <4>2 DEF NobodyRuns
        <3>2. CASE k = j
            <4>1. b /\ s \in {"queued", "settled"}
                BY <1>2, <2>4, <3>2
            <4>2. PICK w \in Workers : /\ pc[w] \in Executing /\ pc'[w] = "leaving"
                                       /\ work' = work
                                       /\ work[w].job = j /\ work[w].attempt = n
                                       /\ \A v \in Workers \ {w} : pc'[v] = pc[v]
                BY <4>1 DEF DeletionInv, TypeOK
            <4>3. \A v \in Workers \ {w} : pc[v] \in Executing /\ work[v].job = j
                    => work[v].attempt # n
                BY <4>2, PlaceFacts DEF DeletionInv, WorkerSound
            <4> QED
                BY <1>2, <3>2, <4>2, <4>3 DEF NobodyRuns, Executing
        <3> QED
            BY <3>1, <3>2
    <2>5. ASSUME deletion[k].wait, deletion[k].stopped
          PROVE  NobodyRuns(k, deletion[k].active)'
        <3>1. NobodyRuns(k, deletion[k].active) /\ status[k] \in Marked
            BY <2>1, <2>5 DEF JobSound
        <3>2. k = j => \A v \in Workers : ~began(v)
            BY <3>1 DEF Marked
        <3> QED
            BY <1>1, <1>6, <3>1, <3>2, <1>3 DEF NobodyRuns
    <2> QED
        BY <1>1, <1>9, <2>1, <2>2, <2>3, <2>4, <2>5 DEF JobSound
<1> QED
    BY <1>5, <1>10, <1>11 DEF DeletionInv

LEMMA StatusSteps ==
    ASSUME DeletionAssumption, DeletionInv, NEW j \in Jobs,
           \/ \E w \in Workers : Claim(w, j) \/ Recover(w, j)
           \/ CancelJob(j) \/ LeaseEnds(j)
    PROVE  DeletionInv'
<1> SUFFICES ASSUME TypeOK
             PROVE  DeletionInv'
    BY DEF DeletionInv
<1>1. /\ status[j] \in Statuses /\ attempt[j] \in Nat /\ attempt[j] + 1 \in Nat
      /\ status = [status EXCEPT ![j] = status[j]]
      /\ attempt = [attempt EXCEPT ![j] = attempt[j]]
      /\ lease = [lease EXCEPT ![j] = lease[j]]
    BY DEF TypeOK
<1>2. ASSUME NEW w \in Workers, Claim(w, j)
      PROVE  DeletionInv'
    <2> DEFINE s == "processing"
               n == attempt[j] + 1
               b == TRUE
    <2>1. /\ UNCHANGED <<source, deletion, artifacts, failures, faults>>
          /\ pc[w] = "idle" /\ pc' = [pc EXCEPT ![w] = "run"]
          /\ work' = [work EXCEPT ![w] = [job |-> j, attempt |-> n, tries |-> 0]]
          /\ status[j] = "queued"
          /\ status' = [status EXCEPT ![j] = s] /\ attempt' = [attempt EXCEPT ![j] = n]
          /\ lease' = [lease EXCEPT ![j] = b]
        BY <1>2 DEF Claim, Goto
    <2>2. s \in Statuses \ Marked /\ n \in Nat /\ b \in BOOLEAN
        BY <1>1 DEF Statuses, Marked
    <2>3. s = "processing" /\ n = attempt[j] + 1
        OBVIOUS
    <2> HIDE DEF s, n, b
    <2> QED
        BY <2>1, <2>2, <2>3, StatusStep DEF Marked
<1>3. ASSUME \/ (\E w \in Workers : Recover(w, j))
             \/ CancelJob(j) \/ LeaseEnds(j)
      PROVE  DeletionInv'
    <2>1. PICK s \in Statuses, n \in {attempt[j], attempt[j] + 1} :
            /\ status' = [status EXCEPT ![j] = s] /\ attempt' = [attempt EXCEPT ![j] = n]
            /\ lease' = [lease EXCEPT ![j] = FALSE]
            /\ s = status[j] \/ (s \notin Marked /\ status[j] \notin Marked)
            /\ UNCHANGED <<source, deletion, artifacts, failures, faults, pc, work>>
        <3>1. CASE \E w \in Workers : Recover(w, j)
            <4>1. PICK s \in {"queued", "settled"} :
                    /\ status' = [status EXCEPT ![j] = s] /\ attempt' = attempt
                    /\ lease' = lease /\ ~lease[j] /\ status[j] = "processing"
                    /\ UNCHANGED <<source, deletion, artifacts, failures, faults, pc, work>>
                BY <3>1 DEF Recover
            <4>2. lease' = [lease EXCEPT ![j] = FALSE]
                BY <4>1 DEF TypeOK
            <4>3. s \in Statuses \ Marked /\ status[j] \notin Marked
                BY <4>1 DEF Statuses, Marked
            <4> QED
                BY <1>1, <4>1, <4>2, <4>3
        <3>2. CASE CancelJob(j)
            <4>1. "settled" \in Statuses \ Marked /\ status[j] \notin Marked
                BY <3>2 DEF CancelJob, Statuses, Marked
            <4> QED
                BY <3>2, <4>1 DEF CancelJob
        <3>3. CASE LeaseEnds(j)
            BY <1>1, <3>3 DEF LeaseEnds
        <3> QED
            BY <1>3, <3>1, <3>2, <3>3
    <2>2. n \in Nat /\ FALSE \in BOOLEAN
        BY <1>1
    <2> DEFINE b == FALSE
    <2>3. lease' = [lease EXCEPT ![j] = b] /\ b \in BOOLEAN /\ b = FALSE
        BY <2>1
    <2> HIDE DEF b
    <2> QED
        BY <2>1, <2>2, <2>3, StatusStep
<1> QED
    BY <1>2, <1>3

LEMMA EndRunSteps ==
    ASSUME DeletionAssumption, DeletionInv, NEW w \in Workers, Complete(w) \/ FailRun(w)
    PROVE  DeletionInv'
<1> DEFINE j == work[w].job
           owned == Owned(j, work[w].attempt)
<1>1. /\ pc[w] \in Executing /\ pc' = [pc EXCEPT ![w] = "leaving"]
      /\ UNCHANGED <<attempt, source, deletion, artifacts, work, failures, faults>>
    BY DEF Complete, FailRun, Goto, Executing
<1>2. TypeOK /\ j \in Jobs
    BY <1>1, WorkFacts, PlaceFacts DEF DeletionInv
<1>3. /\ status[j] \in Statuses /\ attempt[j] \in Nat
      /\ status = [status EXCEPT ![j] = status[j]]
      /\ attempt = [attempt EXCEPT ![j] = attempt[j]]
      /\ lease = [lease EXCEPT ![j] = lease[j]] /\ lease[j] \in BOOLEAN
    BY <1>2 DEF TypeOK
<1>4. CASE owned
    <2>1. PICK s \in {"queued", "settled"}, b \in BOOLEAN :
            status' = [status EXCEPT ![j] = s] /\ lease' = [lease EXCEPT ![j] = b]
        BY <1>3, <1>4 DEF Complete, FailRun
    <2>2. status[j] = "processing" /\ work[w].attempt = attempt[j]
        BY <1>4 DEF Owned
    <2>3. s \in Statuses /\ s \notin Marked /\ status[j] \notin Marked
        BY <2>2 DEF Statuses, Marked
    <2>4. attempt' = [attempt EXCEPT ![j] = attempt[j]]
        BY <1>1, <1>3
    <2> QED
        BY <1>1, <1>2, <1>3, <2>1, <2>2, <2>3, <2>4, StatusStep
<1>5. CASE ~owned
    <2>1. status' = status /\ lease' = lease /\ attempt' = attempt /\ source' = source
        BY <1>1, <1>5 DEF Complete, FailRun
    <2>2. scratch' \in [Jobs -> SUBSET Nat] /\ messages' \in [Jobs -> SUBSET Int]
          /\ faults' \in 0 .. MaxFaults
        BY <1>1, <1>2 DEF artifacts, TypeOK
    <2>3. UNCHANGED <<jobVars, deletion, index, files, failures, work>>
        BY <1>1, <2>1 DEF jobVars, artifacts
    <2> QED
        BY <1>1, <2>2, <2>3, MoveStep, PlaceFacts
        DEF Places, Running, Executing, Cleared, Erasing, Passing
<1> QED
    BY <1>4, <1>5

\* The marker: it waits for the attempt that holds the job, if one does.
LEMMA MarkStep ==
    ASSUME DeletionAssumption, DeletionInv, NEW j \in Jobs, MarkDeleting(j)
    PROVE  DeletionInv'
<1> DEFINE d == [NoCleanup EXCEPT !.state = "pending", !.active = attempt[j],
                     !.wait = lease[j], !.stopped = (status[j] # "processing")]
<1>1. /\ source' = source /\ index' = index /\ scratch' = scratch /\ files' = files
      /\ messages' = messages /\ pc' = pc /\ work' = work
      /\ failures' = failures /\ faults' = faults
    BY DEF MarkDeleting, artifacts
<1>2. /\ status[j] \notin Marked /\ status[j] \in Statuses
      /\ attempt[j] \in Nat /\ lease[j] \in BOOLEAN /\ failures[j] \in Nat
    BY DEF MarkDeleting, Marked, DeletionInv, TypeOK
<1>3. /\ d \in Cleanup /\ d.state = "pending" /\ d.token = NoWorker /\ d.attempts = 0
      /\ d.active = attempt[j] /\ d.wait = lease[j] /\ d.stopped = (status[j] # "processing")
    <2>1. /\ NoCleanup \in Cleanup /\ NoCleanup.token = NoWorker
          /\ NoCleanup.attempts = 0
        BY DEF NoCleanup, Cleanup, DeletionAssumption
    <2> QED
        BY <1>2, <2>1 DEF Cleanup
<1>4. deletion' = [deletion EXCEPT ![j] = d]
    BY DEF MarkDeleting
<1> HIDE DEF d
<1>5. /\ \A k \in Jobs : status'[k] = IF k = j THEN "deleting" ELSE status[k]
      /\ \A k \in Jobs : attempt'[k] = IF k = j THEN attempt[j] + 1 ELSE attempt[k]
      /\ \A k \in Jobs : lease'[k] = IF k = j THEN FALSE ELSE lease[k]
      /\ \A k \in Jobs : deletion'[k] = IF k = j THEN d ELSE deletion[k]
      /\ status' \in [Jobs -> Statuses] /\ attempt' \in [Jobs -> Nat]
      /\ lease' \in [Jobs -> BOOLEAN] /\ deletion' \in [Jobs -> Cleanup]
    BY <1>2, <1>3, <1>4 DEF MarkDeleting, DeletionInv, TypeOK, Statuses
<1>6. TypeOK'
    BY <1>1, <1>3, <1>5 DEF DeletionInv, TypeOK
<1>7. ASSUME NEW v \in Workers
      PROVE  WorkerSound(v)'
    <2> DEFINE i == work[v].job
    <2>1. WorkerSound(v)
        BY DEF DeletionInv
    <2>2. pc[v] # "idle" => i \in Jobs /\ work[v].attempt \in Nat /\ attempt[i] \in Nat
        BY WorkFacts DEF DeletionInv, TypeOK
    <2>3. pc[v] \in Passing => i # j
        BY <1>2, <2>1 DEF WorkerSound
    <2>4. pc[v] \in Running /\ status'[i] # "deleted" => work[v].attempt <= attempt'[i]
        <3>1. pc[v] \in Running /\ status[i] # "deleted" => work[v].attempt <= attempt[i]
            BY <2>1 DEF WorkerSound
        <3>2. status[j] # "deleted"
            BY <1>2 DEF Marked
        <3>3. ASSUME NEW k \in Jobs, NEW a \in Nat, a <= attempt[k]
              PROVE  a <= attempt'[k]
            <4>1. attempt[k] \in Nat /\ attempt'[k] \in {attempt[k], attempt[k] + 1}
                BY <1>5 DEF DeletionInv, TypeOK
            <4> QED
                BY <3>3, <4>1
        <3>4. pc[v] # "idle" /\ status[i] = "deleted" => status'[i] = "deleted"
            BY <1>5, <2>2, <3>2
        <3> QED
            BY <2>2, <3>1, <3>3, <3>4, PlaceFacts
    <2> QED
        BY <1>1, <1>5, <2>1, <2>2, <2>3, <2>4, PlaceFacts, ZenonT(60) DEF WorkerSound, LockFree, Shared, Unshared
<1>8. ASSUME NEW k \in Jobs
      PROVE  JobSound(k)'
    <2>1. JobSound(k)
        BY DEF DeletionInv
    <2>2. CASE k # j
        <3>1. (TriesCounted(deletion[k], failures[k]))'
            BY <1>1, <1>5, <2>1, <2>2 DEF JobSound, TriesCounted, Spare, Waited
        <3> QED
            BY <1>1, <1>5, <2>1, <2>2, <3>1 DEF JobSound, LockFree, NobodyRuns
    <2>3. CASE k = j
        <3>1. (TriesCounted(deletion[k], failures[k]))'
            <4>1. ASSUME NEW m \in Nat PROVE TriesCounted(d, m)
                <5>1. Spare(d) \in {0, 1}
                    BY DEF Spare
                <5>2. 0 <= m + Spare(d)
                    BY <5>1
                <5> QED
                    BY <1>3, <5>2 DEF TriesCounted
            <4>2. deletion'[k] = d /\ failures'[k] = failures[j]
                BY <1>1, <1>5, <2>3
            <4>3. TriesCounted(d, failures[j])
                BY <1>2, <4>1
            <4> QED
                BY <4>2, <4>3 DEF TriesCounted, Spare, Waited
        <3>2. d.wait /\ d.stopped => NobodyRuns(j, d.active)
            BY <1>2, <1>3, <2>1, <2>3 DEF JobSound, Statuses, Marked
        <3>3. (deletion[k].wait /\ deletion[k].stopped => NobodyRuns(k, deletion[k].active))'
            BY <1>1, <1>5, <2>3, <3>2 DEF NobodyRuns
        <3> QED
            BY <1>1, <1>5, <2>3, <3>1, <3>3 DEF JobSound, Marked
    <2> QED
        BY <2>2, <2>3
<1> QED
    BY <1>6, <1>7, <1>8 DEF DeletionInv

\* Whether the record may say that the worker stopped: its attempt just ended.
Answered(j, d) ==
    \/ deletion[j].stopped \/ ~d.stopped \/ ~d.wait
    \/ \E w \in Workers :
         pc[w] \in Running /\ pc'[w] = "idle" /\ work[w].job = j
         /\ work[w].attempt = deletion[j].active

\* The pass the record names took it up, or goes on with what it took up.
PassKept(j, d, n) ==
    \A v \in Workers : d.token = v /\ pc'[v] \in Passing /\ work'[v].job = j =>
      \/ /\ deletion[j].token = v /\ d.attempts = deletion[j].attempts
         /\ failures[j] <= n /\ pc[v] \in Passing
      \/ pc[v] = "idle"

\* At most one worker moves: it ends, or begins the pass.
EndsOrBegins(j, d, n) ==
    \/ UNCHANGED <<pc, work>>
    \/ \E w \in Workers : /\ pc' = [pc EXCEPT ![w] = "idle"]
                          /\ work' = [work EXCEPT ![w] = NoWork]
    \/ \E w \in Workers, step \in {"wait", "vector"} :
         /\ pc[w] = "idle" /\ status[j] = "deleting"
         /\ pc' = [pc EXCEPT ![w] = step]
         /\ work' = [work EXCEPT ![w] = [job |-> j, attempt |-> 0, tries |-> d.attempts]]
         /\ d.token = w
         /\ step = "vector" => ~d.wait \/ d.stopped
         /\ step = "wait" => d.attempts <= n + 1

\* The deletion record of a job changes: a pass begins or ends, a date comes,
\* the worker answers, or the owner asks again.
LEMMA RecordStep ==
    ASSUME DeletionAssumption, DeletionInv, NEW j \in Jobs, NEW d \in Cleanup,
           NEW n \in 0 .. MaxCleanups + 1,
           deletion' = [deletion EXCEPT ![j] = d],
           failures' = [failures EXCEPT ![j] = n],
           UNCHANGED <<jobVars, artifacts>>, faults' \in 0 .. MaxFaults,
           d.token # NoWorker <=> d.state = "working",
           d.wait => deletion[j].wait,
           d.active = deletion[j].active,
           deletion[j].stopped => d.stopped,
           Answered(j, d), TriesCounted(d, n), PassKept(j, d, n), EndsOrBegins(j, d, n)
    PROVE  DeletionInv'
<1> USE DEF Answered, PassKept, EndsOrBegins
<1> DEFINE new == [job |-> j, attempt |-> 0, tries |-> d.attempts]
           same(v) == pc'[v] = pc[v] /\ work'[v] = work[v]
           ended(v) == pc'[v] = "idle" /\ work'[v] = NoWork
           began(v) == /\ pc[v] = "idle" /\ pc'[v] \in {"wait", "vector"} /\ work'[v] = new
                       /\ status[j] = "deleting" /\ d.token = v
                       /\ pc'[v] = "vector" => ~d.wait \/ d.stopped
                       /\ pc'[v] = "wait" => d.attempts <= n + 1
<1>1. /\ status' = status /\ attempt' = attempt /\ lease' = lease /\ source' = source
      /\ index' = index /\ scratch' = scratch /\ files' = files /\ messages' = messages
    BY DEF jobVars, artifacts
<1>2. /\ \A k \in Jobs : deletion'[k] = IF k = j THEN d ELSE deletion[k]
      /\ \A k \in Jobs : failures'[k] = IF k = j THEN n ELSE failures[k]
      /\ deletion' \in [Jobs -> Cleanup] /\ failures' \in [Jobs -> 0 .. MaxCleanups + 1]
    BY DEF DeletionInv, TypeOK
<1>3. new \in Work /\ new.job = j /\ new.attempt = 0 /\ new.tries = d.attempts
    BY DEF Work, Cleanup, DeletionAssumption
<1> HIDE DEF new
<1>4. \A v \in Workers : same(v) \/ ended(v) \/ began(v)
    <2>1. CASE UNCHANGED <<pc, work>>
        BY <2>1
    <2>2. CASE \E w \in Workers : /\ pc' = [pc EXCEPT ![w] = "idle"]
                                  /\ work' = [work EXCEPT ![w] = NoWork]
        BY <2>2 DEF DeletionInv, TypeOK
    <2>3. CASE \E w \in Workers, step \in {"wait", "vector"} :
                 /\ pc[w] = "idle" /\ status[j] = "deleting"
                 /\ pc' = [pc EXCEPT ![w] = step] /\ work' = [work EXCEPT ![w] = new]
                 /\ d.token = w
                 /\ step = "vector" => ~d.wait \/ d.stopped
                 /\ step = "wait" => d.attempts <= n + 1
        BY <2>3 DEF DeletionInv, TypeOK
    <2> QED
        BY <2>1, <2>2, <2>3 DEF new
<1>5. TypeOK'
    <2>1. pc' \in [Workers -> Places] /\ work' \in [Workers -> Work \cup {NoWork}]
        <3>1. pc \in [Workers -> Places] /\ work \in [Workers -> Work \cup {NoWork}]
            BY PlaceTypes
        <3>2. {"idle", "wait", "vector"} \subseteq Places
            BY DEF Places, Erasing
        <3>3. \/ UNCHANGED <<pc, work>>
              \/ \E w \in Workers, step \in {"idle", "wait", "vector"}, x \in {NoWork, new} :
                   pc' = [pc EXCEPT ![w] = step] /\ work' = [work EXCEPT ![w] = x]
            BY DEF new
        <3> QED
            BY <1>3, <3>1, <3>2, <3>3
    <2>2. \A v \in Workers : IF pc'[v] = "idle" THEN work'[v] = NoWork ELSE work'[v] \in Work
        BY <1>3, <1>4 DEF DeletionInv, TypeOK
    <2> QED
        BY <1>1, <1>2, <2>1, <2>2 DEF DeletionInv, TypeOK, Places
<1>6. ASSUME NEW v \in Workers
      PROVE  /\ pc'[v] \in Running => same(v)
             /\ pc'[v] \in Executing => same(v)
             /\ pc'[v] \in Cleared => same(v)
             /\ pc'[v] = "indexing" => same(v)
             /\ pc'[v] = "unlink" => same(v)
             /\ pc'[v] \in Passing => same(v) \/ began(v)
    BY <1>4 DEF Running, Passing, Executing, Erasing, Cleared
<1>7. ASSUME NEW k \in Jobs, LockFree(k)
      PROVE  LockFree(k)'
    BY <1>6, <1>7 DEF LockFree
<1>8. ASSUME NEW k \in Jobs, NEW a, NobodyRuns(k, a)
      PROVE  NobodyRuns(k, a)'
    BY <1>6, <1>8 DEF NobodyRuns
<1>9. ASSUME NEW v \in Workers
      PROVE  WorkerSound(v)'
    <2>1. WorkerSound(v)
        BY DEF DeletionInv
    <2>2. CASE began(v)
        <3>1. /\ pc'[v] \notin Running /\ pc'[v] \notin Cleared /\ pc'[v] # "unlink"
              /\ pc'[v] \in Erasing => pc'[v] = "vector"
            BY <2>2 DEF Running, Executing, Erasing, Cleared
        <3> QED
            BY <1>1, <1>2, <1>3, <2>2, <3>1 DEF WorkerSound, Marked
    <2>3. CASE same(v) /\ ~began(v)
        <3> DEFINE i == work[v].job
        <3>1. pc[v] # "idle" => i \in Jobs
            BY WorkFacts DEF DeletionInv
        <3>2. ASSUME pc[v] \in Cleared
              PROVE  index'[i] = {} /\ LockFree(i)'
            <4>1. PICK k \in Jobs : k = i
                BY <3>1, <3>2, PlaceFacts
            <4> QED
                BY <1>1, <1>7, <2>1, <2>3, <3>2, <4>1 DEF WorkerSound
        <3>3. pc[v] = "unlink" => Unshared(i)'
            <4>1. pc[v] = "unlink" => Unshared(i)
                BY <2>1 DEF WorkerSound
            <4>2. ASSUME NEW k PROVE Unshared(k) => Unshared(k)'
                BY <1>1 DEF Shared, Unshared
            <4>3. Unshared(i) => Unshared(i)'
                BY <2>3, <4>2
            <4> QED
                BY <4>1, <4>3
        <3>4. pc[v] \in Erasing => ~deletion'[i].wait \/ deletion'[i].stopped
            BY <1>2, <2>1, <3>1, PlaceFacts DEF WorkerSound
        <3>5. pc[v] \in Passing /\ deletion'[i].token = v =>
                /\ work[v].tries = deletion'[i].attempts
                /\ pc[v] = "wait" => deletion'[i].attempts <= failures'[i] + 1
            <4>1. CASE i = j
                <5> SUFFICES ASSUME pc[v] \in Passing, d.token = v
                             PROVE  /\ work[v].tries = d.attempts
                                    /\ pc[v] = "wait" => d.attempts <= n + 1
                    BY <1>2, <4>1
                <5>1. /\ deletion[j].token = v /\ d.attempts = deletion[j].attempts
                      /\ failures[j] <= n
                    BY <2>3, <4>1, PlaceFacts
                <5>2. /\ work[v].tries = d.attempts
                      /\ pc[v] = "wait" => d.attempts <= failures[j] + 1
                    BY <2>1, <4>1, <5>1 DEF WorkerSound
                <5>3. failures[j] \in Nat /\ d.attempts \in Nat
                    <6>1. MaxCleanups \in Nat /\ failures[j] \in 0 .. MaxCleanups + 1
                        BY DEF DeletionInv, TypeOK, DeletionAssumption
                    <6>2. d.attempts \in 0 .. MaxCleanups + 1
                        BY DEF Cleanup
                    <6> QED
                        BY <6>1, <6>2
                <5> QED
                    BY <5>1, <5>2, <5>3
            <4>2. CASE i # j
                BY <1>2, <2>1, <2>3, <3>1, <4>2, PlaceFacts DEF WorkerSound
            <4> QED
                BY <4>1, <4>2
        <3>6. \A u \in Workers \ {v} :
                pc'[v] \in Running /\ pc'[u] \in Running /\ work'[u].job = i
                  => work'[u].attempt # work[v].attempt
            BY <1>6, <2>1, <2>3 DEF WorkerSound
        <3> QED
            BY <1>1, <2>1, <2>3, <3>2, <3>3, <3>4, <3>5, <3>6, PlaceFacts DEF WorkerSound
    <2>4. CASE ended(v)
        BY <2>4, PlaceFacts DEF WorkerSound
    <2> QED
        BY <1>4, <2>2, <2>3, <2>4
<1> HIDE DEF Answered, PassKept, EndsOrBegins
<1>10. ASSUME NEW k \in Jobs
       PROVE  JobSound(k)'
    <2>1. JobSound(k)
        BY DEF DeletionInv
    <2>2. status[k] = "deleted" => LockFree(k)' /\ index'[k] = {}
        BY <1>1, <1>7, <2>1 DEF JobSound
    <2>3. (TriesCounted(deletion[k], failures[k]))'
        BY <1>2, <2>1 DEF JobSound, TriesCounted, Spare, Waited
    <2>4. (status[k] \in {"queued", "settled"} /\ lease[k] => NobodyRuns(k, attempt[k]))'
        <3>1. NobodyRuns(k, attempt[k]) => NobodyRuns(k, attempt[k])'
            BY <1>1, <1>8 DEF NobodyRuns
        <3> QED
            BY <1>1, <2>1, <3>1 DEF JobSound
    <2>5. ASSUME deletion'[k].wait, deletion'[k].stopped
          PROVE  NobodyRuns(k, deletion[k].active)'
        <3>1. deletion'[k].active = deletion[k].active /\ deletion[k].wait
            BY <1>2, <2>5
        <3>2. CASE deletion[k].stopped
            <4>1. NobodyRuns(k, deletion[k].active) => NobodyRuns(k, deletion[k].active)'
                BY <1>6, <3>1 DEF NobodyRuns
            <4> QED
                BY <2>1, <3>1, <3>2, <4>1 DEF JobSound
        <3>3. CASE ~deletion[k].stopped
            <4>1. k = j
                BY <1>2, <2>5, <3>3
            <4>2. PICK w \in Workers :
                    pc[w] \in Running /\ pc'[w] = "idle" /\ work[w].job = j
                    /\ work[w].attempt = deletion[j].active
                BY <1>2, <2>5, <3>3, <4>1 DEF Answered
            <4>3. \A v \in Workers \ {w} :
                    pc[v] \in Running /\ work[v].job = j => work[v].attempt # deletion[j].active
                BY <4>2 DEF DeletionInv, WorkerSound
            <4> QED
                BY <1>6, <3>1, <4>1, <4>2, <4>3, PlaceFacts DEF NobodyRuns
        <3> QED
            BY <3>2, <3>3
    <2>6. status[k] \notin Marked => ~deletion'[k].wait
        BY <1>2, <2>1 DEF JobSound
    <2> QED
        BY <1>1, <2>1, <2>2, <2>3, <2>4, <2>5, <2>6 DEF JobSound
<1> QED
    BY <1>5, <1>9, <1>10 DEF DeletionInv

\* The bounds a record counts with.
LEMMA RecordFacts ==
    ASSUME DeletionAssumption, DeletionInv, NEW j \in Jobs
    PROVE  /\ deletion[j] \in Cleanup /\ failures[j] \in 0 .. MaxCleanups + 1
           /\ deletion[j].attempts \in 0 .. MaxCleanups + 1
           /\ deletion[j].token # NoWorker <=> deletion[j].state = "working"
           /\ TriesCounted(deletion[j], failures[j])
           /\ failures = [failures EXCEPT ![j] = failures[j]]
           /\ faults \in 0 .. MaxFaults /\ MaxFaults \in Nat
           /\ MaxCleanups \in Nat \ {0}
    BY DEF DeletionInv, JobSound, TypeOK, Cleanup, DeletionAssumption

LEMMA OneMoreFacts ==
    ASSUME DeletionAssumption, NEW a \in 0 .. MaxCleanups + 1, NEW b \in 0 .. MaxCleanups + 1
    PROVE  /\ OneMore(a) \in 0 .. MaxCleanups + 1 /\ OneMore(a) <= a + 1 /\ a <= OneMore(a)
           /\ \A x \in {0, 1, 2} : a <= b + x => OneMore(a) <= OneMore(b) + x
           /\ a <= b + 2 => a <= OneMore(b) + 1
           /\ OneMore(a) = a + 1 \/ (OneMore(a) = a /\ a > MaxCleanups)
    BY DEF OneMore, DeletionAssumption

LEMMA DeleteAgainStep ==
    ASSUME DeletionAssumption, DeletionInv, NEW j \in Jobs, DeleteAgain(j)
    PROVE  DeletionInv'
<1> DEFINE d == [deletion[j] EXCEPT !.state = "pending", !.next = "past", !.attempts = 0]
           n == 0
<1>1. /\ failures' = [failures EXCEPT ![j] = n]
      /\ UNCHANGED <<jobVars, artifacts>> /\ UNCHANGED <<pc, work>> /\ faults' = faults
      /\ deletion[j].state = "failed"
    BY DEF DeleteAgain
<1>2. deletion' = [deletion EXCEPT ![j] = d]
    BY RecordFacts DEF DeleteAgain, Cleanup, DeletionInv, TypeOK
<1>3. /\ d \in Cleanup /\ d.state = "pending" /\ d.attempts = 0
      /\ d.wait = deletion[j].wait /\ d.stopped = deletion[j].stopped
      /\ d.active = deletion[j].active /\ d.token = deletion[j].token
    <2>1. 0 \in 0 .. MaxCleanups + 1
        BY DEF DeletionAssumption
    <2> QED
        BY <2>1, RecordFacts DEF Cleanup
<1> HIDE DEF d
<1>4. TriesCounted(d, n) /\ n \in 0 .. MaxCleanups + 1
    BY <1>3, RecordFacts DEF TriesCounted, Spare
<1>5. d.token = NoWorker
    BY <1>1, <1>3, RecordFacts
<1>6. Answered(j, d) /\ PassKept(j, d, n) /\ EndsOrBegins(j, d, n)
    BY <1>1, <1>3, <1>5 DEF Answered, PassKept, EndsOrBegins, DeletionAssumption
<1> HIDE DEF n
<1> QED
    BY <1>1, <1>2, <1>3, <1>4, <1>5, <1>6, RecordFacts, RecordStep

LEMMA DateSteps ==
    ASSUME DeletionAssumption, DeletionInv, NEW j \in Jobs, DateComes(j) \/ PassTooSlow(j)
    PROVE  DeletionInv'
<1> DEFINE e == deletion[j]
<1>1. /\ UNCHANGED <<jobVars, artifacts>> /\ UNCHANGED <<pc, work>> /\ failures' = failures
      /\ faults' \in 0 .. MaxFaults
    BY RecordFacts DEF DateComes, PassTooSlow, Fault
<1>2. PICK d \in Cleanup :
        /\ deletion' = [deletion EXCEPT ![j] = d]
        /\ d.state = e.state /\ d.token = e.token /\ d.attempts = e.attempts
        /\ d.active = e.active /\ d.stopped = e.stopped
        /\ d.wait => e.wait
        /\ d.next = e.next \/ (e.next = "future" /\ d.next = "past")
    <2>1. e \in Cleanup
        BY RecordFacts
    <2>2. CASE e.wait /\ deletion' = [deletion EXCEPT ![j].wait = FALSE]
        <3> DEFINE d == [e EXCEPT !.wait = FALSE]
        <3>1. deletion' = [deletion EXCEPT ![j] = d]
            BY <2>2 DEF DeletionInv, TypeOK
        <3>2. /\ d \in Cleanup /\ d.state = e.state /\ d.token = e.token
              /\ d.attempts = e.attempts /\ d.active = e.active /\ d.stopped = e.stopped
              /\ d.next = e.next /\ d.wait = FALSE
            BY <2>1 DEF Cleanup
        <3> HIDE DEF d
        <3> QED
            BY <3>1, <3>2
    <2>3. CASE deletion' = [deletion EXCEPT ![j].held = FALSE]
        <3> DEFINE d == [e EXCEPT !.held = FALSE]
        <3>1. deletion' = [deletion EXCEPT ![j] = d]
            BY <2>3 DEF DeletionInv, TypeOK
        <3>2. /\ d \in Cleanup /\ d.state = e.state /\ d.token = e.token
              /\ d.attempts = e.attempts /\ d.active = e.active /\ d.stopped = e.stopped
              /\ d.next = e.next /\ d.wait = e.wait
            BY <2>1 DEF Cleanup
        <3> HIDE DEF d
        <3> QED
            BY <3>1, <3>2
    <2>4. CASE e.next = "future" /\ deletion' = [deletion EXCEPT ![j].next = "past"]
        <3> DEFINE d == [e EXCEPT !.next = "past"]
        <3>1. deletion' = [deletion EXCEPT ![j] = d]
            BY <2>4 DEF DeletionInv, TypeOK
        <3>2. /\ d \in Cleanup /\ d.state = e.state /\ d.token = e.token
              /\ d.attempts = e.attempts /\ d.active = e.active /\ d.stopped = e.stopped
              /\ d.next = "past" /\ d.wait = e.wait
            BY <2>1 DEF Cleanup
        <3> HIDE DEF d
        <3> QED
            BY <2>4, <3>1, <3>2
    <2> QED
        BY <2>2, <2>3, <2>4 DEF DateComes, PassTooSlow, LeaseOver
<1>3. TriesCounted(d, failures[j])
    BY <1>2, RecordFacts DEF TriesCounted, Spare, Waited, Cleanup
<1>4. /\ failures' = [failures EXCEPT ![j] = failures[j]]
      /\ failures[j] \in 0 .. MaxCleanups + 1
    BY <1>1, RecordFacts
<1>5. failures[j] <= failures[j]
    BY <1>4
<1>6. Answered(j, d) /\ EndsOrBegins(j, d, failures[j])
    BY <1>1, <1>2 DEF Answered, EndsOrBegins
<1>7. PassKept(j, d, failures[j])
    BY <1>1, <1>2, <1>5 DEF PassKept
<1>8. /\ d.token # NoWorker <=> d.state = "working"
      /\ d.wait => deletion[j].wait
      /\ d.active = deletion[j].active
      /\ deletion[j].stopped => d.stopped
    BY <1>2, RecordFacts
<1> HIDE DEF e
<1> QED
    BY <1>1, <1>2, <1>3, <1>4, <1>6, <1>7, <1>8, RecordStep

LEMMA TakeUpStep ==
    ASSUME DeletionAssumption, DeletionInv, NEW w \in Workers, NEW j \in Jobs, TakeUp(w, j)
    PROVE  DeletionInv'
<1> DEFINE e == deletion[j]
           tries == OneMore(e.attempts)
           d == [e EXCEPT !.state = "working", !.token = w, !.held = TRUE, !.attempts = tries]
           n == IF e.state = "working" THEN OneMore(failures[j]) ELSE failures[j]
           step == IF e.wait /\ ~e.stopped THEN "wait" ELSE "vector"
<1>1. /\ pc[w] = "idle" /\ status[j] = "deleting" /\ Due(e)
      /\ deletion' = [deletion EXCEPT ![j] = d]
      /\ failures' = [failures EXCEPT ![j] = n]
      /\ pc' = [pc EXCEPT ![w] = step]
      /\ work' = [work EXCEPT ![w] = [job |-> j, attempt |-> 0, tries |-> tries]]
      /\ UNCHANGED <<jobVars, artifacts>> /\ faults' = faults
    BY DEF TakeUp, Goto, DeletionInv, TypeOK
<1>2. /\ tries \in 0 .. MaxCleanups + 1 /\ n \in 0 .. MaxCleanups + 1
      /\ tries <= e.attempts + 1
    BY RecordFacts, OneMoreFacts
<1> HIDE DEF tries
<1>3. /\ d \in Cleanup /\ d.state = "working" /\ d.token = w /\ d.attempts = tries
      /\ d.wait = e.wait /\ d.stopped = e.stopped /\ d.active = e.active /\ d.next = e.next
    BY <1>2, RecordFacts DEF Cleanup
<1> HIDE DEF d
<1>4. w # NoWorker
    BY DEF DeletionAssumption
<1>5. /\ e.state = "pending" => e.attempts <= n + Spare(e) /\ NextCame(e)
      /\ e.state = "working" => tries <= n + 1 + Spare(e) /\ (e.next = "wait" => ~e.wait)
      /\ e.state \in {"pending", "working"}
    <2>1. CASE e.state = "pending"
        BY <1>1, <2>1, RecordFacts DEF TriesCounted, Due
    <2>2. CASE e.state = "working"
        <3>1. Spare(e) \in {0, 1} /\ e.attempts <= failures[j] + 1 + Spare(e)
              /\ (e.next = "wait" => ~e.wait)
            BY <2>2, RecordFacts DEF TriesCounted, Spare
        <3>2. e.attempts <= failures[j] + (1 + Spare(e)) /\ 1 + Spare(e) \in {0, 1, 2}
            BY <3>1, RecordFacts
        <3>3. tries <= OneMore(failures[j]) + (1 + Spare(e))
            BY <3>2, RecordFacts, OneMoreFacts DEF tries
        <3> QED
            BY <1>2, <2>2, <3>1, <3>3
    <2> QED
        BY <1>1, <2>1, <2>2 DEF Due
<1>6. Spare(d) = Spare(e) /\ Spare(e) \in {0, 1}
    BY <1>3 DEF Spare, Waited
<1>7. tries <= n + 1 + Spare(e) /\ (e.next = "wait" => ~e.wait)
    BY <1>2, <1>5, <1>6, RecordFacts DEF NextCame
<1>8. TriesCounted(d, n)
    BY <1>3, <1>6, <1>7 DEF TriesCounted
<1>9. step \in {"wait", "vector"} /\ (step = "vector" => ~d.wait \/ d.stopped)
    BY <1>3
<1>10. step = "wait" => tries <= n + 1
    <2> SUFFICES ASSUME e.wait, ~e.stopped
                 PROVE  tries <= n + 1
        OBVIOUS
    <2>1. Spare(e) = 0
        BY <1>7 DEF Spare, Waited
    <2> QED
        BY <1>2, <1>7, <2>1
<1> HIDE DEF n, step
<1>11. Answered(j, d) /\ PassKept(j, d, n)
    BY <1>1, <1>3 DEF Answered, PassKept
<1>12. EndsOrBegins(j, d, n)
    BY <1>1, <1>3, <1>9, <1>10 DEF EndsOrBegins
<1>13. /\ d.token # NoWorker <=> d.state = "working"
       /\ d.wait => deletion[j].wait
       /\ d.active = deletion[j].active
       /\ deletion[j].stopped => d.stopped
       /\ faults' \in 0 .. MaxFaults
    BY <1>1, <1>3, <1>4, RecordFacts
<1> HIDE DEF e
<1> QED
    BY <1>1, <1>2, <1>3, <1>8, <1>11, <1>12, <1>13, RecordStep
----------------------------------------------------------------------------
(* The end of a pass, and the answer of the worker *)

\* A worker is back in its loop, and no document changes.
LEMMA EndsStep ==
    ASSUME DeletionAssumption, DeletionInv, NEW w \in Workers,
           UNCHANGED <<jobVars, deletion, artifacts, failures>>, faults' \in 0 .. MaxFaults,
           pc' = [pc EXCEPT ![w] = "idle"], work' = [work EXCEPT ![w] = NoWork]
    PROVE  DeletionInv'
<1>1. /\ UNCHANGED <<jobVars, deletion, index, files, failures>>
      /\ scratch' = scratch /\ messages' = messages
    BY DEF artifacts
<1>2. scratch' \in [Jobs -> SUBSET Nat] /\ messages' \in [Jobs -> SUBSET Int]
    BY <1>1 DEF DeletionInv, TypeOK
<1> QED
    BY <1>1, <1>2, PlaceFacts, MoveStep
    DEF Places, Running, Executing, Cleared, Erasing, Passing

LEMMA WaitStep ==
    ASSUME DeletionAssumption, DeletionInv, NEW w \in Workers, Wait(w),
           NEW j \in Jobs, j = work[w].job
    PROVE  DeletionInv'
<1> DEFINE e == deletion[j]
           d == Released(e, "pending", "wait")
<1>1. /\ pc[w] = "wait"
      /\ pc' = [pc EXCEPT ![w] = "idle"] /\ work' = [work EXCEPT ![w] = NoWork]
      /\ UNCHANGED <<jobVars, artifacts>> /\ failures' = failures /\ faults' = faults
    BY WorkFacts DEF Wait, Loop, Goto, DeletionInv
<1>11. e \in Cleanup /\ (e.token # NoWorker <=> e.state = "working")
    BY RecordFacts
<1>12. /\ failures[j] \in 0 .. MaxCleanups + 1 /\ e.attempts \in 0 .. MaxCleanups + 1
      /\ MaxCleanups \in Nat \ {0}
    BY RecordFacts
<1>13. failures = [failures EXCEPT ![j] = failures[j]]
    BY RecordFacts
<1>2. CASE ~OwnsPass(w)
    <2>1. deletion' = deletion
        BY <1>2 DEF Wait
    <2>2. faults' \in 0 .. MaxFaults
        BY <1>1 DEF DeletionInv, TypeOK
    <2> QED
        BY <1>1, <2>1, <2>2, EndsStep
<1>3. CASE OwnsPass(w)
    <2>1. deletion' = [deletion EXCEPT ![j] = d] /\ e.token = w
        BY <1>3 DEF Wait, OwnsPass, DeletionInv, TypeOK
    <2>2. /\ d \in Cleanup /\ d.state = "pending" /\ d.next = "wait" /\ d.token = NoWorker
          /\ d.attempts = e.attempts /\ d.wait = e.wait /\ d.stopped = e.stopped
          /\ d.active = e.active
        BY <1>11 DEF Released, Cleanup
    <2>3. e.attempts <= failures[j] + 1
        <3>1. WorkerSound(w)
            BY DEF DeletionInv
        <3> QED
            BY <1>1, <2>1, <3>1 DEF WorkerSound, Passing
    <2> HIDE DEF d
    <2>4. TriesCounted(d, failures[j])
        BY <2>2, <2>3 DEF TriesCounted, Spare, Waited
    <2>5. Answered(j, d) /\ EndsOrBegins(j, d, failures[j]) /\ PassKept(j, d, failures[j])
        BY <1>1, <2>2 DEF Answered, EndsOrBegins, PassKept, DeletionAssumption
    <2>6. /\ failures' = [failures EXCEPT ![j] = failures[j]] /\ faults' \in 0 .. MaxFaults
          /\ failures[j] \in 0 .. MaxCleanups + 1
          /\ d.token # NoWorker <=> d.state = "working"
          /\ d.wait => deletion[j].wait
          /\ d.active = deletion[j].active
          /\ deletion[j].stopped => d.stopped
        BY <1>1, <2>2, RecordFacts
    <2> HIDE DEF e
    <2> QED
        BY <1>1, <2>1, <2>2, <2>4, <2>5, <2>6, RecordStep
<1> QED
    BY <1>2, <1>3

LEMMA RecordErrorStep ==
    ASSUME DeletionAssumption, DeletionInv, NEW w \in Workers, RecordError(w),
           NEW j \in Jobs, j = work[w].job
    PROVE  DeletionInv'
<1> DEFINE e == deletion[j]
           n == OneMore(failures[j])
           state == IF Exhausted(work[w].tries) THEN "failed" ELSE "pending"
           d == Released(e, state, "future")
<1>1. /\ pc[w] = "error"
      /\ pc' = [pc EXCEPT ![w] = "idle"] /\ work' = [work EXCEPT ![w] = NoWork]
      /\ UNCHANGED <<jobVars, artifacts>> /\ faults' \in 0 .. MaxFaults
    BY WorkFacts DEF RecordError, Loop, Goto, DeletionInv, TypeOK
<1>11. e \in Cleanup /\ (e.token # NoWorker <=> e.state = "working")
    BY RecordFacts
<1>12. /\ failures[j] \in 0 .. MaxCleanups + 1 /\ e.attempts \in 0 .. MaxCleanups + 1
      /\ MaxCleanups \in Nat \ {0}
    BY RecordFacts
<1>13. failures = [failures EXCEPT ![j] = failures[j]]
    BY RecordFacts
<1>2. CASE ~OwnsPass(w)
    <2>1. deletion' = deletion /\ failures' = failures
        BY <1>2 DEF RecordError
    <2> QED
        BY <1>1, <2>1, EndsStep
<1>3. CASE OwnsPass(w)
    <2>1. /\ deletion' = [deletion EXCEPT ![j] = d] /\ e.token = w
          /\ failures' = [failures EXCEPT ![j] = n]
        BY <1>3 DEF RecordError, OwnsPass, DeletionInv, TypeOK
    <2>2. state \in {"failed", "pending"} /\ (state = "failed" <=> Exhausted(work[w].tries))
        OBVIOUS
    <2> HIDE DEF state
    <2>3. /\ d \in Cleanup /\ d.state = state /\ d.next = "future" /\ d.token = NoWorker
          /\ d.attempts = e.attempts /\ d.wait = e.wait /\ d.stopped = e.stopped
          /\ d.active = e.active
        BY <1>11, <2>2 DEF Released, Cleanup
    <2>4. e.attempts = work[w].tries /\ e.state = "working"
        <3>1. WorkerSound(w)
            BY DEF DeletionInv
        <3> QED
            BY <1>1, <2>1, <3>1, RecordFacts DEF WorkerSound, Passing, DeletionAssumption
    <2> HIDE DEF d
    <2>5. /\ e.attempts <= failures[j] + 1 + Spare(e) /\ (e.next = "wait" => ~e.wait)
          /\ Spare(e) \in {0, 1}
        BY <1>1, <2>4, RecordFacts DEF TriesCounted, Spare
    <2>6. /\ n \in 0 .. MaxCleanups + 1 /\ failures[j] \in Nat
          /\ n = failures[j] + 1 \/ (n = failures[j] /\ failures[j] > MaxCleanups)
          /\ e.attempts \in 0 .. MaxCleanups + 1 /\ MaxCleanups \in Nat
        BY <1>12, OneMoreFacts
    <2>7. Spare(e) <= Spare(d) /\ Spare(d) \in {0, 1}
        BY <2>3, <2>5 DEF Spare, Waited
    <2>8. TriesCounted(d, n)
        <3>1. e.attempts <= n + Spare(d)
            BY <2>5, <2>6, <2>7
        <3>2. Exhausted(work[w].tries) => n >= MaxCleanups - 1
            BY <2>4, <2>6, <2>7, <3>1 DEF Exhausted
        <3> QED
            BY <2>2, <2>3, <3>1, <3>2 DEF TriesCounted
    <2> HIDE DEF n
    <2>9. Answered(j, d) /\ EndsOrBegins(j, d, n) /\ PassKept(j, d, n)
        BY <1>1, <2>3 DEF Answered, EndsOrBegins, PassKept, DeletionAssumption
    <2>10. /\ d.token # NoWorker <=> d.state = "working"
           /\ d.wait => deletion[j].wait
           /\ d.active = deletion[j].active
           /\ deletion[j].stopped => d.stopped
        BY <2>2, <2>3
    <2> HIDE DEF e
    <2> QED
        BY <1>1, <2>1, <2>3, <2>6, <2>8, <2>9, <2>10, RecordStep
<1> QED
    BY <1>2, <1>3

LEMMA AcknowledgeStep ==
    ASSUME DeletionAssumption, DeletionInv, NEW w \in Workers, Acknowledge(w),
           NEW j \in Jobs, j = work[w].job
    PROVE  DeletionInv'
<1> DEFINE e == deletion[j]
           d == [e EXCEPT !.stopped = TRUE, !.next = "past"]
<1>1. /\ pc[w] = "acking"
      /\ pc' = [pc EXCEPT ![w] = "idle"] /\ work' = [work EXCEPT ![w] = NoWork]
      /\ UNCHANGED <<jobVars, artifacts>> /\ failures' = failures /\ faults' = faults
      /\ faults \in 0 .. MaxFaults
    BY WorkFacts DEF Acknowledge, Loop, Goto, DeletionInv, TypeOK
<1>11. e \in Cleanup /\ (e.token # NoWorker <=> e.state = "working")
    BY RecordFacts
<1>12. /\ failures[j] \in 0 .. MaxCleanups + 1 /\ e.attempts \in 0 .. MaxCleanups + 1
      /\ MaxCleanups \in Nat \ {0}
    BY RecordFacts
<1>13. failures = [failures EXCEPT ![j] = failures[j]]
    BY RecordFacts
<1>2. CASE ~(status[j] = "deleting" /\ Stops(j, work[w].attempt))
    <2>1. deletion' = deletion
        BY <1>2 DEF Acknowledge
    <2> QED
        BY <1>1, <2>1, EndsStep
<1>3. CASE status[j] = "deleting" /\ Stops(j, work[w].attempt)
    <2>1. deletion' = [deletion EXCEPT ![j] = d] /\ e.active = work[w].attempt
        BY <1>3 DEF Acknowledge, Stops, DeletionInv, TypeOK
    <2>2. /\ d \in Cleanup /\ d.state = e.state /\ d.next = "past" /\ d.token = e.token
          /\ d.attempts = e.attempts /\ d.wait = e.wait /\ d.stopped = TRUE
          /\ d.active = e.active
        BY <1>11 DEF Cleanup
    <2> HIDE DEF d
    <2>3. Spare(e) <= Spare(d) /\ Spare(e) \in {0, 1} /\ Spare(d) \in {0, 1}
        BY <2>2 DEF Spare, Waited
    <2>4. TriesCounted(d, failures[j])
        <3>1. TriesCounted(e, failures[j]) /\ e.attempts \in Int /\ failures[j] \in Int
            BY <1>1, RecordFacts
        <3> QED
            BY <2>2, <2>3, <3>1 DEF TriesCounted
    <2>5. failures' = [failures EXCEPT ![j] = failures[j]]
        BY <1>1, <1>13
    <2>6. Answered(j, d) /\ EndsOrBegins(j, d, failures[j])
        <3>1. pc'[w] = "idle" /\ pc[w] \in Running
            BY <1>1 DEF Running, DeletionInv, TypeOK
        <3>2. Answered(j, d)
            BY <2>1, <3>1 DEF Answered
        <3>3. EndsOrBegins(j, d, failures[j])
            BY <1>1 DEF EndsOrBegins
        <3> QED
            BY <3>2, <3>3
    <2>7. PassKept(j, d, failures[j])
        <3>1. \A v \in Workers : pc'[v] \in Passing => pc[v] \in Passing
            BY <1>1, PlaceFacts DEF DeletionInv, TypeOK
        <3> QED
            BY <1>12, <2>2, <3>1 DEF PassKept
    <2>8. /\ d.token # NoWorker <=> d.state = "working"
          /\ d.wait => deletion[j].wait
          /\ d.active = deletion[j].active
          /\ deletion[j].stopped => d.stopped
          /\ faults' \in 0 .. MaxFaults
        BY <1>1, <2>2, RecordFacts
    <2> HIDE DEF e
    <2> QED
        BY <1>1, <1>12, <2>1, <2>2, <2>4, <2>5, <2>6, <2>7, <2>8, RecordStep
<1> QED
    BY <1>2, <1>3

\* The tombstone: only the pass that erased the vectors writes it.
LEMMA BuryStep ==
    ASSUME DeletionAssumption, DeletionInv, NEW w \in Workers,
           NEW j \in Jobs, j = work[w].job,
           pc[w] = "tombstone", OwnsPass(w), Bury(w),
           UNCHANGED <<artifacts, failures>>, faults' \in 0 .. MaxFaults,
           \/ pc' = [pc EXCEPT ![w] = "idle"] /\ work' = [work EXCEPT ![w] = NoWork]
           \/ pc' = [pc EXCEPT ![w] = "error"] /\ UNCHANGED work
    PROVE  DeletionInv'
<1> DEFINE d == Buried
           same(v) == pc'[v] = pc[v] /\ work'[v] = work[v]
<1>1. /\ index' = index /\ scratch' = scratch /\ files' = files /\ messages' = messages
      /\ failures' = failures /\ lease' = lease
    BY DEF artifacts, Bury
<1>2. /\ d \in Cleanup /\ d.state = "done" /\ d.token = NoWorker
      /\ d.wait = FALSE /\ d.stopped = FALSE
    <2>1. 0 \in 0 .. MaxCleanups + 1 /\ 0 \in Nat
        BY DEF DeletionAssumption
    <2> QED
        BY <2>1 DEF Cleanup, NoCleanup, Buried
<1>31. /\ status' = [status EXCEPT ![j] = "deleted"] /\ attempt' = [attempt EXCEPT ![j] = 0]
       /\ source' = [source EXCEPT ![j] = NoFile] /\ deletion' = [deletion EXCEPT ![j] = d]
    BY DEF Bury
<1> HIDE DEF d
<1>3. /\ \A k \in Jobs : deletion'[k] = IF k = j THEN d ELSE deletion[k]
      /\ \A k \in Jobs : status'[k] = IF k = j THEN "deleted" ELSE status[k]
      /\ \A k \in Jobs : attempt'[k] = IF k = j THEN 0 ELSE attempt[k]
      /\ \A k \in Jobs : source'[k] = IF k = j THEN NoFile ELSE source[k]
    BY <1>31 DEF DeletionInv, TypeOK
<1>32. /\ deletion' \in [Jobs -> Cleanup] /\ status' \in [Jobs -> Statuses]
       /\ attempt' \in [Jobs -> Nat] /\ source' \in [Jobs -> Files \cup {NoFile}]
    BY <1>2, <1>31 DEF DeletionInv, TypeOK, Statuses
<1>4. /\ \A v \in Workers \ {w} : same(v)
      /\ same(w) \/ (pc'[w] = "idle" /\ work'[w] = NoWork)
         \/ (pc'[w] = "error" /\ work'[w] = work[w])
    BY DEF DeletionInv, TypeOK
<1>5. status[j] = "deleting" /\ index[j] = {} /\ LockFree(j)
    <2>1. WorkerSound(w)
        BY DEF DeletionInv
    <2> QED
        BY <2>1 DEF OwnsPass, WorkerSound, Cleared
<1>6. TypeOK'
    <2>1. pc' \in [Workers -> Places] /\ work' \in [Workers -> Work \cup {NoWork}]
        BY DEF DeletionInv, TypeOK, Places
    <2>2. \A v \in Workers : IF pc'[v] = "idle" THEN work'[v] = NoWork ELSE work'[v] \in Work
        BY <1>4 DEF DeletionInv, TypeOK
    <2>3. \A k \in Jobs : deletion'[k].token # NoWorker <=> deletion'[k].state = "working"
        BY <1>2, <1>3 DEF DeletionInv, TypeOK
    <2> QED
        BY <1>1, <1>32, <2>1, <2>2, <2>3 DEF DeletionInv, TypeOK, Places
<1>7. ASSUME NEW v \in Workers
      PROVE  /\ pc'[v] \in Running => same(v)
             /\ pc'[v] \in Erasing => same(v)
             /\ pc'[v] \in Passing => pc[v] \in Passing /\ work'[v] = work[v]
             /\ pc'[v] = "wait" => same(v)
    BY <1>4 DEF Running, Passing, Executing, Erasing
<1>8. ASSUME NEW k \in Jobs, LockFree(k)
      PROVE  LockFree(k)'
    BY <1>7, <1>8, PlaceFacts DEF LockFree
<1>9. ASSUME NEW k \in Jobs, NEW a, NobodyRuns(k, a)
      PROVE  NobodyRuns(k, a)'
    BY <1>7, <1>9, PlaceFacts DEF NobodyRuns
<1>10. ASSUME NEW v \in Workers
       PROVE  WorkerSound(v)'
    <2> DEFINE i == work[v].job
    <2>1. WorkerSound(v)
        BY DEF DeletionInv
    <2>2. pc'[v] \in Running \cup Passing => work'[v] = work[v] /\ i \in Jobs
        BY <1>7, WorkFacts, PlaceFacts DEF DeletionInv
    <2>3. pc'[v] \in Passing => status'[i] \in Marked
        <3>1. ASSUME NEW k \in Jobs, status[k] \in Marked
              PROVE  status'[k] \in Marked
            BY <1>3, <3>1 DEF Marked
        <3> QED
            BY <1>7, <2>1, <2>2, <3>1 DEF WorkerSound
    <2>4. ASSUME pc'[v] \in Cleared
          PROVE  index'[i] = {} /\ LockFree(i)'
        <3>1. PICK k \in Jobs : k = i
            BY <2>2, <2>4, PlaceFacts
        <3> QED
            BY <1>1, <1>7, <1>8, <2>1, <2>4, <3>1, PlaceFacts DEF WorkerSound
    <2>5. pc'[v] = "unlink" => Unshared(i)'
        <3>1. SUFFICES ASSUME pc'[v] = "unlink"
                       PROVE  Unshared(i)'
            OBVIOUS
        <3>2. pc[v] = "unlink" /\ Unshared(i) /\ work'[v] = work[v]
            <4>1. pc'[v] \in Erasing
                BY <3>1 DEF Erasing
            <4> QED
                BY <1>7, <2>1, <3>1, <4>1 DEF WorkerSound
        <3>3. ASSUME NEW k \in Jobs
              PROVE  source'[k] \in {source[k], NoFile}
            BY <1>3
        <3> QED
            BY <3>2, <3>3 DEF Shared, Unshared
    <2>6. pc'[v] \in Erasing => ~deletion'[i].wait \/ deletion'[i].stopped
        <3>1. ASSUME NEW k \in Jobs, ~deletion[k].wait \/ deletion[k].stopped
              PROVE  ~deletion'[k].wait \/ deletion'[k].stopped
            BY <1>2, <1>3, <3>1
        <3> QED
            BY <1>7, <2>1, <2>2, <3>1, PlaceFacts DEF WorkerSound
    <2>7. pc'[v] \in Passing /\ deletion'[i].token = v =>
            /\ work[v].tries = deletion'[i].attempts
            /\ pc'[v] = "wait" => deletion'[i].attempts <= failures'[i] + 1
        <3>1. v # NoWorker
            BY DEF DeletionAssumption
        <3> QED
            BY <1>1, <1>2, <1>3, <1>7, <2>1, <2>2, <3>1 DEF WorkerSound
    <2>8. pc'[v] \in Running /\ status'[i] # "deleted" => work[v].attempt <= attempt'[i]
        BY <1>3, <1>7, <2>1, <2>2 DEF WorkerSound
    <2>9. \A u \in Workers \ {v} :
            pc'[v] \in Running /\ pc'[u] \in Running /\ work'[u].job = i
              => work'[u].attempt # work[v].attempt
        BY <1>7, <2>1 DEF WorkerSound
    <2> QED
        BY <2>2, <2>3, <2>4, <2>5, <2>6, <2>7, <2>8, <2>9, PlaceFacts DEF WorkerSound
<1>11. ASSUME NEW k \in Jobs
       PROVE  JobSound(k)'
    <2>1. JobSound(k)
        BY DEF DeletionInv
    <2>2. CASE k = j
        <3>1. LockFree(k)'
            BY <1>5, <1>8, <2>2
        <3>2. (TriesCounted(deletion[k], failures[k]))'
            BY <1>2, <1>3, <2>2 DEF TriesCounted
        <3> QED
            BY <1>1, <1>2, <1>3, <1>5, <2>2, <3>1, <3>2 DEF JobSound, Marked
    <2>3. CASE k # j
        <3>1. status[k] = "deleted" => LockFree(k)' /\ index'[k] = {}
            BY <1>1, <1>8, <2>1 DEF JobSound
        <3>2. (TriesCounted(deletion[k], failures[k]))'
            BY <1>1, <1>3, <2>1, <2>3 DEF JobSound, TriesCounted, Spare, Waited
        <3>3. NobodyRuns(k, attempt[k]) => NobodyRuns(k, attempt[k])'
            BY <1>3, <1>7, <2>3, PlaceFacts DEF NobodyRuns
        <3>4. NobodyRuns(k, deletion[k].active) => NobodyRuns(k, deletion[k].active)'
            BY <1>3, <1>7, <2>3, PlaceFacts DEF NobodyRuns
        <3> QED
            BY <1>1, <1>3, <2>1, <2>3, <3>1, <3>2, <3>3, <3>4 DEF JobSound
    <2> QED
        BY <2>2, <2>3
<1> QED
    BY <1>6, <1>10, <1>11 DEF DeletionInv

LEMMA TombstoneSteps ==
    ASSUME DeletionAssumption, DeletionInv, NEW w \in Workers,
           Tombstone(w) \/ TombstoneUnknown(w)
    PROVE  DeletionInv'
<1>1. /\ pc[w] = "tombstone" /\ Bury(w)
      /\ UNCHANGED <<artifacts, failures>>
      /\ \/ pc' = [pc EXCEPT ![w] = "idle"] /\ work' = [work EXCEPT ![w] = NoWork]
         \/ pc' = [pc EXCEPT ![w] = "error"] /\ UNCHANGED work
    BY DEF Tombstone, TombstoneUnknown, Loop, Goto
<1>2. faults' \in 0 .. MaxFaults
    BY DEF Tombstone, TombstoneUnknown, Fault, DeletionAssumption, DeletionInv, TypeOK
<1>3. PICK j \in Jobs : j = work[w].job
    BY <1>1, WorkFacts DEF DeletionInv
<1>4. CASE OwnsPass(w)
    BY <1>1, <1>2, <1>3, <1>4, BuryStep
<1>5. CASE ~OwnsPass(w)
    <2>1. UNCHANGED <<jobVars, deletion, artifacts, failures>>
        BY <1>1, <1>5 DEF Bury
    <2>2. CASE pc' = [pc EXCEPT ![w] = "idle"] /\ work' = [work EXCEPT ![w] = NoWork]
        BY <1>2, <2>1, <2>2, EndsStep
    <2>3. CASE pc' = [pc EXCEPT ![w] = "error"] /\ UNCHANGED work
        <3>1. /\ UNCHANGED <<jobVars, deletion, index, files, failures>>
              /\ scratch' \in [Jobs -> SUBSET Nat] /\ messages' \in [Jobs -> SUBSET Int]
            BY <2>1 DEF artifacts, DeletionInv, TypeOK
        <3> QED
            BY <1>1, <1>2, <2>3, <3>1, MoveStep
            DEF Places, Running, Executing, Cleared, Erasing, Passing
    <2> QED
        BY <1>1, <2>2, <2>3
<1> QED
    BY <1>4, <1>5

----------------------------------------------------------------------------
(* The invariant *)

LEMMA DeletionInit == DeletionAssumption /\ Init => DeletionInv
<1> SUFFICES ASSUME DeletionAssumption, Init
             PROVE  DeletionInv
    OBVIOUS
<1>1. \A j \in Jobs :
        /\ status[j] \in {"queued", "settled", "deleted"} /\ failures[j] = 0 /\ ~lease[j]
        /\ deletion[j] = IF status[j] = "deleted" THEN Buried ELSE NoCleanup
        /\ index[j] = IF status[j] = "settled" THEN {0} ELSE {}
        /\ source[j] = IF status[j] = "deleted" THEN NoFile ELSE MediaOf[j]
    BY DEF Init
<1>2. 0 \in 0 .. MaxCleanups + 1 /\ 0 \in 0 .. MaxFaults /\ 0 \in Nat
    BY DEF DeletionAssumption
<1>3. /\ NoCleanup \in Cleanup /\ NoCleanup.token = NoWorker /\ NoCleanup.state = "none"
      /\ NoCleanup.wait = FALSE
      /\ Buried \in Cleanup /\ Buried.token = NoWorker /\ Buried.state = "done"
      /\ Buried.wait = FALSE
    BY <1>2 DEF Cleanup, NoCleanup, Buried
<1>4. TypeOK
    <2>1. /\ status \in [Jobs -> Statuses] /\ attempt \in [Jobs -> Nat]
          /\ lease \in [Jobs -> BOOLEAN] /\ source \in [Jobs -> Files \cup {NoFile}]
        BY DEF Init, Statuses, DeletionAssumption
    <2>2. deletion \in [Jobs -> Cleanup] /\ failures \in [Jobs -> 0 .. MaxCleanups + 1]
        BY <1>2, <1>3 DEF Init
    <2>3. /\ index \in [Jobs -> SUBSET Nat] /\ scratch \in [Jobs -> SUBSET Nat]
          /\ messages \in [Jobs -> SUBSET Int]
        BY <1>2 DEF Init
    <2>4. files \subseteq Files
        BY DEF Init, DeletionAssumption
    <2>5. /\ pc \in [Workers -> Places] /\ work \in [Workers -> Work \cup {NoWork}]
          /\ \A w \in Workers : pc[w] = "idle" /\ work[w] = NoWork
        BY DEF Init, Places
    <2> QED
        BY <1>1, <1>2, <1>3, <2>1, <2>2, <2>3, <2>4, <2>5 DEF TypeOK, Places, Init
<1>5. \A w \in Workers : WorkerSound(w)
    <2>1. \A w \in Workers : pc[w] = "idle"
        BY DEF Init
    <2> QED
        BY <2>1, PlaceFacts DEF WorkerSound
<1>6. ASSUME NEW j \in Jobs
      PROVE  JobSound(j)
    <2>1. source[j] # NoFile => source[j] \in files
        BY DEF Init
    <2>2. TriesCounted(deletion[j], failures[j])
        BY <1>1, <1>3 DEF TriesCounted
    <2>3. LockFree(j)
        BY DEF Init, LockFree
    <2> QED
        BY <1>1, <1>3, <2>1, <2>2, <2>3 DEF JobSound
<1> QED
    BY <1>4, <1>5, <1>6 DEF DeletionInv

\* The invariant says nothing of which messages there are.
LEMMA MessagesStep ==
    ASSUME DeletionInv, messages' \in [Jobs -> SUBSET Int],
           UNCHANGED <<jobVars, deletion, index, scratch, files, pc, work, failures, faults>>
    PROVE  DeletionInv'
<1>1. /\ status' = status /\ attempt' = attempt /\ lease' = lease /\ source' = source
      /\ deletion' = deletion /\ index' = index /\ scratch' = scratch /\ files' = files
      /\ pc' = pc /\ work' = work /\ failures' = failures /\ faults' = faults
    BY DEF jobVars
<1>2. TypeOK'
    BY <1>1 DEF DeletionInv, TypeOK
<1>3. ASSUME NEW w \in Workers
      PROVE  WorkerSound(w)'
    BY <1>1 DEF DeletionInv, WorkerSound, LockFree, Shared, Unshared
<1>4. ASSUME NEW j \in Jobs
      PROVE  JobSound(j)'
    <2>1. JobSound(j)
        BY DEF DeletionInv
    <2>2. (TriesCounted(deletion[j], failures[j]))'
        BY <1>1, <2>1 DEF JobSound, TriesCounted, Spare, Waited
    <2> QED
        BY <1>1, <2>1, <2>2 DEF JobSound, LockFree, NobodyRuns
<1> QED
    BY <1>2, <1>3, <1>4 DEF DeletionInv

LEMMA DeletionUnchanged ==
    ASSUME DeletionInv, UNCHANGED vars
    PROVE  DeletionInv'
<1>1. UNCHANGED <<jobVars, deletion, index, scratch, files, pc, work, failures, faults>>
    BY DEF vars, artifacts
<1>2. messages' \in [Jobs -> SUBSET Int]
    BY DEF vars, artifacts, DeletionInv, TypeOK
<1> QED
    BY <1>1, <1>2, MessagesStep

LEMMA DeletionNext ==
    ASSUME DeletionAssumption, DeletionInv, [Next]_vars
    PROVE  DeletionInv'
<1>1. ASSUME NEW w \in Workers, RunStep(w)
      PROVE  DeletionInv'
    <2>1. ASSUME Acknowledge(w)
          PROVE  DeletionInv'
        <3>1. \E j \in Jobs : j = work[w].job
            BY <2>1, WorkFacts DEF Acknowledge, DeletionInv
        <3> QED
            BY <2>1, <3>1, AcknowledgeStep
    <2> QED
        BY <1>1, <2>1, MoveSteps, ArtifactSteps, EndRunSteps DEF RunStep
<1>2. ASSUME NEW w \in Workers, PassStep(w)
      PROVE  DeletionInv'
    <2>1. ASSUME Wait(w) \/ RecordError(w)
          PROVE  DeletionInv'
        <3>1. \E j \in Jobs : j = work[w].job
            BY <2>1, WorkFacts DEF Wait, RecordError, DeletionInv
        <3> QED
            BY <2>1, <3>1, WaitStep, RecordErrorStep
    <2> QED
        BY <1>2, <2>1, MoveSteps, ArtifactSteps, TombstoneSteps DEF PassStep
<1>3. ASSUME NEW w \in Workers, NEW j \in Jobs,
             Claim(w, j) \/ Recover(w, j) \/ TakeUp(w, j) \/ CollectScratch(w, j)
      PROVE  DeletionInv'
    BY <1>3, StatusSteps, TakeUpStep, CollectScratchStep
<1>4. ASSUME NEW w \in Workers,
             CollectMedia(w) \/ StepFails(w) \/ TombstoneUnknown(w) \/ Crash(w)
      PROVE  DeletionInv'
    BY <1>4, CollectMediaStep, MoveSteps, TombstoneSteps, CrashStep
<1>5. ASSUME NEW j \in Jobs,
             \/ CancelJob(j) \/ MarkDeleting(j) \/ DeleteAgain(j)
             \/ LeaseEnds(j) \/ DateComes(j) \/ PassTooSlow(j)
      PROVE  DeletionInv'
    BY <1>5, StatusSteps, MarkStep, DeleteAgainStep, DateSteps
<1> QED
    BY <1>1, <1>2, <1>3, <1>4, <1>5, DeletionUnchanged DEF Next

----------------------------------------------------------------------------
(* Theorems *)

\* The invariant of the jobs, their deletion records and the workers.
THEOREM DeletionInvariant == Spec => []DeletionInv
    BY DeletionAssumption, DeletionInit, DeletionNext, PTL DEF Spec

\* For any number of workers, executions and passes: a job with a tombstone has
\* no vectors, whoever lost it earlier.
THEOREM NoVectorsAfterTombstone == Spec => []IndexErased
<1>1. DeletionInv => IndexErased
    BY DEF DeletionInv, JobSound, IndexErased
<1> QED
    BY <1>1, DeletionInvariant, PTL

\* For any jobs that share originals, the passes that delete some of them never
\* remove the original of a job that is kept.
THEOREM KeptMediaStays == Spec => []MediaKept
<1>1. DeletionInv => MediaKept
    BY DEF DeletionInv, JobSound, MediaKept, Marked
<1> QED
    BY <1>1, DeletionInvariant, PTL

\* No pass erases anything while the attempt that its deletion waits for executes.
THEOREM CleanupWaits == Spec => []WaitsForWorker
<1>1. ASSUME DeletionInv
      PROVE  WaitsForWorker
    <2> SUFFICES ASSUME NEW c \in Workers, NEW w \in Workers,
                        pc[c] \in Erasing, pc[w] \in Executing, work[c].job = work[w].job
                 PROVE  ~(deletion[work[c].job].wait
                           /\ deletion[work[c].job].active = work[w].attempt)
        BY DEF WaitsForWorker
    <2>1. PICK j \in Jobs : j = work[c].job
        BY <1>1, WorkFacts, PlaceFacts DEF DeletionInv
    <2>2. ~deletion[j].wait \/ deletion[j].stopped
        BY <1>1, <2>1 DEF DeletionInv, WorkerSound
    <2>3. deletion[j].wait /\ deletion[j].stopped => NobodyRuns(j, deletion[j].active)
        BY <1>1 DEF DeletionInv, JobSound
    <2> QED
        BY <2>1, <2>2, <2>3 DEF NobodyRuns
<1> QED
    BY <1>1, DeletionInvariant, PTL

\* How far the code is from GivenUpAfterAll, which it does not keep: for any number
\* of attempts, a cleanup is given up when one attempt at most neither failed nor
\* lost its lease, the one that only waited for the worker.
THEOREM GivenUpOneShort ==
    Spec => [](\A j \in Jobs : deletion[j].state = "failed" => failures[j] >= MaxCleanups - 1)
<1>1. DeletionInv =>
        \A j \in Jobs : deletion[j].state = "failed" => failures[j] >= MaxCleanups - 1
    BY DEF DeletionInv, JobSound, TriesCounted
<1> QED
    BY <1>1, DeletionInvariant, PTL

----------------------------------------------------------------------------
(* The inductive invariant of the chat *)

Serves(c, step) == request[c] # Idle /\ request[c].step = step

\* A request that has its number is the only one with it, and it is not stored;
\* one that is to drop the embedded messages has moved them, or the job is gone.
RequestSound(c) ==
    LET r == request[c]
    IN  /\ Serves(c, "create") =>
             /\ r.sequence \in 1 .. chatSequence[r.job] \ messages[r.job]
             /\ \A d \in Requests \ {c} :
                  Serves(d, "create") /\ request[d].job = r.job => request[d].sequence # r.sequence
        /\ Serves(c, "unset") => LegacyMessage \in messages[r.job] \/ status[r.job] \in Marked

\* No message has a number that is still to be given.
Numbered(j) == messages[j] \subseteq {LegacyMessage} \cup 1 .. chatSequence[j]

ChatInv ==
    /\ DeletionInv
    /\ ChatTypeOK
    /\ \A c \in Requests : RequestSound(c)
    /\ \A j \in Jobs : Numbered(j)
    /\ LegacyKept

----------------------------------------------------------------------------
(* What a step of the deletion does to the messages *)

LEMMA MarkedForGood ==
    ASSUME DeletionAssumption, DeletionInv, Next, NEW j \in Jobs
    PROVE  /\ status[j] \in Marked => status'[j] \in Marked
           /\ messages'[j] = messages[j] \/ (messages'[j] = {} /\ status[j] \in Marked)
           /\ messages' \in [Jobs -> SUBSET Int]
<1> USE DEF Marked
<1>1. /\ status \in [Jobs -> Statuses] /\ messages \in [Jobs -> SUBSET Int]
    BY DEF DeletionInv, TypeOK
<1>2. ASSUME NEW w \in Workers, RunStep(w)
      PROVE  /\ status[j] \in Marked => status'[j] \in Marked
             /\ messages' = messages
    <2>1. CASE Complete(w) \/ FailRun(w)
        BY <1>1, <2>1 DEF Complete, FailRun, Owned, artifacts
    <2>2. CASE \/ Fetch(w) \/ EnterIndex(w) \/ WriteIndex(w)
               \/ RemoveScratch(w) \/ Acknowledge(w)
        BY <2>2 DEF Fetch, EnterIndex, WriteIndex, RemoveScratch, Acknowledge, jobVars, artifacts
    <2> QED
        BY <1>2, <2>1, <2>2 DEF RunStep
<1>3. ASSUME NEW w \in Workers, EraseMessages(w)
      PROVE  /\ status' = status /\ messages' \in [Jobs -> SUBSET Int]
             /\ messages'[j] = messages[j] \/ (messages'[j] = {} /\ status[j] \in Marked)
    <2>1. /\ pc[w] = "messages" /\ messages' = [messages EXCEPT ![work[w].job] = {}]
          /\ status' = status
        BY <1>3 DEF EraseMessages, jobVars
    <2>2. status[work[w].job] \in Marked
        BY <2>1 DEF DeletionInv, WorkerSound, Passing, Erasing
    <2> QED
        BY <1>1, <2>1, <2>2
<1>4. ASSUME NEW w \in Workers, Tombstone(w) \/ TombstoneUnknown(w)
      PROVE  /\ status[j] \in Marked => status'[j] \in Marked
             /\ messages' = messages
    BY <1>1, <1>4 DEF Tombstone, TombstoneUnknown, Bury, jobVars, artifacts
<1>5. ASSUME NEW w \in Workers,
             \/ Wait(w) \/ EraseIndex(w) \/ EraseScratch(w) \/ CheckMedia(w) \/ EraseMedia(w)
             \/ RecordError(w) \/ CollectMedia(w) \/ StepFails(w) \/ Crash(w)
      PROVE  status' = status /\ messages' = messages
    BY <1>5 DEF Wait, EraseIndex, EraseScratch, CheckMedia, EraseMedia, RecordError,
                CollectMedia, StepFails, Crash, jobVars, artifacts
<1>6. ASSUME NEW w \in Workers, NEW i \in Jobs,
             Claim(w, i) \/ Recover(w, i) \/ TakeUp(w, i) \/ CollectScratch(w, i)
      PROVE  /\ status[j] \in Marked => status'[j] \in Marked
             /\ messages' = messages
    <2>1. CASE Claim(w, i) \/ Recover(w, i)
        BY <1>1, <2>1 DEF Claim, Recover, artifacts
    <2>2. CASE TakeUp(w, i) \/ CollectScratch(w, i)
        BY <2>2 DEF TakeUp, CollectScratch, jobVars, artifacts
    <2> QED
        BY <1>6, <2>1, <2>2
<1>7. ASSUME NEW i \in Jobs,
             \/ CancelJob(i) \/ MarkDeleting(i) \/ DeleteAgain(i)
             \/ LeaseEnds(i) \/ DateComes(i) \/ PassTooSlow(i)
      PROVE  /\ status[j] \in Marked => status'[j] \in Marked
             /\ messages' = messages
    <2>1. CASE CancelJob(i) \/ MarkDeleting(i)
        BY <1>1, <2>1 DEF CancelJob, MarkDeleting, artifacts
    <2>2. CASE DeleteAgain(i) \/ LeaseEnds(i) \/ DateComes(i) \/ PassTooSlow(i)
        BY <2>2 DEF DeleteAgain, LeaseEnds, DateComes, PassTooSlow, jobVars, artifacts
    <2> QED
        BY <1>7, <2>1, <2>2
<1> QED
    BY <1>1, <1>2, <1>3, <1>4, <1>5, <1>6, <1>7 DEF Next, PassStep

----------------------------------------------------------------------------
(* Steps *)

LEMMA JobSteps ==
    ASSUME DeletionAssumption, ChatInv, JobStep
    PROVE  ChatInv'
<1>1. /\ DeletionInv' /\ chatSequence' = chatSequence /\ request' = request
      /\ \A j \in Jobs : chat'[j] = (chat[j] /\ status'[j] # "deleted")
      /\ chat' \in [Jobs -> BOOLEAN]
    BY DeletionNext DEF JobStep, ChatInv, ChatTypeOK
<1>2. ASSUME NEW j \in Jobs
      PROVE  /\ status[j] \in Marked => status'[j] \in Marked
             /\ messages'[j] = messages[j] \/ (messages'[j] = {} /\ status[j] \in Marked)
             /\ messages' \in [Jobs -> SUBSET Int]
    BY MarkedForGood DEF JobStep, ChatInv
<1>3. ChatTypeOK'
    <2>1. messages' \in [Jobs -> SUBSET ({LegacyMessage} \cup 1 .. MaxMessages)]
        <3>1. CASE Jobs = {}
            <4>1. messages' \in [Jobs -> SUBSET Int]
                BY <1>1 DEF DeletionInv, TypeOK
            <4> QED
                BY <3>1, <4>1
        <3>2. CASE Jobs # {}
            BY <1>2, <3>2 DEF ChatInv, ChatTypeOK
        <3> QED
            BY <3>1, <3>2
    <2> QED
        BY <1>1, <2>1 DEF ChatInv, ChatTypeOK, DeletionInv
<1>4. ASSUME NEW c \in Requests
      PROVE  RequestSound(c)'
    <2>1. CASE request[c] = Idle
        BY <1>1, <2>1 DEF RequestSound, Serves
    <2>2. CASE request[c] # Idle
        <3>1. PICK j \in Jobs : j = request[c].job
            BY <2>2 DEF ChatInv, ChatTypeOK, Request
        <3> QED
            BY <1>1, <1>2, <3>1 DEF ChatInv, RequestSound, Serves
    <2> QED
        BY <2>1, <2>2
<1>5. \A j \in Jobs : Numbered(j)'
    BY <1>1, <1>2 DEF ChatInv, Numbered
<1>6. LegacyKept'
    BY <1>1, <1>2, ChatAssumption DEF ChatInv, LegacyKept, Marked, ChatAssumption
<1> QED
    BY <1>1, <1>3, <1>4, <1>5, <1>6 DEF ChatInv

\* A request goes on, and neither messages nor jobs change.
LEMMA RequestStep ==
    ASSUME ChatInv, NEW c \in Requests, UNCHANGED <<vars, chatSequence>>,
           NEW r \in Request \cup {Idle}, request' = [request EXCEPT ![c] = r],
           r # Idle => r.step # "create",
           r # Idle /\ r.step = "unset" => LegacyMessage \in messages[r.job],
           chat' \in [Jobs -> BOOLEAN],
           \A j \in Jobs : \/ chat'[j] = chat[j]
                           \/ LegacyMessage \in messages[j] \/ status[j] \in Marked
    PROVE  ChatInv'
<1>1. /\ status' = status /\ messages' = messages /\ chatSequence' = chatSequence
      /\ UNCHANGED vars
    BY DEF vars, jobVars, artifacts
<1>2. DeletionInv'
    BY <1>1, DeletionUnchanged DEF ChatInv
<1>3. \A d \in Requests : request'[d] = IF d = c THEN r ELSE request[d]
    BY DEF ChatInv, ChatTypeOK
<1>4. ChatTypeOK'
    BY <1>1, <1>2 DEF ChatInv, ChatTypeOK, DeletionInv
<1>5. ASSUME NEW d \in Requests
      PROVE  RequestSound(d)'
    BY <1>1, <1>3 DEF ChatInv, RequestSound, Serves
<1>6. \A j \in Jobs : Numbered(j)'
    BY <1>1 DEF ChatInv, Numbered
<1>7. LegacyKept'
    BY <1>1, ChatAssumption DEF ChatInv, LegacyKept, Marked, ChatAssumption
<1> QED
    BY <1>2, <1>4, <1>5, <1>6, <1>7 DEF ChatInv

\* What a request that is under way works on.
LEMMA RequestFacts ==
    ASSUME ChatInv, NEW c \in Requests, request[c] # Idle
    PROVE  /\ request[c] \in Request /\ request[c].job \in Jobs
           /\ request[c].sequence \in 0 .. MaxMessages
    BY DEF ChatInv, ChatTypeOK, Request

LEMMA QuietSteps ==
    ASSUME ChatInv, NEW c \in Requests,
           \/ \E j \in Jobs : AskQuestion(c, j) \/ ListChat(c, j)
           \/ UnsetLegacy(c) \/ RequestFails(c)
    PROVE  ChatInv'
<1>1. \A j \in Jobs : chat[j] \in BOOLEAN
    BY DEF ChatInv, ChatTypeOK
<1>2. ASSUME NEW j \in Jobs, NEW asks \in BOOLEAN, Start(c, j, asks)
      PROVE  ChatInv'
    <2> DEFINE r == [step |-> IF chat[j] THEN "migrate" ELSE "answer", asks |-> asks,
                     job |-> j, sequence |-> 0]
    <2>1. /\ request' = [request EXCEPT ![c] = r]
          /\ UNCHANGED <<vars, chatSequence>> /\ chat' = chat
        BY <1>2 DEF Start
    <2>2. r \in Request /\ r.step \in {"migrate", "answer"}
        BY ChatAssumption DEF Request, ChatAssumption
    <2> HIDE DEF r
    <2>3. chat' \in [Jobs -> BOOLEAN]
        BY <2>1 DEF ChatInv, ChatTypeOK
    <2> QED
        BY <2>1, <2>2, <2>3, RequestStep
<1>3. ASSUME UnsetLegacy(c)
      PROVE  ChatInv'
    <2> DEFINE r == IF request[c].asks THEN [request[c] EXCEPT !.step = "answer"] ELSE Idle
    <2>1. /\ request[c] # Idle /\ request[c].step = "unset"
          /\ request' = [request EXCEPT ![c] = r]
          /\ UNCHANGED <<vars, chatSequence>>
          /\ chat' = [chat EXCEPT ![request[c].job] = FALSE]
        BY <1>3 DEF UnsetLegacy, MigrationDone, Step, Respond, ChatInv, ChatTypeOK
    <2>2. r \in Request \cup {Idle} /\ (r # Idle => r.step = "answer")
        BY <2>1, RequestFacts DEF Request
    <2>3. LegacyMessage \in messages[request[c].job] \/ status[request[c].job] \in Marked
        BY <2>1 DEF ChatInv, RequestSound, Serves
    <2>4. /\ chat' \in [Jobs -> BOOLEAN]
          /\ \A j \in Jobs : chat'[j] = chat[j] \/ j = request[c].job
        BY <2>1 DEF ChatInv, ChatTypeOK
    <2> HIDE DEF r
    <2> QED
        BY <2>1, <2>2, <2>3, <2>4, RequestStep
<1>4. ASSUME RequestFails(c)
      PROVE  ChatInv'
    <2>1. /\ request' = [request EXCEPT ![c] = Idle]
          /\ UNCHANGED <<vars, chatSequence>> /\ chat' = chat
        BY <1>4 DEF RequestFails, Respond
    <2>2. chat' \in [Jobs -> BOOLEAN]
        BY <2>1 DEF ChatInv, ChatTypeOK
    <2> QED
        BY <2>1, <2>2, RequestStep
<1> QED
    BY <1>2, <1>3, <1>4 DEF AskQuestion, ListChat

LEMMA InsertLegacyStep ==
    ASSUME ChatInv, NEW c \in Requests, InsertLegacy(c)
    PROVE  ChatInv'
<1> DEFINE r == [request[c] EXCEPT !.step = "unset"]
<1>1. request[c] # Idle /\ request[c].step = "migrate"
    BY DEF InsertLegacy, Idle
<1>2. PICK j \in Jobs : j = request[c].job
    BY <1>1, RequestFacts
<1>3. /\ UNCHANGED <<jobVars, deletion, index, scratch, files, pc, work, failures, faults>>
      /\ chat' = chat /\ chatSequence' = chatSequence
      /\ messages' = [messages EXCEPT ![j] = @ \cup {LegacyMessage}]
      /\ request' = [request EXCEPT ![c] = r]
    BY <1>2 DEF InsertLegacy, Step, ChatInv, ChatTypeOK
<1>4. r \in Request /\ r.step = "unset" /\ r.job = j
    BY <1>1, <1>2, RequestFacts DEF Request
<1> HIDE DEF r
<1>5. /\ \A k \in Jobs : messages'[k] = IF k = j THEN messages[k] \cup {LegacyMessage}
                                                 ELSE messages[k]
      /\ messages' \in [Jobs -> SUBSET ({LegacyMessage} \cup 1 .. MaxMessages)]
    BY <1>3 DEF ChatInv, ChatTypeOK
<1>6. status' = status
    BY <1>3 DEF jobVars
<1>7. DeletionInv'
    <2>1. messages' \in [Jobs -> SUBSET Int]
        BY <1>3 DEF ChatInv, DeletionInv, TypeOK, LegacyMessage
    <2> QED
        BY <1>3, <2>1, MessagesStep DEF ChatInv
<1>8. ChatTypeOK'
    BY <1>3, <1>4, <1>5, <1>7 DEF ChatInv, ChatTypeOK, DeletionInv
<1>9. ASSUME NEW d \in Requests
      PROVE  RequestSound(d)'
    <2>1. \A e \in Requests : request'[e] = IF e = c THEN r ELSE request[e]
        BY <1>3 DEF ChatInv, ChatTypeOK
    <2>2. CASE d = c
        BY <1>4, <1>5, <2>1, <2>2 DEF RequestSound, Serves
    <2>3. CASE d # c /\ request[d] # Idle
        <3>1. PICK k \in Jobs : k = request[d].job
            BY <2>3, RequestFacts
        <3>2. LegacyMessage \notin 1 .. chatSequence[k]
            BY DEF LegacyMessage, ChatInv, ChatTypeOK
        <3>3. RequestSound(d)
            BY DEF ChatInv
        <3>4. Serves(d, "create") => request[d].sequence \in 1 .. chatSequence[k] \ messages'[k]
            BY <1>5, <3>1, <3>2, <3>3 DEF RequestSound
        <3> QED
            BY <1>3, <1>4, <1>5, <1>6, <2>1, <2>3, <3>1, <3>3, <3>4 DEF RequestSound, Serves
    <2>4. CASE request[d] = Idle /\ d # c
        BY <2>1, <2>4 DEF RequestSound, Serves
    <2> QED
        BY <2>2, <2>3, <2>4
<1>10. \A k \in Jobs : Numbered(k)'
    BY <1>3, <1>5 DEF ChatInv, Numbered
<1>11. LegacyKept'
    BY <1>3, <1>5, <1>6, ChatAssumption DEF ChatInv, LegacyKept, ChatAssumption
<1> QED
    BY <1>7, <1>8, <1>9, <1>10, <1>11 DEF ChatInv

LEMMA CreateMessageStep ==
    ASSUME ChatInv, NEW c \in Requests, CreateMessage(c)
    PROVE  ChatInv'
<1> DEFINE n == request[c].sequence
<1>1. request[c] # Idle /\ request[c].step = "create"
    BY DEF CreateMessage, Idle
<1>2. PICK j \in Jobs : j = request[c].job
    BY <1>1, RequestFacts
<1>3. /\ UNCHANGED <<jobVars, deletion, index, scratch, files, pc, work, failures, faults>>
      /\ chat' = chat /\ chatSequence' = chatSequence
      /\ messages' = [messages EXCEPT ![j] = @ \cup {n}]
      /\ request' = [request EXCEPT ![c] = Idle]
    BY <1>2 DEF CreateMessage, Respond
<1>4. n \in 1 .. chatSequence[j] /\ n \in 1 .. MaxMessages
    <2>1. n \in 1 .. chatSequence[j]
        BY <1>1, <1>2 DEF ChatInv, RequestSound, Serves
    <2>2. n \in 0 .. MaxMessages
        BY <1>1, RequestFacts
    <2> QED
        BY <2>1, <2>2
<1>5. /\ \A k \in Jobs : messages'[k] = IF k = j THEN messages[k] \cup {n} ELSE messages[k]
      /\ messages' \in [Jobs -> SUBSET ({LegacyMessage} \cup 1 .. MaxMessages)]
    BY <1>3, <1>4 DEF ChatInv, ChatTypeOK
<1>6. status' = status
    BY <1>3 DEF jobVars
<1>7. DeletionInv'
    <2>1. messages' \in [Jobs -> SUBSET Int]
        BY <1>3, <1>4 DEF ChatInv, DeletionInv, TypeOK
    <2> QED
        BY <1>3, <2>1, MessagesStep DEF ChatInv
<1>8. ChatTypeOK'
    BY <1>3, <1>5, <1>7 DEF ChatInv, ChatTypeOK, DeletionInv
<1>9. ASSUME NEW d \in Requests
      PROVE  RequestSound(d)'
    <2>1. \A e \in Requests : request'[e] = IF e = c THEN Idle ELSE request[e]
        BY <1>3 DEF ChatInv, ChatTypeOK
    <2>2. CASE request'[d] = Idle
        BY <2>2 DEF RequestSound, Serves
    <2>3. CASE d # c /\ request[d] # Idle
        <3>1. PICK k \in Jobs : k = request[d].job
            BY <2>3, RequestFacts
        <3>2. RequestSound(d) /\ RequestSound(c)
            BY DEF ChatInv
        <3>3. Serves(d, "create") /\ k = j => request[d].sequence # n
            BY <1>1, <1>2, <2>3, <3>1, <3>2 DEF RequestSound, Serves
        <3>4. Serves(d, "create") => request[d].sequence \in 1 .. chatSequence[k] \ messages'[k]
            BY <1>5, <3>1, <3>2, <3>3 DEF RequestSound
        <3> QED
            BY <1>3, <1>5, <1>6, <2>1, <2>3, <3>1, <3>2, <3>4 DEF RequestSound, Serves
    <2> QED
        BY <2>1, <2>2, <2>3
<1>10. \A k \in Jobs : Numbered(k)'
    BY <1>3, <1>4, <1>5 DEF ChatInv, Numbered
<1>11. LegacyKept'
    BY <1>3, <1>5, <1>6, ChatAssumption DEF ChatInv, LegacyKept, ChatAssumption
<1> QED
    BY <1>7, <1>8, <1>9, <1>10, <1>11 DEF ChatInv

\* The number is the counter's next: nobody has it, and no message.
LEMMA TakeNumberStep ==
    ASSUME ChatInv, NEW c \in Requests, TakeNumber(c)
    PROVE  ChatInv'
<1>1. request[c] # Idle /\ request[c].step = "answer"
    BY DEF TakeNumber, Idle
<1>2. PICK j \in Jobs : j = request[c].job
    BY <1>1, RequestFacts
<1>3. CASE status[j] # "settled"
    <2>1. /\ request' = [request EXCEPT ![c] = Idle]
          /\ UNCHANGED <<vars, chatSequence>> /\ chat' = chat
        BY <1>2, <1>3 DEF TakeNumber, Respond
    <2>2. chat' \in [Jobs -> BOOLEAN]
        BY <2>1 DEF ChatInv, ChatTypeOK
    <2> QED
        BY <2>1, <2>2, RequestStep
<1>4. CASE status[j] = "settled"
    <2> DEFINE n == chatSequence[j] + 1
               r == [request[c] EXCEPT !.step = "create", !.sequence = n]
    <2>1. /\ UNCHANGED vars /\ chat' = chat
          /\ chatSequence' = [chatSequence EXCEPT ![j] = n]
          /\ request' = [request EXCEPT ![c] = r]
          /\ chatSequence[j] < MaxMessages
        BY <1>2, <1>4 DEF TakeNumber, NextSequence, ChatInv, ChatTypeOK
    <2>2. n \in 1 .. MaxMessages /\ chatSequence[j] \in Nat
        <3>1. chatSequence[j] \in 0 .. MaxMessages /\ MaxMessages \in Nat
            BY ChatAssumption DEF ChatInv, ChatTypeOK, ChatAssumption
        <3> QED
            BY <2>1, <3>1
    <2>3. r \in Request /\ r.step = "create" /\ r.job = j /\ r.sequence = n /\ r # Idle
        <3>1. r \in Request /\ r.step = "create" /\ r.job = j /\ r.sequence = n
            <4>1. n \in 0 .. MaxMessages /\ request[c] \in Request
                BY <1>1, <2>2, RequestFacts
            <4> HIDE DEF n
            <4> QED
                BY <1>2, <4>1 DEF Request
        <3> QED
            BY <3>1 DEF Idle
    <2> HIDE DEF r
    <2>4. /\ \A k \in Jobs : chatSequence'[k] = IF k = j THEN n ELSE chatSequence[k]
          /\ \A d \in Requests : request'[d] = IF d = c THEN r ELSE request[d]
        BY <2>1 DEF ChatInv, ChatTypeOK
    <2>5. status' = status /\ messages' = messages
        BY <2>1 DEF vars, jobVars, artifacts
    <2>6. DeletionInv'
        BY <2>1, DeletionUnchanged DEF ChatInv
    <2>7. ChatTypeOK'
        BY <2>1, <2>2, <2>3, <2>5, <2>6 DEF ChatInv, ChatTypeOK, DeletionInv
    <2>8. n \notin messages[j]
        BY <2>2, ChatAssumption DEF ChatInv, Numbered, LegacyMessage, ChatTypeOK
    <2>9. ASSUME NEW d \in Requests
          PROVE  RequestSound(d)'
        <3>1. RequestSound(d)
            BY DEF ChatInv
        <3>2. \A e \in Requests \ {c} : Serves(e, "create") /\ request[e].job = j
                => request[e].sequence \in 1 .. chatSequence[j]
            BY DEF ChatInv, RequestSound
        <3>3. CASE d = c
            <4>1. \A e \in Requests \ {c} : Serves(e, "create") /\ request[e].job = j
                    => request[e].sequence # n
                BY <2>2, <3>2
            <4> QED
                BY <2>2, <2>3, <2>4, <2>5, <2>8, <3>3, <4>1 DEF RequestSound, Serves
        <3>4. CASE d # c /\ request[d] # Idle
            <4>1. PICK k \in Jobs : k = request[d].job
                BY <3>4, RequestFacts
            <4>2. Serves(d, "create") => request[d].sequence \in 1 .. chatSequence'[k] \ messages[k]
                <5>1. chatSequence'[k] \in Nat /\ chatSequence[k] \in Nat
                      /\ chatSequence[k] <= chatSequence'[k]
                    BY <2>2, <2>4 DEF ChatInv, ChatTypeOK
                <5> QED
                    BY <3>1, <4>1, <5>1 DEF RequestSound
            <4>3. Serves(d, "create") /\ k = j => request[d].sequence # n
                <5>1. Serves(d, "create") /\ k = j => request[d].sequence \in 1 .. chatSequence[j]
                    BY <3>2, <3>4, <4>1
                <5> QED
                    BY <2>2, <5>1
            <4> QED
                BY <2>3, <2>4, <2>5, <3>1, <3>4, <4>1, <4>2, <4>3 DEF RequestSound, Serves
        <3>5. CASE d # c /\ request[d] = Idle
            BY <2>4, <3>5 DEF RequestSound, Serves
        <3> QED
            BY <3>3, <3>4, <3>5
    <2>10. \A k \in Jobs : Numbered(k)'
        <3>1. \A k \in Jobs : 1 .. chatSequence[k] \subseteq 1 .. chatSequence'[k]
            BY <2>2, <2>4 DEF ChatInv, ChatTypeOK
        <3> QED
            BY <2>5, <3>1 DEF ChatInv, Numbered
    <2>11. LegacyKept'
        BY <2>1, <2>5 DEF ChatInv, LegacyKept
    <2> QED
        BY <2>6, <2>7, <2>9, <2>10, <2>11 DEF ChatInv
<1> QED
    BY <1>3, <1>4

LEMMA ChatInitial == DeletionAssumption /\ ChatInit => ChatInv
<1> SUFFICES ASSUME DeletionAssumption, ChatInit
             PROVE  ChatInv
    OBVIOUS
<1>1. DeletionInv
    BY DeletionInit DEF ChatInit
<1>2. /\ \A c \in Requests : request[c] = Idle
      /\ \A j \in Jobs : messages[j] = {} /\ (chat[j] <=> j \in LegacyJobs)
    BY DEF ChatInit, Init
<1>3. ChatTypeOK
    BY <1>1, ChatAssumption DEF ChatInit, Init, ChatTypeOK, DeletionInv, ChatAssumption
<1> QED
    BY <1>1, <1>2, <1>3, ChatAssumption
    DEF ChatInv, RequestSound, Serves, Numbered, LegacyKept, ChatAssumption

LEMMA ChatStep ==
    ASSUME DeletionAssumption, ChatInv, [ChatNext]_<<vars, chatVars>>
    PROVE  ChatInv'
<1>1. CASE UNCHANGED <<vars, chatVars>>
    <2>1. /\ UNCHANGED vars /\ status' = status /\ messages' = messages
          /\ chat' = chat /\ chatSequence' = chatSequence /\ request' = request
        BY <1>1 DEF vars, jobVars, artifacts, chatVars
    <2>2. DeletionInv'
        BY <2>1, DeletionUnchanged DEF ChatInv
    <2> QED
        BY <2>1, <2>2
        DEF ChatInv, ChatTypeOK, DeletionInv, RequestSound, Serves, Numbered, LegacyKept
<1>2. CASE ChatNext
    BY <1>2, JobSteps, QuietSteps, InsertLegacyStep, CreateMessageStep, TakeNumberStep
    DEF ChatNext
<1> QED
    BY <1>1, <1>2

----------------------------------------------------------------------------
(* Theorems *)

\* The invariant of chat and deletion together: that of the deletion, and which
\* numbers and embedded messages the requests under way may still store.
THEOREM ChatInvariant == ChatSpec => []ChatInv
    BY DeletionAssumption, ChatInitial, ChatStep, PTL DEF ChatSpec

\* The types of the chat and of the deletion it is composed with.
THEOREM ChatTypes == ChatSpec => []ChatTypeOK
<1>1. ChatInv => ChatTypeOK
    BY DEF ChatInv
<1> QED
    BY <1>1, ChatInvariant, PTL

\* For any number of questions answered at the same time, no two get one number
\* and none a number that is stored.
THEOREM NumbersUnique == ChatSpec => []SequenceUnique
<1>1. ChatInv => SequenceUnique
    BY DEF ChatInv, RequestSound, Serves, SequenceUnique
<1> QED
    BY <1>1, ChatInvariant, PTL

\* For any number of requests that move embedded messages and stop anywhere, a
\* kept job's messages are in its document or in the collection.
THEOREM LegacyMessagesKept == ChatSpec => []LegacyKept
<1>1. ChatInv => LegacyKept
    BY DEF ChatInv
<1> QED
    BY <1>1, ChatInvariant, PTL

\* Requests that ask, list and move messages while a job is deleted take nothing
\* from what the deletion promises.
THEOREM DeletionWithChat ==
    ChatSpec => [](IndexErased /\ MediaKept)
<1>1. ChatInv => IndexErased /\ MediaKept
    BY DEF ChatInv, DeletionInv, JobSound, IndexErased, MediaKept, Marked
<1> QED
    BY <1>1, ChatInvariant, PTL

----------------------------------------------------------------------------
(* The deletion in the end: workers come back to their loop *)

\* How far a worker is from its loop.
PlaceRank(p) ==
    CASE p = "idle" -> 0
      [] p \in {"acking", "wait", "error"} -> 1
      [] p \in {"leaving", "tombstone"} -> 2
      [] p \in {"stored", "messages"} -> 3
      [] p \in {"indexing", "unlink"} -> 4
      [] p \in {"fetched", "media"} -> 5
      [] p \in {"run", "scratch"} -> 6
      [] p = "vector" -> 7

\* What one step makes of a worker.
Rests(w) == pc'[w] = pc[w] /\ work'[w] = work[w]
Nears(w) ==
    /\ PlaceRank(pc'[w]) < PlaceRank(pc[w])
    /\ pc'[w] # "idle" => work'[w] = work[w]

\* Only the loop is at its end.
LEMMA PlaceRanks ==
    ASSUME NEW p \in Places
    PROVE  PlaceRank(p) \in 0 .. 7 /\ (PlaceRank(p) = 0 <=> p = "idle")
BY DEF Places, Executing, Erasing, PlaceRank

\* A step of a worker brings it nearer to its loop and leaves the others where they
\* are; the lock of the vectors is entered only when free, by an execution.
LEMMA OwnStepNears ==
    ASSUME TypeOK, NEW w \in Workers,
           RunStep(w) \/ PassStep(w) \/ StepFails(w) \/ TombstoneUnknown(w) \/ Crash(w)
    PROVE  /\ Nears(w)
           /\ \A v \in Workers \ {w} : Rests(v)
           /\ pc'[w] = "indexing" => /\ LockFree(work[w].job)
                                     /\ status[work[w].job] = "processing"
<1>1. ASSUME NEW p \in Places, Goto(w, p), PlaceRank(p) < PlaceRank(pc[w]),
             IF p = "idle" THEN work' = [work EXCEPT ![w] = NoWork] ELSE work' = work,
             p = "indexing" => LockFree(work[w].job) /\ status[work[w].job] = "processing"
      PROVE  /\ Nears(w)
             /\ \A v \in Workers \ {w} : Rests(v)
             /\ pc'[w] = "indexing" => /\ LockFree(work[w].job)
                                       /\ status[work[w].job] = "processing"
    BY <1>1 DEF TypeOK, Goto, Rests, Nears
<1>2. CASE Fetch(w)
    BY <1>1, <1>2 DEF Fetch, Places, Executing, PlaceRank
<1>3. CASE EnterIndex(w)
    BY <1>1, <1>3 DEF EnterIndex, Owned, Places, Executing, PlaceRank
<1>4. CASE WriteIndex(w)
    BY <1>1, <1>4 DEF WriteIndex, Places, Executing, PlaceRank
<1>5. CASE Complete(w)
    BY <1>1, <1>5 DEF Complete, Places, PlaceRank
<1>6. CASE FailRun(w)
    BY <1>1, <1>6 DEF FailRun, Places, Executing, PlaceRank
<1>7. CASE RemoveScratch(w)
    BY <1>1, <1>7 DEF RemoveScratch, Places, PlaceRank
<1>8. CASE Acknowledge(w)
    BY <1>1, <1>8 DEF Acknowledge, Loop, Places, PlaceRank
<1>9. CASE Wait(w)
    BY <1>1, <1>9 DEF Wait, Loop, Places, PlaceRank
<1>10. CASE EraseIndex(w)
    BY <1>1, <1>10 DEF EraseIndex, Places, Erasing, PlaceRank
<1>11. CASE EraseScratch(w)
    BY <1>1, <1>11 DEF EraseScratch, Places, Erasing, PlaceRank
<1>12. CASE CheckMedia(w)
    BY <1>1, <1>12 DEF CheckMedia, Places, Erasing, PlaceRank
<1>13. CASE EraseMedia(w)
    BY <1>1, <1>13 DEF EraseMedia, Places, Erasing, PlaceRank
<1>14. CASE EraseMessages(w)
    BY <1>1, <1>14 DEF EraseMessages, Places, Erasing, PlaceRank
<1>15. CASE Tombstone(w)
    BY <1>1, <1>15 DEF Tombstone, Loop, Places, PlaceRank
<1>16. CASE RecordError(w)
    BY <1>1, <1>16 DEF RecordError, Loop, Places, PlaceRank
<1>17. CASE StepFails(w)
    BY <1>1, <1>17 DEF StepFails, Places, Erasing, PlaceRank
<1>18. CASE TombstoneUnknown(w)
    BY <1>1, <1>18 DEF TombstoneUnknown, Places, PlaceRank
<1>19. CASE Crash(w)
    <2>1. PlaceRank(pc[w]) \in 0 .. 7 /\ PlaceRank(pc[w]) # 0 /\ PlaceRank("idle") = 0
        BY <1>19, WorkFacts, PlaceRanks DEF Crash, PlaceRank
    <2> QED
        BY <1>1, <1>19, <2>1 DEF Crash, Loop, Places
<1> QED
    BY <1>2, <1>3, <1>4, <1>5, <1>6, <1>7, <1>8, <1>9, <1>10, <1>11, <1>12, <1>13,
       <1>14, <1>15, <1>16, <1>17, <1>18, <1>19
    DEF RunStep, PassStep

\* One step, as the workers see it: somebody takes up something, one goes on, or none.
LEMMA NextPlaces ==
    ASSUME TypeOK, [Next]_vars, NEW w \in Workers
    PROVE  /\ Rests(w) \/ Nears(w) \/ (pc[w] = "idle" /\ pc'[w] # "indexing")
           /\ pc'[w] = "indexing" /\ ~Rests(w) =>
                /\ LockFree(work[w].job) /\ status[work[w].job] = "processing"
                /\ work'[w] = work[w]
                /\ \A v \in Workers \ {w} : Rests(v)
<1>1. ASSUME NEW v \in Workers,
             RunStep(v) \/ PassStep(v) \/ StepFails(v) \/ TombstoneUnknown(v) \/ Crash(v)
      PROVE  /\ Rests(w) \/ Nears(w) \/ (pc[w] = "idle" /\ pc'[w] # "indexing")
             /\ pc'[w] = "indexing" /\ ~Rests(w) =>
                  /\ LockFree(work[w].job) /\ status[work[w].job] = "processing"
                  /\ work'[w] = work[w]
                  /\ \A u \in Workers \ {w} : Rests(u)
    BY <1>1, OwnStepNears DEF Nears
<1>2. ASSUME NEW v \in Workers, NEW j \in Jobs, Claim(v, j) \/ TakeUp(v, j)
      PROVE  Rests(w) \/ (pc[w] = "idle" /\ pc'[w] # "indexing")
    BY <1>2 DEF TypeOK, Claim, TakeUp, Goto, Rests
<1>3. CASE UNCHANGED <<pc, work>>
    BY <1>3 DEF Rests
<1>4. ASSUME NEW v \in Workers, NEW j \in Jobs, Recover(v, j) \/ CollectScratch(v, j)
      PROVE  UNCHANGED <<pc, work>>
    BY <1>4 DEF Recover, CollectScratch
<1>5. ASSUME NEW v \in Workers, CollectMedia(v)
      PROVE  UNCHANGED <<pc, work>>
    BY <1>5 DEF CollectMedia
<1>6. ASSUME NEW j \in Jobs,
             CancelJob(j) \/ MarkDeleting(j) \/ DeleteAgain(j) \/ LeaseEnds(j) \/ DateComes(j) \/ PassTooSlow(j)
      PROVE  UNCHANGED <<pc, work>>
    BY <1>6 DEF CancelJob, MarkDeleting, DeleteAgain, LeaseEnds, DateComes, PassTooSlow
<1>7. UNCHANGED vars => UNCHANGED <<pc, work>>
    BY DEF vars
<1> QED
    BY <1>1, <1>2, <1>3, <1>4, <1>5, <1>6, <1>7 DEF Next

\* At most one execution has the vectors of a job open.
OneIndexes ==
    \A v, w \in Workers :
        pc[v] = "indexing" /\ pc[w] = "indexing" /\ work[v].job = work[w].job => v = w

\* What the cleanup of a marked job can be; only a pass has a lease.
RecordSound(s, d) ==
    /\ s = "deleting" => d.state \in {"pending", "working", "failed"}
    /\ d.held => d.state = "working"

EraseInv ==
    /\ DeletionInv
    /\ OneIndexes
    /\ \A j \in Jobs : RecordSound(status[j], deletion[j])

\* No step makes a second writer of the vectors.
LEMMA OneIndexesNext ==
    ASSUME TypeOK, OneIndexes, [Next]_vars
    PROVE  OneIndexes'
<1> SUFFICES ASSUME NEW v \in Workers, NEW w \in Workers, v # w,
                    pc'[v] = "indexing", pc'[w] = "indexing", work'[v].job = work'[w].job
             PROVE  FALSE
    BY DEF OneIndexes
<1>1. CASE Rests(v) /\ Rests(w)
    BY <1>1 DEF OneIndexes, Rests
<1>2. CASE ~Rests(v)
    <2>1. LockFree(work[v].job) /\ work'[v] = work[v] /\ Rests(w)
        BY <1>2, NextPlaces
    <2> QED
        BY <2>1 DEF LockFree, Rests
<1>3. CASE ~Rests(w)
    <2>1. LockFree(work[w].job) /\ work'[w] = work[w] /\ Rests(v)
        BY <1>3, NextPlaces
    <2> QED
        BY <2>1 DEF LockFree, Rests
<1> QED
    BY <1>1, <1>2, <1>3

\* A step that writes the record or the status of one job, or of none.
LEMMA OneRecord ==
    ASSUME TypeOK, \A i \in Jobs : RecordSound(status[i], deletion[i]),
           NEW j \in Jobs, NEW s, NEW d,
           status' = [status EXCEPT ![j] = s], deletion' = [deletion EXCEPT ![j] = d],
           RecordSound(s, d)
    PROVE  \A i \in Jobs : RecordSound(status'[i], deletion'[i])
BY DEF TypeOK

\* Every step leaves the cleanup records as they can be.
LEMMA RecordSoundNext ==
    ASSUME DeletionAssumption, TypeOK, [Next]_vars,
           \A j \in Jobs : RecordSound(status[j], deletion[j])
    PROVE  \A j \in Jobs : RecordSound(status'[j], deletion'[j])
<1>1. ASSUME NEW j \in Jobs, NEW s,
             status' = [status EXCEPT ![j] = s], s # "deleting", UNCHANGED deletion
      PROVE  \A i \in Jobs : RecordSound(status'[i], deletion'[i])
    BY <1>1 DEF TypeOK, RecordSound
<1>2. CASE UNCHANGED <<status, deletion>>
    BY <1>2
<1>3. ASSUME NEW j \in Jobs, NEW d, UNCHANGED status,
             deletion' = [deletion EXCEPT ![j] = d], RecordSound(status[j], d)
      PROVE  \A i \in Jobs : RecordSound(status'[i], deletion'[i])
    BY <1>3 DEF TypeOK
<1>4. \A w \in Workers : pc[w] # "idle" => work[w].job \in Jobs
    BY WorkFacts
<1>5. \A j \in Jobs : deletion[j] \in Cleanup
    BY DEF TypeOK
<1>6. NoCleanup.held = FALSE /\ NoCleanup.state = "none"
    BY DEF NoCleanup
<1>7. ASSUME NEW w \in Workers, Fetch(w) \/ EnterIndex(w) \/ WriteIndex(w) \/ RemoveScratch(w)
                \/ EraseIndex(w) \/ EraseScratch(w) \/ CheckMedia(w) \/ EraseMedia(w)
                \/ EraseMessages(w) \/ StepFails(w) \/ Crash(w) \/ CollectMedia(w)
      PROVE  UNCHANGED <<status, deletion>>
    BY <1>7 DEF Fetch, EnterIndex, WriteIndex, RemoveScratch, EraseIndex, EraseScratch,
         CheckMedia, EraseMedia, EraseMessages, StepFails, Crash, CollectMedia, jobVars
<1>8. ASSUME NEW w \in Workers, Complete(w) \/ FailRun(w)
      PROVE  \A i \in Jobs : RecordSound(status'[i], deletion'[i])
    <2>1. work[w].job \in Jobs
        BY <1>4, <1>8 DEF Complete, FailRun, Executing
    <2> QED
        BY <1>1, <1>2, <1>8, <2>1 DEF Complete, FailRun
<1>9. ASSUME NEW w \in Workers, NEW j \in Jobs, Claim(w, j) \/ Recover(w, j)
      PROVE  \A i \in Jobs : RecordSound(status'[i], deletion'[i])
    BY <1>1, <1>9 DEF Claim, Recover
<1>10. ASSUME NEW j \in Jobs, CancelJob(j)
      PROVE  \A i \in Jobs : RecordSound(status'[i], deletion'[i])
    BY <1>1, <1>10 DEF CancelJob
<1>11. ASSUME NEW j \in Jobs, MarkDeleting(j)
      PROVE  \A i \in Jobs : RecordSound(status'[i], deletion'[i])
    <2> DEFINE stopped == status[j] # "processing"
               d == [NoCleanup EXCEPT !.state = "pending", !.active = attempt[j],
                                      !.wait = lease[j], !.stopped = stopped]
    <2>1. deletion' = [deletion EXCEPT ![j] = d] /\ status' = [status EXCEPT ![j] = "deleting"]
        BY <1>11 DEF MarkDeleting
    <2>2. d.state = "pending" /\ d.held = FALSE
        BY DEF NoCleanup
    <2> HIDE DEF d
    <2> QED
        BY <2>1, <2>2, OneRecord DEF RecordSound
<1>12. ASSUME NEW j \in Jobs, DeleteAgain(j)
      PROVE  \A i \in Jobs : RecordSound(status'[i], deletion'[i])
    <2> DEFINE d == [deletion[j] EXCEPT !.state = "pending", !.next = "past", !.attempts = 0]
    <2>1. deletion' = [deletion EXCEPT ![j] = d] /\ UNCHANGED status
        BY <1>12 DEF DeleteAgain, TypeOK, jobVars
    <2>2. d.state = "pending" /\ d.held = deletion[j].held /\ deletion[j].state = "failed"
        BY <1>5, <1>12 DEF DeleteAgain, Cleanup
    <2> HIDE DEF d
    <2> QED
        BY <1>3, <2>1, <2>2 DEF RecordSound
<1>13. ASSUME NEW w \in Workers, NEW j \in Jobs, TakeUp(w, j)
      PROVE  \A i \in Jobs : RecordSound(status'[i], deletion'[i])
    <2> DEFINE tries == OneMore(deletion[j].attempts)
               d == [deletion[j] EXCEPT !.state = "working", !.token = w, !.held = TRUE,
                                        !.attempts = tries]
    <2>1. deletion' = [deletion EXCEPT ![j] = d] /\ UNCHANGED status
        BY <1>13 DEF TakeUp, jobVars
    <2>2. d.state = "working"
        BY <1>5 DEF Cleanup
    <2> HIDE DEF d
    <2> QED
        BY <1>3, <2>1, <2>2 DEF RecordSound
<1>14. ASSUME NEW w \in Workers, NEW j \in Jobs, NEW state \in {"pending", "failed"}, NEW next,
              deletion' = [deletion EXCEPT ![j] = Released(@, state, next)], UNCHANGED status
      PROVE  \A i \in Jobs : RecordSound(status'[i], deletion'[i])
    <2> DEFINE d == Released(deletion[j], state, next)
    <2>1. d.state = state /\ d.held = FALSE
        BY <1>5 DEF Cleanup, Released
    <2>2. deletion' = [deletion EXCEPT ![j] = d]
        BY <1>14
    <2> HIDE DEF d
    <2> QED
        BY <1>3, <1>14, <2>1, <2>2 DEF RecordSound
<1>15. ASSUME NEW w \in Workers, Wait(w) \/ RecordError(w)
      PROVE  \A i \in Jobs : RecordSound(status'[i], deletion'[i])
    <2>1. work[w].job \in Jobs
        BY <1>4, <1>15 DEF Wait, RecordError
    <2>2. UNCHANGED status
        BY <1>15 DEF Wait, RecordError, jobVars
    <2>3. CASE Wait(w)
        BY <1>2, <1>14, <2>1, <2>2, <2>3 DEF Wait
    <2>4. CASE RecordError(w)
        BY <1>2, <1>14, <2>1, <2>2, <2>4 DEF RecordError
    <2> QED
        BY <1>15, <2>3, <2>4
<1>16. ASSUME NEW w \in Workers, Acknowledge(w)
      PROVE  \A i \in Jobs : RecordSound(status'[i], deletion'[i])
    <2> DEFINE j == work[w].job
               d == [deletion[j] EXCEPT !.stopped = TRUE, !.next = "past"]
    <2>1. j \in Jobs /\ UNCHANGED status
        BY <1>4, <1>16 DEF Acknowledge, jobVars
    <2>2. d.state = deletion[j].state /\ d.held = deletion[j].held
        BY <1>5, <2>1 DEF Cleanup
    <2>3. deletion' = [deletion EXCEPT ![j] = d] \/ UNCHANGED deletion
        BY <1>16, <2>1 DEF Acknowledge, TypeOK
    <2> HIDE DEF d, j
    <2> QED
        BY <1>2, <1>3, <2>1, <2>2, <2>3 DEF RecordSound
<1>17. ASSUME NEW w \in Workers, Tombstone(w) \/ TombstoneUnknown(w)
      PROVE  \A i \in Jobs : RecordSound(status'[i], deletion'[i])
    <2> DEFINE j == work[w].job
               d == Buried
    <2>1. j \in Jobs
        BY <1>4, <1>17 DEF Tombstone, TombstoneUnknown
    <2>2. d.held = FALSE
        BY DEF NoCleanup, Buried
    <2>3. \/ deletion' = [deletion EXCEPT ![j] = d] /\ status' = [status EXCEPT ![j] = "deleted"]
          \/ UNCHANGED <<status, deletion>>
        BY <1>17 DEF Tombstone, TombstoneUnknown, Bury, jobVars
    <2> HIDE DEF d, j
    <2> QED
        BY <1>2, <2>1, <2>2, <2>3, OneRecord DEF RecordSound
<1>18. ASSUME NEW j \in Jobs, DateComes(j) \/ PassTooSlow(j)
      PROVE  \A i \in Jobs : RecordSound(status'[i], deletion'[i])
    <2>1. UNCHANGED status
        BY <1>18 DEF DateComes, PassTooSlow, jobVars
    <2>2. \/ deletion' = [deletion EXCEPT ![j] = [deletion[j] EXCEPT !.wait = FALSE]]
          \/ deletion' = [deletion EXCEPT ![j] = [deletion[j] EXCEPT !.held = FALSE]]
          \/ deletion' = [deletion EXCEPT ![j] = [deletion[j] EXCEPT !.next = "past"]]
        BY <1>18 DEF DateComes, PassTooSlow, LeaseOver
    <2>3. /\ RecordSound(status[j], [deletion[j] EXCEPT !.wait = FALSE])
          /\ RecordSound(status[j], [deletion[j] EXCEPT !.held = FALSE])
          /\ RecordSound(status[j], [deletion[j] EXCEPT !.next = "past"])
        BY <1>5 DEF RecordSound, Cleanup
    <2> QED
        BY <1>3, <2>1, <2>2, <2>3
<1>19. ASSUME NEW w \in Workers, NEW j \in Jobs, CollectScratch(w, j)
      PROVE  UNCHANGED <<status, deletion>>
    BY <1>19 DEF CollectScratch, jobVars
<1>20. ASSUME NEW j \in Jobs, LeaseEnds(j)
      PROVE  UNCHANGED <<status, deletion>>
    BY <1>20 DEF LeaseEnds
<1>21. UNCHANGED vars => UNCHANGED <<status, deletion>>
    BY DEF vars, jobVars
<1>22. ASSUME NEW w \in Workers, RunStep(w) \/ PassStep(w)
      PROVE  \A i \in Jobs : RecordSound(status'[i], deletion'[i])
    BY <1>2, <1>7, <1>8, <1>15, <1>16, <1>17, <1>22 DEF RunStep, PassStep
<1> QED
    BY <1>2, <1>7, <1>9, <1>10, <1>11, <1>12, <1>13, <1>17, <1>18, <1>19, <1>20, <1>21,
       <1>22
    DEF Next

\* What the arguments about the end of a deletion start from.
LEMMA EraseInvariant == Spec => []EraseInv
<1>1. Init => OneIndexes /\ \A j \in Jobs : RecordSound(status[j], deletion[j])
    BY DEF Init, OneIndexes, RecordSound, NoCleanup, Buried
<1>2. DeletionInv /\ OneIndexes /\ (\A j \in Jobs : RecordSound(status[j], deletion[j]))
        /\ [Next]_vars
        => OneIndexes' /\ (\A j \in Jobs : RecordSound(status[j], deletion[j]))'
    BY DeletionAssumption, OneIndexesNext, RecordSoundNext DEF DeletionInv
<1> DEFINE R == \A j \in Jobs : RecordSound(status[j], deletion[j])
<1>3. EraseInv <=> DeletionInv /\ OneIndexes /\ R
    BY DEF EraseInv
<1> HIDE DEF R
<1> QED
    BY <1>1, <1>2, <1>3, DeletionInvariant, PTL DEF Spec, R

\* A worker has a step of its execution or of its pass before it: what makes
\* RunStep and PassStep possible.
RunDue(w) == pc[w] \in Running
PassDue(w) == pc[w] \in Passing /\ (pc[w] = "vector" => LockFree(work[w].job))

\* What stays due is done: the fairness of RunStep and PassStep.
Attended(w) ==
    /\ <>[]RunDue(w) => []<><<RunStep(w)>>_vars
    /\ <>[]PassDue(w) => []<><<PassStep(w)>>_vars

WorkersAttended == \A w \in Workers : Attended(w)

\* The invariant holds and the workers go on, from now on.
Steady == []EraseInv /\ [][Next]_vars /\ []WorkersAttended

Unlocks(j) == <>LockFree(j)

\* A mark stays, and who got no lock before it gets none.
LEMMA MarkedStays ==
    ASSUME DeletionAssumption, EraseInv, [Next]_vars, NEW j \in Jobs, status[j] \in Marked
    PROVE  status'[j] \in Marked
<1>1. CASE Next
    BY <1>1, MarkedForGood DEF EraseInv
<1>2. CASE UNCHANGED vars
    BY <1>2 DEF vars, jobVars
<1> QED
    BY <1>1, <1>2

\* Nobody takes the lock of a marked job.
LEMMA LockStays ==
    ASSUME EraseInv, [Next]_vars, NEW j \in Jobs, status[j] \in Marked, LockFree(j)
    PROVE  LockFree(j)'
<1> SUFFICES ASSUME NEW w \in Workers, pc'[w] = "indexing", work'[w].job = j PROVE FALSE
    BY DEF LockFree
<1>1. CASE Rests(w)
    BY <1>1 DEF Rests, LockFree
<1>2. CASE ~Rests(w)
    BY <1>2, NextPlaces DEF EraseInv, DeletionInv, Marked
<1> QED
    BY <1>1, <1>2

\* Who holds the lock of a marked job keeps it until it goes on.
LEMMA LockHeldStays ==
    ASSUME EraseInv, [Next]_vars, NEW j \in Jobs, status[j] \in Marked,
           NEW w \in Workers, pc[w] = "indexing", work[w].job = j
    PROVE  \/ pc'[w] = "indexing" /\ work'[w].job = j /\ ~RunStep(w)
           \/ LockFree(j)'
<1>1. Rests(w) \/ Nears(w)
    BY NextPlaces DEF EraseInv, DeletionInv
<1>2. CASE Rests(w) /\ ~RunStep(w)
    BY <1>2 DEF Rests
<1>3. CASE Nears(w)
    <2>1. pc'[w] # "indexing"
        BY <1>3 DEF Nears, PlaceRank
    <2> SUFFICES ASSUME NEW v \in Workers, pc'[v] = "indexing", work'[v].job = j
                 PROVE  FALSE
        BY DEF LockFree
    <2>2. v # w
        BY <2>1
    <2>3. CASE Rests(v)
        BY <2>2, <2>3 DEF Rests, EraseInv, OneIndexes
    <2>4. CASE ~Rests(v)
        BY <2>4, NextPlaces DEF EraseInv, DeletionInv, Marked
    <2> QED
        BY <2>3, <2>4
<1>4. CASE RunStep(w)
    BY <1>3, <1>4, OwnStepNears DEF EraseInv, DeletionInv
<1> QED
    BY <1>1, <1>2, <1>3, <1>4

\* So the lock of a marked job comes free.
LEMMA LockComesFree ==
    ASSUME NEW j \in Jobs
    PROVE  Steady => [](status[j] \in Marked => <>LockFree(j))
<1> DEFINE M == status[j] \in Marked  L == LockFree(j)
<1>1. EraseInv /\ [Next]_vars /\ M => M'
    BY MarkedStays, DeletionAssumption
<1>2. ASSUME NEW w \in Workers
      PROVE  Steady /\ Attended(w) => (M /\ pc[w] = "indexing" /\ work[w].job = j => Unlocks(j))
    <2> DEFINE I == pc[w] = "indexing" /\ work[w].job = j  D == RunDue(w)
    <2>1. EraseInv /\ [Next]_vars /\ M /\ I => I' \/ L'
        BY LockHeldStays
    <2>2. EraseInv /\ [Next]_vars /\ M /\ I /\ <<RunStep(w)>>_vars => L'
        BY LockHeldStays
    <2>3. I => D
        BY DEF RunDue, Running, Executing
    <2>4. Attended(w) => (<>[]D => []<><<RunStep(w)>>_vars)
        BY DEF Attended
    <2> HIDE DEF I, M, L, D
    <2>5. Steady /\ Attended(w) => (M /\ I => <>L)
        BY <1>1, <2>1, <2>2, <2>3, <2>4, PTL DEF Steady
    <2> QED
        BY <2>5, PTL DEF I, M, L, Unlocks
<1>3. Steady => WorkersAttended
    BY PTL DEF Steady
<1>4. Steady => (M /\ (\E w \in Workers : pc[w] = "indexing" /\ work[w].job = j) => Unlocks(j))
    BY <1>2, <1>3 DEF WorkersAttended
<1>5. L \/ \E w \in Workers : pc[w] = "indexing" /\ work[w].job = j
    BY DEF LockFree
<1> HIDE DEF M, L
<1> QED
    BY <1>4, <1>5, PTL DEF Steady, Unlocks, M, L

\* A worker is less than n places from its loop.
Near(w, n) == PlaceRank(pc[w]) < n
Comes(w, n) == <>Near(w, n)

\* From less than n places away it comes to less than m.
ComesTo(w, n, m) == [](Near(w, n) => <>Near(w, m))

\* A worker at a place of rank n goes nearer or rests, and something of its own
\* is due, if not a pass that waits for the lock.
LEMMA PlaceSteps ==
    ASSUME EraseInv, [Next]_vars, NEW w \in Workers,
           NEW n \in Nat, NEW m \in Nat \ {0}, n = m + 1,
           Near(w, n), ~Near(w, m)
    PROVE  /\ \/ Rests(w) /\ Near(w, n)' /\ ~Near(w, m)' /\ ~RunStep(w) /\ ~PassStep(w)
              \/ Near(w, m)'
           /\ RunDue(w) \/ (pc[w] \in Passing /\ work[w].job \in Jobs)
<1>1. TypeOK /\ pc[w] \in Places /\ pc'[w] \in Places \cup {pc'[w]}
    BY WorkFacts DEF EraseInv, DeletionInv
<1>2. PlaceRank(pc[w]) = m
    <2>1. PlaceRank(pc[w]) \in 0 .. 7
        BY <1>1, PlaceRanks
    <2> QED
        BY <2>1 DEF Near
<1>3. pc[w] # "idle" /\ work[w].job \in Jobs
    BY <1>1, <1>2, PlaceRanks, WorkFacts
<1>4. RunStep(w) \/ PassStep(w) => Nears(w)
    BY <1>1, OwnStepNears
<1>5. Rests(w) \/ Nears(w)
    BY <1>1, <1>3, NextPlaces
<1>6. Nears(w) => Near(w, m)'
    BY <1>2 DEF Nears, Near
<1>7. Rests(w) => Near(w, n)' /\ ~Near(w, m)'
    BY DEF Rests, Near
<1>8. RunDue(w) \/ pc[w] \in Passing
    BY <1>1, <1>3, PlaceFacts DEF RunDue
<1> QED
    BY <1>3, <1>4, <1>5, <1>6, <1>7, <1>8

\* A pass that waits for the lock gets it in the end, the others just go on.
LEMMA ComesNearer ==
    ASSUME NEW w \in Workers, NEW n \in Nat, NEW m \in Nat \ {0}, n = m + 1
    PROVE  Steady => ComesTo(w, n, m)
<1> DEFINE P == Near(w, n)  Q == Near(w, m)  R == RunDue(w)  S == PassDue(w)
<1>1. EraseInv /\ [Next]_vars /\ P /\ ~Q => P' \/ Q'
    BY PlaceSteps
<1>2. EraseInv /\ P /\ ~Q /\ <<RunStep(w)>>_vars /\ [Next]_vars => Q'
    BY PlaceSteps
<1>3. EraseInv /\ P /\ ~Q /\ <<PassStep(w)>>_vars /\ [Next]_vars => Q'
    BY PlaceSteps
<1>4. Attended(w) => /\ <>[]R => []<><<RunStep(w)>>_vars
                     /\ <>[]S => []<><<PassStep(w)>>_vars
    BY DEF Attended
<1>5. ASSUME NEW j \in Jobs
      PROVE  Steady /\ Attended(w)
               => (P /\ ~Q /\ pc[w] \in Passing /\ work[w].job = j => Comes(w, m))
    <2> DEFINE J == pc[w] \in Passing /\ work[w].job = j
               M == status[j] \in Marked  L == LockFree(j)
    <2>1. EraseInv /\ [Next]_vars /\ P /\ ~Q /\ J => J' \/ Q'
        BY PlaceSteps DEF Rests
    <2>2. EraseInv /\ J => M
        BY DEF EraseInv, DeletionInv, WorkerSound
    <2>3. EraseInv /\ [Next]_vars /\ M /\ L => L'
        BY LockStays
    <2>4. J /\ L => S
        BY DEF PassDue
    <2>5. Steady => [](M => <>L)
        BY LockComesFree
    <2> HIDE DEF P, Q, R, S, J, M, L
    <2>6. Steady /\ Attended(w) => (P /\ ~Q /\ J => <>Q)
        BY <1>1, <1>3, <1>4, <2>1, <2>2, <2>3, <2>4, <2>5, PTL DEF Steady
    <2> QED
        BY <2>6, PTL DEF P, Q, J, Comes
<1>6. Steady => Attended(w)
    <2>1. Steady => WorkersAttended
        BY PTL DEF Steady
    <2> QED
        BY <2>1 DEF WorkersAttended
<1> DEFINE K == pc[w] \in Passing /\ work[w].job \in Jobs
<1>7. Steady => (P /\ ~Q /\ K => Comes(w, m))
    BY <1>5, <1>6
<1>8. EraseInv /\ P /\ ~Q /\ [Next]_vars => R \/ K
    BY PlaceSteps
<1> HIDE DEF P, Q, R, S, K
<1>9. Steady => (P => <>Q)
    BY <1>1, <1>2, <1>4, <1>6, <1>7, <1>8, PTL DEF Steady, Comes, Q
<1> QED
    BY <1>9, PTL DEF Steady, P, Q, ComesTo

GetsIdle(w) == []<>(pc[w] = "idle")

\* Whatever it is at, a worker comes back to its loop.
LEMMA IdleAgain ==
    ASSUME NEW w \in Workers
    PROVE  Steady => GetsIdle(w)
<1>1. Steady => ComesTo(w, 8, 7)
    BY ComesNearer
<1>2. Steady => ComesTo(w, 7, 6)
    BY ComesNearer
<1>3. Steady => ComesTo(w, 6, 5)
    BY ComesNearer
<1>4. Steady => ComesTo(w, 5, 4)
    BY ComesNearer
<1>5. Steady => ComesTo(w, 4, 3)
    BY ComesNearer
<1>6. Steady => ComesTo(w, 3, 2)
    BY ComesNearer
<1>7. Steady => ComesTo(w, 2, 1)
    BY ComesNearer
<1>8. EraseInv => Near(w, 8) /\ (Near(w, 1) => pc[w] = "idle")
    <2> SUFFICES ASSUME EraseInv PROVE Near(w, 8) /\ (Near(w, 1) => pc[w] = "idle")
        OBVIOUS
    <2>1. pc[w] \in Places
        BY WorkFacts DEF EraseInv, DeletionInv
    <2> QED
        BY <2>1, PlaceRanks DEF Near
<1> QED
    BY <1>1, <1>2, <1>3, <1>4, <1>5, <1>6, <1>7, <1>8, PTL DEF Steady, ComesTo, GetsIdle

----------------------------------------------------------------------------
(* How far a cleanup is from its end *)

\* Where the pass that owns the deletion of j is; "idle" is nowhere.
PassPlace(j) == IF PassAlive(j) THEN pc[deletion[j].token] ELSE "idle"

\* How far a cleanup d, with its pass at p, is from its end, once nothing fails any
\* more.  While the execution may still run a pass only waits for it.
PassLeft(p) ==
    CASE p = "idle" -> 14 [] p = "error" -> 12 [] p = "wait" -> 9 [] p = "vector" -> 6
      [] p = "scratch" -> 5 [] p = "media" -> 4 [] p = "unlink" -> 3
      [] p = "messages" -> 2 [] p = "tombstone" -> 1

PendingLeft(d) ==
    IF NextCame(d) THEN IF d.wait /\ ~d.stopped THEN 10 ELSE 7
    ELSE IF d.next = "future" THEN 11 ELSE 8

CleanupLeft(d, p) ==
    IF d.state = "pending" THEN PendingLeft(d)
    ELSE IF d.held THEN PassLeft(p) ELSE 13

CleanupRank(d, p) ==
    (IF d.wait THEN 60 ELSE 0) + (IF d.stopped THEN 0 ELSE 30)
      + 2 * CleanupLeft(d, p) + (IF d.next = "future" THEN 1 ELSE 0)

\* Who goes on with it: a date, a worker that takes it up, or the pass.
Awaits(d, p) ==
    IF Due(d) THEN "worker"
    ELSE IF d.state = "working" /\ p # "idle" THEN "pass" ELSE "date"

PassPlaces == Passing \cup {"idle"}

\* The ranks are numbers below 120.
LEMMA LeftRange ==
    ASSUME NEW d \in Cleanup, NEW p \in PassPlaces
    PROVE  CleanupLeft(d, p) \in 1 .. 14 /\ CleanupRank(d, p) \in 0 .. 119
<1>1. PassLeft(p) \in 1 .. 14
    BY DEF PassPlaces, Passing, Erasing, PassLeft
<1>2. PendingLeft(d) \in 1 .. 14
    BY DEF PendingLeft
<1>3. CleanupLeft(d, p) \in 1 .. 14
    BY <1>1, <1>2 DEF CleanupLeft
<1> QED
    BY <1>3 DEF CleanupRank

\* A date, or the end of the execution, outweighs what it makes of the rest.
LEMMA EventLowers ==
    ASSUME NEW d \in Cleanup, NEW p \in PassPlaces, NEW e \in Cleanup, NEW q \in PassPlaces,
           \/ d.wait /\ ~e.wait
           \/ d.wait = e.wait /\ ~d.stopped /\ e.stopped,
           d.stopped => e.stopped
    PROVE  CleanupRank(e, q) < CleanupRank(d, p)
<1>1. CleanupLeft(d, p) \in 1 .. 14 /\ CleanupLeft(e, q) \in 1 .. 14
    BY LeftRange
<1> QED
    BY <1>1 DEF CleanupRank

\* The rest is ordered by what is left.
LEMMA LessLowers ==
    ASSUME NEW d \in Cleanup, NEW p \in PassPlaces, NEW e \in Cleanup, NEW q \in PassPlaces,
           d.wait = e.wait, d.stopped = e.stopped,
           \/ CleanupLeft(e, q) < CleanupLeft(d, p)
           \/ /\ CleanupLeft(e, q) = CleanupLeft(d, p)
              /\ d.next = "future" /\ e.next # "future"
    PROVE  CleanupRank(e, q) < CleanupRank(d, p)
<1>1. CleanupLeft(d, p) \in 1 .. 14 /\ CleanupLeft(e, q) \in 1 .. 14
    BY LeftRange
<1> QED
    BY <1>1 DEF CleanupRank

Underway(j) == status[j] = "deleting" /\ deletion[j].state # "failed"
Over(j)     == status[j] = "deleted" \/ deletion[j].state = "failed"

Falls(j) ==
    Underway(j)' /\ CleanupRank(deletion'[j], PassPlace(j)') < CleanupRank(deletion[j], PassPlace(j))
Keeps(j) ==
    /\ Underway(j)'
    /\ CleanupRank(deletion'[j], PassPlace(j)') = CleanupRank(deletion[j], PassPlace(j))
    /\ Awaits(deletion'[j], PassPlace(j)') = Awaits(deletion[j], PassPlace(j))
    /\ deletion'[j].token = deletion[j].token

\* What the invariant says of a cleanup and its pass.
LEMMA PassFacts ==
    ASSUME EraseInv, NEW j \in Jobs
    PROVE  /\ deletion[j] \in Cleanup
           /\ PassPlace(j) \in PassPlaces
           /\ Underway(j) => deletion[j].state \in {"pending", "working"}
           /\ deletion[j].state = "pending" => deletion[j].token = NoWorker /\ ~deletion[j].held
           /\ deletion[j].token # NoWorker => deletion[j].token \in Workers
           /\ PassAlive(j) => deletion[j].state = "working"
    BY DEF EraseInv, DeletionInv, TypeOK, PassPlace, PassPlaces, PassAlive, Passing,
           RecordSound, Underway, Cleanup

\* The pass is where it was, if its worker rests or was elsewhere.
LEMMA PlaceKept ==
    ASSUME EraseInv, NEW j \in Jobs, deletion'[j].token = deletion[j].token,
           LET t == deletion[j].token
           IN  t = NoWorker \/ Rests(t)
                 \/ (~PassAlive(j) /\ (pc'[t] \notin Passing \/ work'[t].job # j))
    PROVE  PassPlace(j)' = PassPlace(j)
    BY DEF PassPlace, PassAlive, Rests, Passing

\* A job that no step touched is where it was.
LEMMA Untouched ==
    ASSUME NEW j \in Jobs, Underway(j), deletion'[j] = deletion[j], status'[j] = status[j],
           PassPlace(j)' = PassPlace(j)
    PROVE  Keeps(j)
    BY DEF Keeps, Underway

\* A pass that is not of j, and an execution, leave j where it was.
LEMMA OtherWorker ==
    ASSUME EraseInv, NEW j \in Jobs, Underway(j), NEW v \in Workers,
           pc[v] # "idle", Nears(v), \A u \in Workers \ {v} : Rests(u),
           pc[v] \notin Passing \/ work[v].job # j \/ deletion[j].token # v,
           pc[v] \in Running => pc'[v] \notin Passing,
           deletion'[j] = deletion[j], status'[j] = status[j]
    PROVE  Keeps(j)
<1> DEFINE t == deletion[j].token
<1>1. CASE t # v
    <2>1. t = NoWorker \/ Rests(t)
        BY <1>1, PassFacts
    <2> QED
        BY <2>1, PlaceKept, Untouched
<1>2. CASE t = v
    <2>1. ~PassAlive(j)
        BY <1>2 DEF PassAlive, Passing
    <2>2. pc'[v] \notin Passing \/ work'[v].job # j
        BY <1>2, WorkFacts, PlaceFacts DEF Nears, EraseInv, DeletionInv
    <2> QED
        BY <1>2, <2>1, <2>2, PlaceKept, Untouched
<1> QED
    BY <1>1, <1>2

\* The same cleanup with a date that has come or a worker that has stopped.
LEMMA StoppedLowers ==
    ASSUME NEW d \in Cleanup, NEW p \in PassPlaces, NEW e \in Cleanup,
           e = [d EXCEPT !.stopped = TRUE, !.next = "past"], d.state \in {"pending", "working"}
    PROVE  \/ CleanupRank(e, p) < CleanupRank(d, p)
           \/ /\ CleanupRank(e, p) = CleanupRank(d, p)
              /\ Awaits(e, p) = Awaits(d, p)
<1>1. /\ e.stopped /\ e.next = "past" /\ e.wait = d.wait /\ e.state = d.state
      /\ e.held = d.held /\ e.token = d.token
    BY DEF Cleanup
<1>2. CASE ~d.stopped
    BY <1>1, <1>2, EventLowers
<1>3. CASE d.stopped /\ d.state = "working"
    <2>1. CleanupLeft(e, p) = CleanupLeft(d, p) /\ Awaits(e, p) = Awaits(d, p)
        BY <1>1, <1>3 DEF CleanupLeft, Awaits, Due
    <2> QED
        BY <1>1, <1>3, <2>1, LessLowers, ZenonT(60) DEF CleanupRank
<1>4. CASE d.stopped /\ d.state = "pending"
    <2>1. NextCame(e) /\ CleanupLeft(e, p) = 7 /\ Awaits(e, p) = "worker"
        BY <1>1, <1>4 DEF CleanupLeft, PendingLeft, NextCame, Awaits, Due
    <2>2. CASE NextCame(d)
        <3>1. CleanupLeft(d, p) = 7 /\ Awaits(d, p) = "worker" /\ d.next # "future"
            BY <1>4, <2>2 DEF CleanupLeft, PendingLeft, NextCame, Awaits, Due
        <3> QED
            BY <1>1, <1>4, <2>1, <3>1 DEF CleanupRank
    <2>3. CASE ~NextCame(d)
        <3>1. CleanupLeft(d, p) \in {8, 11}
            BY <1>4, <2>3 DEF CleanupLeft, PendingLeft
        <3>2. e.stopped = d.stopped
            BY <1>1, <1>4 DEF Cleanup
        <3>3. CleanupLeft(e, p) < CleanupLeft(d, p)
            BY <2>1, <3>1
        <3> QED
            BY <1>1, <3>2, <3>3, LessLowers
    <2> QED
        BY <2>2, <2>3
<1> QED
    BY <1>2, <1>3, <1>4

\* An execution leaves the cleanup of a job where it was, or ends its wait.
LEMMA RunStepKeeps ==
    ASSUME EraseInv, EraseInv', NEW j \in Jobs, Underway(j), NEW v \in Workers, RunStep(v)
    PROVE  Keeps(j) \/ Falls(j)
<1>1. /\ Nears(v) /\ \A u \in Workers \ {v} : Rests(u)
      /\ pc[v] \in Running /\ pc'[v] \notin Passing
    <2>1. Nears(v) /\ \A u \in Workers \ {v} : Rests(u)
        BY OwnStepNears DEF EraseInv, DeletionInv
    <2>2. pc[v] \in Running
        BY DEF RunStep, Fetch, EnterIndex, WriteIndex, Complete, FailRun, RemoveScratch,
               Acknowledge, Running, Executing
    <2>3. pc'[v] \in {"fetched", "indexing", "stored", "leaving", "acking", "idle"}
        BY DEF RunStep, Fetch, EnterIndex, WriteIndex, Complete, FailRun, RemoveScratch,
               Acknowledge, Goto, Loop, EraseInv, DeletionInv, TypeOK
    <2> QED
        BY <2>1, <2>2, <2>3 DEF Passing, Erasing
<1>2. pc[v] # "idle" /\ pc[v] \notin Passing
    BY <1>1, PlaceFacts
<1>3. work[v].job \in Jobs
    BY <1>2, WorkFacts DEF EraseInv, DeletionInv
<1>4. status'[j] = status[j]
    BY <1>3 DEF RunStep, Fetch, EnterIndex, WriteIndex, Complete, FailRun, RemoveScratch,
           Acknowledge, Owned, Underway, jobVars, EraseInv, DeletionInv, TypeOK
<1>5. CASE deletion'[j] = deletion[j]
    BY <1>1, <1>2, <1>4, <1>5, OtherWorker
<1>6. CASE deletion'[j] # deletion[j]
    <2> DEFINE e == [deletion[j] EXCEPT !.stopped = TRUE, !.next = "past"]
    <2>1. deletion'[j] = e
        <3>1. Acknowledge(v)
            BY <1>6 DEF RunStep, Fetch, EnterIndex, WriteIndex, Complete, FailRun, RemoveScratch
        <3>2. /\ deletion' = [deletion EXCEPT ![work[v].job].stopped = TRUE,
                                            ![work[v].job].next = "past"]
              /\ deletion \in [Jobs -> Cleanup]
            BY <1>6, <3>1 DEF Acknowledge, EraseInv, DeletionInv, TypeOK
        <3>3. work[v].job = j
            BY <1>3, <1>6, <3>2
        <3> QED
            BY <3>2, <3>3
    <2>2. /\ e \in Cleanup /\ e.token = deletion[j].token /\ e.state = deletion[j].state
          /\ deletion[j] \in Cleanup
        BY PassFacts DEF Cleanup
    <2> HIDE DEF e
    <2>3. PassPlace(j)' = PassPlace(j)
        <3>1. deletion[j].token = v => ~PassAlive(j)
            BY <1>2 DEF PassAlive, Passing
        <3> QED
            BY <1>1, <2>1, <2>2, <3>1, PassFacts, PlaceKept
    <2>4. Underway(j)'
        BY <1>4, <2>1, <2>2 DEF Underway
    <2>5. \/ CleanupRank(e, PassPlace(j)) < CleanupRank(deletion[j], PassPlace(j))
          \/ /\ CleanupRank(e, PassPlace(j)) = CleanupRank(deletion[j], PassPlace(j))
             /\ Awaits(e, PassPlace(j)) = Awaits(deletion[j], PassPlace(j))
        BY <2>2, PassFacts, StoppedLowers DEF e
    <2> QED
        BY <2>1, <2>2, <2>3, <2>4, <2>5 DEF Keeps, Falls
<1> QED
    BY <1>5, <1>6

\* A pass of another job, or one that lost this job, leaves it where it was.
LEMMA StrangePassKeeps ==
    ASSUME EraseInv, NEW j \in Jobs, Underway(j), NEW v \in Workers, PassStep(v),
           work[v].job # j \/ deletion[j].token # v
    PROVE  Keeps(j)
<1>1. /\ Nears(v) /\ \A u \in Workers \ {v} : Rests(u)
      /\ pc[v] \in Passing
    BY OwnStepNears DEF EraseInv, DeletionInv, PassStep, Wait, EraseIndex, EraseScratch,
       CheckMedia, EraseMedia, EraseMessages, Tombstone, RecordError, Passing, Erasing
<1>2. pc[v] # "idle" /\ pc[v] \notin Running
    BY <1>1, PlaceFacts
<1>3. work[v].job \in Jobs
    BY <1>2, WorkFacts DEF EraseInv, DeletionInv
<1>4. status'[j] = status[j] /\ deletion'[j] = deletion[j]
    BY <1>3 DEF PassStep, Wait, EraseIndex, EraseScratch, CheckMedia, EraseMedia,
           EraseMessages, Tombstone, RecordError, Bury, OwnsPass, jobVars,
           EraseInv, DeletionInv, TypeOK
<1> QED
    BY <1>1, <1>2, <1>4, OtherWorker

\* The pass of j brings it on, or ends it; one without a lease may leave it due.
LEMMA OwnPassLowers ==
    ASSUME EraseInv, EraseInv', NEW j \in Jobs, Underway(j), NEW v \in Workers, PassStep(v),
           work[v].job = j, deletion[j].token = v
    PROVE  \/ Falls(j) \/ Over(j)'
           \/ Keeps(j) /\ ~deletion[j].held
<1> DEFINE d == deletion[j]
<1>1. /\ d \in Cleanup /\ d.state = "working" /\ v # NoWorker
      /\ pc[v] \in Passing /\ PassPlace(j) = pc[v] /\ PassPlace(j) \in PassPlaces
    <2>1. pc[v] \in Passing
        BY DEF PassStep, Wait, EraseIndex, EraseScratch, CheckMedia, EraseMedia,
           EraseMessages, Tombstone, RecordError, Passing, Erasing
    <2>2. v # NoWorker
        BY DeletionAssumption
    <2>3. PassAlive(j)
        BY <2>1, <2>2 DEF PassAlive, Passing
    <2> QED
        BY <2>1, <2>2, <2>3, PassFacts DEF PassPlace
<1>2. CASE \/ EraseIndex(v) \/ EraseScratch(v) \/ CheckMedia(v) \/ EraseMedia(v)
           \/ EraseMessages(v)
    <2>1. /\ deletion' = deletion /\ status' = status /\ work' = work
          /\ pc'[v] \in Erasing /\ pc[v] \in Erasing /\ PassLeft(pc'[v]) < PassLeft(pc[v])
        BY <1>2 DEF EraseIndex, EraseScratch, CheckMedia, EraseMedia, EraseMessages, Goto,
           jobVars, EraseInv, DeletionInv, TypeOK, Erasing, PassLeft
    <2>2. PassPlace(j)' = pc'[v] /\ pc'[v] \in PassPlaces
        BY <1>1, <2>1 DEF PassPlace, PassAlive, PassPlaces, Passing
    <2>3. Underway(j)' /\ deletion'[j] = d
        BY <2>1 DEF Underway
    <2>4. CASE d.held
        <3>1. CleanupLeft(d, pc'[v]) < CleanupLeft(d, pc[v])
            BY <1>1, <2>1, <2>4 DEF CleanupLeft
        <3>2. CleanupRank(d, pc'[v]) < CleanupRank(d, pc[v])
            BY <1>1, <2>2, <3>1, LessLowers
        <3> QED
            BY <1>1, <2>2, <2>3, <3>2 DEF Falls
    <2>5. CASE ~d.held
        <3>1. CleanupLeft(d, pc'[v]) = CleanupLeft(d, pc[v])
            BY <1>1, <2>5 DEF CleanupLeft
        <3>2. CleanupRank(d, pc'[v]) = CleanupRank(d, pc[v])
            BY <3>1 DEF CleanupRank
        <3>3. Awaits(d, pc'[v]) = Awaits(d, pc[v])
            BY <1>1, <2>5 DEF Awaits, Due
        <3> QED
            BY <1>1, <2>2, <2>3, <2>5, <3>2, <3>3 DEF Keeps
    <2> QED
        BY <2>4, <2>5
<1>3. CASE Tombstone(v)
    <2>1. OwnsPass(v)
        BY DEF OwnsPass, Underway
    <2> QED
        BY <1>3, <2>1 DEF Tombstone, Bury, Over, EraseInv, DeletionInv, TypeOK
<1>4. ASSUME NEW state \in {"pending", "failed"}, NEW next \in {"wait", "future"},
             deletion' = [deletion EXCEPT ![j] = Released(@, state, next)], status' = status,
             next = "wait" => pc[v] = "wait", next = "future" => pc[v] = "error"
      PROVE  Falls(j) \/ Over(j)'
    <2> DEFINE e == Released(d, state, next)
    <2>1. deletion'[j] = e
        BY <1>4 DEF EraseInv, DeletionInv, TypeOK
    <2>2. /\ e \in Cleanup /\ e.state = state /\ e.next = next /\ e.token = NoWorker
          /\ e.wait = d.wait /\ e.stopped = d.stopped
        BY <1>1 DEF Released, Cleanup
    <2> HIDE DEF e
    <2>3. CASE state = "failed"
        BY <2>1, <2>2, <2>3 DEF Over
    <2>4. CASE state = "pending"
        <3>1. PassPlace(j)' = "idle" /\ "idle" \in PassPlaces
            BY <2>1, <2>2 DEF PassPlace, PassAlive, PassPlaces
        <3>2. Underway(j)'
            BY <1>4, <2>1, <2>2, <2>4 DEF Underway
        <3>3. CleanupLeft(d, pc[v]) \in {IF next = "wait" THEN 9 ELSE 12, 13}
            BY <1>1, <1>4 DEF CleanupLeft, PassLeft
        <3>4. CleanupLeft(e, "idle") = IF next = "future" THEN 11 ELSE IF e.wait THEN 8 ELSE 7
            BY <2>2, <2>4 DEF CleanupLeft, PendingLeft, NextCame
        <3>5. CleanupLeft(e, "idle") < CleanupLeft(d, pc[v])
            BY <3>3, <3>4
        <3>6. CleanupRank(e, "idle") < CleanupRank(d, pc[v])
            BY <1>1, <2>2, <3>1, <3>5, LessLowers
        <3> QED
            BY <1>1, <2>1, <3>1, <3>2, <3>6 DEF Falls
    <2> QED
        BY <2>3, <2>4
<1>5. CASE Wait(v) \/ RecordError(v)
    <2>1. OwnsPass(v) /\ status' = status
        BY <1>5 DEF OwnsPass, Underway, Wait, RecordError, jobVars
    <2>2. CASE Wait(v)
        BY <1>4, <2>1, <2>2 DEF Wait
    <2>3. CASE RecordError(v)
        BY <1>4, <2>1, <2>3 DEF RecordError
    <2> QED
        BY <1>5, <2>2, <2>3
<1> QED
    BY <1>2, <1>3, <1>5 DEF PassStep

\* A pass that begins.
LEMMA TakenUpLowers ==
    ASSUME EraseInv, NEW j \in Jobs, Underway(j), NEW v \in Workers, TakeUp(v, j)
    PROVE  Falls(j)
<1> DEFINE d == deletion[j]
           tries == OneMore(d.attempts)
           e == [d EXCEPT !.state = "working", !.token = v, !.held = TRUE, !.attempts = tries]
           p == PassPlace(j)
           q == IF d.wait /\ ~d.stopped THEN "wait" ELSE "vector"
<1>1. d \in Cleanup /\ p \in PassPlaces /\ tries \in 0 .. MaxCleanups + 1
    <2>1. d \in Cleanup /\ p \in PassPlaces
        BY PassFacts
    <2>2. d.attempts \in 0 .. MaxCleanups + 1
        BY <2>1 DEF Cleanup
    <2> QED
        BY <2>1, <2>2, DeletionAssumption, OneMoreFacts
<1>2. /\ deletion'[j] = e /\ status'[j] = "deleting" /\ Due(d)
      /\ pc'[v] = q /\ work'[v].job = j
    <2>1. TypeOK
        BY DEF EraseInv, DeletionInv
    <2>2. deletion' = [deletion EXCEPT ![j] = e] /\ status' = status
        BY DEF TakeUp, jobVars
    <2>3. pc' = [pc EXCEPT ![v] = q] /\ Due(d)
        BY DEF TakeUp, Goto
    <2>4. work' = [work EXCEPT ![v] = [job |-> j, attempt |-> 0, tries |-> tries]]
        BY DEF TakeUp
    <2> HIDE DEF e, tries, q
    <2> QED
        BY <2>1, <2>2, <2>3, <2>4 DEF TypeOK, Underway
<1>3. /\ e \in Cleanup /\ e.state = "working" /\ e.token = v /\ e.held
      /\ e.wait = d.wait /\ e.stopped = d.stopped /\ e.next = d.next
    BY <1>1 DEF Cleanup
<1> HIDE DEF e, tries
<1>4. PassPlace(j)' = q /\ q \in PassPlaces
    BY <1>2, <1>3, DeletionAssumption DEF PassPlace, PassAlive, PassPlaces, Passing, Erasing
<1>5. Underway(j)'
    BY <1>2, <1>3 DEF Underway
<1>6. CleanupLeft(e, q) = IF d.wait /\ ~d.stopped THEN 9 ELSE 6
    BY <1>3 DEF CleanupLeft, PassLeft
<1>7. CleanupLeft(d, p) \in {IF d.wait /\ ~d.stopped THEN 10 ELSE 7, 13}
    BY <1>2 DEF CleanupLeft, PendingLeft, Due
<1>8. CleanupLeft(e, q) < CleanupLeft(d, p)
    BY <1>6, <1>7
<1>9. CleanupRank(e, q) < CleanupRank(d, p)
    BY <1>1, <1>3, <1>4, <1>8, LessLowers
<1> QED
    BY <1>2, <1>4, <1>5, <1>9 DEF Falls

\* A date that comes.
LEMMA DateLowers ==
    ASSUME EraseInv, NEW j \in Jobs, Underway(j), DateComes(j)
    PROVE  Falls(j)
<1> DEFINE d == deletion[j]  p == PassPlace(j)
<1>1. d \in Cleanup /\ p \in PassPlaces /\ (d.held => d.state = "working")
      /\ d.state \in {"pending", "working"}
    BY PassFacts DEF EraseInv, RecordSound
<1>2. status' = status /\ pc' = pc /\ work' = work
    BY DEF DateComes, jobVars
<1>3. ASSUME NEW e \in Cleanup, deletion' = [deletion EXCEPT ![j] = e],
             e.token = d.token, e.state = d.state, CleanupRank(e, p) < CleanupRank(d, p)
      PROVE  Falls(j)
    <2>1. deletion'[j] = e
        BY <1>3 DEF EraseInv, DeletionInv, TypeOK
    <2>2. PassPlace(j)' = p
        BY <1>2, <1>3, <2>1 DEF PassPlace, PassAlive
    <2>3. Underway(j)'
        BY <1>2, <1>3, <2>1 DEF Underway
    <2> QED
        BY <1>3, <2>1, <2>2, <2>3 DEF Falls
<1>4. CASE d.wait /\ deletion' = [deletion EXCEPT ![j].wait = FALSE]
    <2> DEFINE e == [d EXCEPT !.wait = FALSE]
    <2>1. /\ e \in Cleanup /\ e.token = d.token /\ e.state = d.state /\ ~e.wait
          /\ e.stopped = d.stopped
        BY <1>1 DEF Cleanup
    <2>2. deletion' = [deletion EXCEPT ![j] = e]
        BY <1>4
    <2> HIDE DEF e
    <2>3. CleanupRank(e, p) < CleanupRank(d, p)
        BY <1>1, <1>4, <2>1, EventLowers
    <2> QED
        BY <1>3, <2>1, <2>2, <2>3
<1>5. CASE ~PassAlive(j) /\ LeaseOver(j)
    <2> DEFINE e == [d EXCEPT !.held = FALSE]
    <2>1. /\ e \in Cleanup /\ e.token = d.token /\ e.state = d.state /\ ~e.held
          /\ e.stopped = d.stopped /\ e.wait = d.wait
        BY <1>1 DEF Cleanup
    <2>2. deletion' = [deletion EXCEPT ![j] = e] /\ d.held
        BY <1>5 DEF LeaseOver
    <2> HIDE DEF e
    <2>3. CleanupLeft(e, p) = 13 /\ CleanupLeft(d, p) = 14
        BY <1>1, <1>5, <2>1, <2>2 DEF CleanupLeft, PassPlace, PassLeft
    <2>4. CleanupLeft(e, p) < CleanupLeft(d, p)
        BY <2>3
    <2>5. CleanupRank(e, p) < CleanupRank(d, p)
        BY <1>1, <2>1, <2>4, LessLowers
    <2> QED
        BY <1>3, <2>1, <2>2, <2>5
<1>6. CASE d.next = "future" /\ deletion' = [deletion EXCEPT ![j].next = "past"]
    <2> DEFINE e == [d EXCEPT !.next = "past"]
    <2>1. /\ e \in Cleanup /\ e.token = d.token /\ e.state = d.state /\ e.next = "past"
          /\ e.stopped = d.stopped /\ e.wait = d.wait /\ e.held = d.held
        BY <1>1 DEF Cleanup
    <2>2. deletion' = [deletion EXCEPT ![j] = e]
        BY <1>6
    <2> HIDE DEF e
    <2>3. \/ CleanupLeft(e, p) = CleanupLeft(d, p)
          \/ CleanupLeft(e, p) \in {7, 10} /\ CleanupLeft(d, p) = 11
        BY <1>1, <1>6, <2>1 DEF CleanupLeft, PendingLeft, NextCame
    <2>4. CleanupLeft(e, p) < CleanupLeft(d, p) \/ CleanupLeft(e, p) = CleanupLeft(d, p)
        BY <2>3
    <2>5. CleanupRank(e, p) < CleanupRank(d, p)
        BY <1>1, <1>6, <2>1, <2>4, LessLowers
    <2> QED
        BY <1>3, <2>1, <2>2, <2>5
<1> QED
    BY <1>4, <1>5, <1>6 DEF DateComes

\* What has nothing to do with j.
LEMMA StrangeStepKeeps ==
    ASSUME EraseInv, NEW j \in Jobs, Underway(j),
           \/ \E v \in Workers, i \in Jobs : Claim(v, i) \/ Recover(v, i) \/ CollectScratch(v, i)
           \/ \E v \in Workers, i \in Jobs \ {j} : TakeUp(v, i)
           \/ \E v \in Workers : CollectMedia(v)
           \/ \E i \in Jobs : CancelJob(i) \/ MarkDeleting(i) \/ DeleteAgain(i) \/ LeaseEnds(i)
           \/ \E i \in Jobs \ {j} : DateComes(i)
           \/ UNCHANGED vars
    PROVE  Keeps(j)
<1>1. ASSUME UNCHANGED <<pc, work>>, deletion'[j] = deletion[j], status'[j] = status[j]
      PROVE  Keeps(j)
    <2>1. PassPlace(j)' = PassPlace(j)
        BY <1>1 DEF PassPlace, PassAlive
    <2> QED
        BY <1>1, <2>1, Untouched
<1>2. ASSUME NEW v \in Workers, NEW i \in Jobs, Recover(v, i) \/ CollectScratch(v, i)
      PROVE  Keeps(j)
    <2>1. UNCHANGED <<pc, work>> /\ deletion'[j] = deletion[j] /\ status'[j] = status[j]
        BY <1>2 DEF Recover, CollectScratch, jobVars, Underway, EraseInv, DeletionInv, TypeOK
    <2> QED
        BY <1>1, <2>1
<1>3. ASSUME NEW v \in Workers, CollectMedia(v)
      PROVE  Keeps(j)
    BY <1>1, <1>3 DEF CollectMedia, jobVars
<1>4. ASSUME NEW i \in Jobs, CancelJob(i) \/ MarkDeleting(i) \/ DeleteAgain(i) \/ LeaseEnds(i)
      PROVE  Keeps(j)
    <2>1. UNCHANGED <<pc, work>> /\ deletion'[j] = deletion[j] /\ status'[j] = status[j]
        BY <1>4 DEF CancelJob, MarkDeleting, DeleteAgain, LeaseEnds, jobVars, Underway,
           EraseInv, DeletionInv, TypeOK
    <2> QED
        BY <1>1, <2>1
<1>5. ASSUME NEW i \in Jobs \ {j}, DateComes(i)
      PROVE  Keeps(j)
    <2>1. UNCHANGED <<pc, work>> /\ deletion'[j] = deletion[j] /\ status'[j] = status[j]
        BY <1>5 DEF DateComes, LeaseOver, jobVars, EraseInv, DeletionInv, TypeOK
    <2> QED
        BY <1>1, <2>1
<1>6. CASE UNCHANGED vars
    BY <1>1, <1>6 DEF vars, jobVars
<1>7. ASSUME NEW v \in Workers, NEW i \in Jobs, Claim(v, i) \/ (i # j /\ TakeUp(v, i))
      PROVE  Keeps(j)
    <2>0. TypeOK
        BY DEF EraseInv, DeletionInv
    <2>1. /\ deletion'[j] = deletion[j] /\ status'[j] = status[j]
          /\ pc[v] = "idle" /\ \A u \in Workers \ {v} : Rests(u)
          /\ pc'[v] \notin Passing \/ work'[v].job # j
        <3>1. CASE Claim(v, i)
            <4>1. deletion'[j] = deletion[j] /\ status'[j] = status[j]
                BY <2>0, <3>1 DEF Claim, Underway, TypeOK
            <4>2. pc[v] = "idle" /\ pc'[v] = "run" /\ \A u \in Workers \ {v} : Rests(u)
                BY <2>0, <3>1 DEF Claim, Goto, Rests, TypeOK
            <4> QED
                BY <4>1, <4>2 DEF Passing, Erasing
        <3>2. CASE i # j /\ TakeUp(v, i)
            <4>1. deletion'[j] = deletion[j] /\ status'[j] = status[j]
                BY <2>0, <3>2 DEF TakeUp, jobVars, TypeOK
            <4>2. pc[v] = "idle" /\ \A u \in Workers \ {v} : Rests(u)
                BY <2>0, <3>2 DEF TakeUp, Goto, Rests, TypeOK
            <4>3. work'[v].job = i
                BY <2>0, <3>2 DEF TakeUp, TypeOK
            <4> QED
                BY <3>2, <4>1, <4>2, <4>3
        <3> QED
            BY <1>7, <3>1, <3>2
    <2>2. deletion[j].token = v => ~PassAlive(j)
        BY <2>1, PlaceFacts DEF PassAlive, Erasing
    <2>3. PassPlace(j)' = PassPlace(j)
        BY <2>1, <2>2, PassFacts, PlaceKept
    <2> QED
        BY <2>1, <2>3, Untouched
<1> QED
    BY <1>2, <1>3, <1>4, <1>5, <1>6, <1>7

\* A step without a fault never takes a cleanup back.
LEMMA CleanupNext ==
    ASSUME EraseInv, EraseInv', [Next]_vars, faults' = faults, NEW j \in Jobs, Underway(j)
    PROVE  Falls(j) \/ Keeps(j) \/ Over(j)'
<1>1. ASSUME NEW v \in Workers, PassStep(v) PROVE Falls(j) \/ Keeps(j) \/ Over(j)'
    BY <1>1, StrangePassKeeps, OwnPassLowers
<1>2. ASSUME NEW v \in Workers, RunStep(v) PROVE Falls(j) \/ Keeps(j)
    BY <1>2, RunStepKeeps
<1>3. ASSUME NEW v \in Workers, NEW i \in Jobs, TakeUp(v, i) PROVE Falls(j) \/ Keeps(j)
    BY <1>3, TakenUpLowers, StrangeStepKeeps
<1>4. ASSUME NEW i \in Jobs, DateComes(i) PROVE Falls(j) \/ Keeps(j)
    BY <1>4, DateLowers, StrangeStepKeeps
<1>5. faults \in Nat
    BY DeletionAssumption DEF EraseInv, DeletionInv, TypeOK
<1>6. ~Fault
    BY <1>5 DEF Fault
<1>7. ASSUME NEW v \in Workers PROVE ~(StepFails(v) \/ TombstoneUnknown(v) \/ Crash(v))
    BY <1>6 DEF StepFails, TombstoneUnknown, Crash
<1>8. ASSUME NEW i \in Jobs PROVE ~PassTooSlow(i)
    BY <1>6 DEF PassTooSlow
<1> QED
    BY <1>1, <1>2, <1>3, <1>4, <1>7, <1>8, StrangeStepKeeps DEF Next

----------------------------------------------------------------------------
(* What a cleanup waits for comes *)

\* What makes DateComes and TakeUp possible, and that what stays so, or comes back
\* again and again, is done.
DateDue(j) ==
    LET d == deletion[j]
    IN  d.wait \/ d.next = "future" \/ (d.held /\ ~PassAlive(j))
TakeUpDue(j) ==
    (\E w \in Workers : pc[w] = "idle") /\ status[j] = "deleting" /\ Due(deletion[j])

Called(j) ==
    /\ <>[]DateDue(j) => []<><<DateComes(j)>>_vars
    /\ []<>TakeUpDue(j) => []<><<\E w \in Workers : TakeUp(w, j)>>_vars

JobsCalled == \A j \in Jobs : Called(j)

\* From when on nothing fails.
Calm == Steady /\ [][faults' = faults]_vars

Below(j, n) == Underway(j) /\ CleanupRank(deletion[j], PassPlace(j)) < n
Drops(j, n, m) == Below(j, n + m) ~> (Over(j) \/ Below(j, n))
Lowers(j, n) == <>(Over(j) \/ Below(j, n))

AwaitedAt(j, n, c) ==
    /\ Underway(j)
    /\ CleanupRank(deletion[j], PassPlace(j)) = n
    /\ Awaits(deletion[j], PassPlace(j)) = c

\* What a cleanup waits for stays the same until it comes.
LEMMA AwaitedStays ==
    ASSUME EraseInv, EraseInv', [Next]_vars, [faults' = faults]_vars,
           NEW j \in Jobs, NEW n \in Nat, NEW c, AwaitedAt(j, n, c)
    PROVE  \/ AwaitedAt(j, n, c)' /\ deletion'[j].token = deletion[j].token
           \/ Over(j)' \/ Below(j, n)'
<1>1. faults' = faults
    BY DEF vars
<1>2. Falls(j) \/ Keeps(j) \/ Over(j)'
    BY <1>1, CleanupNext DEF AwaitedAt
<1> QED
    BY <1>2 DEF Falls, Keeps, AwaitedAt, Below

\* What a cleanup waits for is due.
LEMMA AwaitedDue ==
    ASSUME EraseInv, NEW j \in Jobs, NEW n \in Nat
    PROVE  /\ AwaitedAt(j, n, "date") => DateDue(j)
           /\ AwaitedAt(j, n, "worker") => status[j] = "deleting" /\ Due(deletion[j])
           /\ AwaitedAt(j, n, "pass") =>
                LET w == deletion[j].token
                IN  /\ w \in Workers /\ pc[w] \in Passing /\ work[w].job = j
                    /\ deletion[j].held /\ status[j] \in Marked
           /\ Underway(j) /\ CleanupRank(deletion[j], PassPlace(j)) = n =>
                \E c \in {"date", "worker", "pass"} : AwaitedAt(j, n, c)
<1> DEFINE d == deletion[j]
<1>1. Underway(j) => d.state \in {"pending", "working"}
    BY PassFacts
<1>2. PassPlace(j) # "idle" <=> PassAlive(j)
    BY DEF PassPlace, PassAlive, Erasing
<1>3. AwaitedAt(j, n, "date") => DateDue(j)
    <2> SUFFICES ASSUME AwaitedAt(j, n, "date") PROVE DateDue(j)
        OBVIOUS
    <2>1. ~Due(d) /\ (d.state = "working" => ~PassAlive(j))
        BY <1>2 DEF AwaitedAt, Awaits
    <2>2. CASE d.state = "pending"
        <3>1. d.next \in {"past", "future", "wait"}
            BY PassFacts DEF Cleanup
        <3> QED
            BY <2>1, <2>2, <3>1 DEF Due, NextCame, DateDue
    <2>3. CASE d.state = "working"
        BY <2>1, <2>3 DEF Due, DateDue
    <2> QED
        BY <1>1, <2>2, <2>3 DEF AwaitedAt
<1>4. AwaitedAt(j, n, "worker") => status[j] = "deleting" /\ Due(d)
    BY DEF AwaitedAt, Awaits, Underway
<1>5. AwaitedAt(j, n, "pass") =>
        LET w == d.token
        IN  /\ w \in Workers /\ pc[w] \in Passing /\ work[w].job = j
            /\ d.held /\ status[j] \in Marked
    <2> SUFFICES ASSUME AwaitedAt(j, n, "pass")
                 PROVE  LET w == d.token
                        IN  /\ w \in Workers /\ pc[w] \in Passing /\ work[w].job = j
                            /\ d.held /\ status[j] \in Marked
        OBVIOUS
    <2>1. ~Due(d) /\ d.state = "working" /\ PassAlive(j)
        BY <1>2 DEF AwaitedAt, Awaits
    <2>2. d.token \in Workers /\ pc[d.token] \in Passing /\ work[d.token].job = j
        BY <2>1, PassFacts DEF PassAlive, Passing
    <2> QED
        BY <2>1, <2>2 DEF AwaitedAt, Underway, Due, Marked
<1>6. Awaits(d, PassPlace(j)) \in {"date", "worker", "pass"}
    BY DEF Awaits
<1> QED
    BY <1>3, <1>4, <1>5, <1>6 DEF AwaitedAt

\* When it comes, the cleanup comes nearer to its end.
LEMMA AwaitedStep ==
    ASSUME EraseInv, EraseInv', [Next]_vars, NEW j \in Jobs, NEW n \in Nat
    PROVE  /\ AwaitedAt(j, n, "date") /\ DateComes(j) => Below(j, n)'
           /\ AwaitedAt(j, n, "worker") /\ (\E w \in Workers : TakeUp(w, j)) => Below(j, n)'
           /\ AwaitedAt(j, n, "pass") /\ PassStep(deletion[j].token) =>
                Over(j)' \/ Below(j, n)'
<1>1. ASSUME AwaitedAt(j, n, "date"), DateComes(j) PROVE Below(j, n)'
    BY <1>1, DateLowers DEF AwaitedAt, Falls, Below
<1>2. ASSUME AwaitedAt(j, n, "worker"), NEW w \in Workers, TakeUp(w, j) PROVE Below(j, n)'
    BY <1>2, TakenUpLowers DEF AwaitedAt, Falls, Below
<1>3. ASSUME AwaitedAt(j, n, "pass"), PassStep(deletion[j].token)
      PROVE  Over(j)' \/ Below(j, n)'
    <2>1. deletion[j].token \in Workers /\ work[deletion[j].token].job = j /\ deletion[j].held
        BY <1>3, AwaitedDue
    <2>2. Falls(j) \/ Over(j)'
        BY <1>3, <2>1, OwnPassLowers DEF AwaitedAt
    <2> QED
        BY <1>3, <2>2 DEF AwaitedAt, Falls, Below
<1> QED
    BY <1>1, <1>2, <1>3

\* A pass that is waited for takes its step, when it has the lock if it needs it.
LEMMA PassLowers ==
    ASSUME NEW j \in Jobs, NEW n \in Nat
    PROVE  Calm => (AwaitedAt(j, n, "pass") => Lowers(j, n))
<1> DEFINE X == AwaitedAt(j, n, "pass")  Q == Over(j) \/ Below(j, n)
           M == status[j] \in Marked  L == LockFree(j)
<1>1. ASSUME NEW w \in Workers
      PROVE  Calm /\ Attended(w) => (X /\ deletion[j].token = w => Lowers(j, n))
    <2> DEFINE Y == X /\ deletion[j].token = w  D == PassDue(w)
    <2>1. EraseInv /\ EraseInv' /\ [Next]_vars /\ [faults' = faults]_vars /\ Y => Y' \/ Q'
        BY AwaitedStays
    <2>2. EraseInv /\ EraseInv' /\ [Next]_vars /\ Y /\ <<PassStep(w)>>_vars => Q'
        BY AwaitedStep
    <2>3. EraseInv /\ Y => M /\ (L => D)
        BY AwaitedDue DEF PassDue
    <2>4. EraseInv /\ [Next]_vars /\ M /\ L => L'
        BY LockStays
    <2>5. Steady => [](M => <>L)
        BY LockComesFree
    <2>6. Attended(w) => (<>[]D => []<><<PassStep(w)>>_vars)
        BY DEF Attended
    <2> HIDE DEF X, Y, Q, M, L, D
    <2>7. Calm /\ Attended(w) => (Y => <>Q)
        BY <2>1, <2>2, <2>3, <2>4, <2>5, <2>6, PTL DEF Calm, Steady
    <2> QED
        BY <2>7, PTL DEF X, Y, Q, Lowers
<1>2. Calm => WorkersAttended
    BY PTL DEF Calm, Steady
<1>3. Calm => (X /\ deletion[j].token \in Workers => Lowers(j, n))
    BY <1>1, <1>2 DEF WorkersAttended
<1>4. EraseInv => (X => deletion[j].token \in Workers)
    BY AwaitedDue
<1> DEFINE K == deletion[j].token \in Workers
<1> HIDE DEF X, K
<1> QED
    BY <1>3, <1>4, PTL DEF Calm, Steady, X, K

\* One step comes.
LEMMA DropsOne ==
    ASSUME NEW j \in Jobs, NEW n \in Nat, NEW v \in Workers
    PROVE  Calm /\ Called(j) => Drops(j, n, 1)
<1> DEFINE P == Below(j, n + 1)  Q == Over(j) \/ Below(j, n)
           A == AwaitedAt(j, n, "date")  B == AwaitedAt(j, n, "worker")
           C == AwaitedAt(j, n, "pass")
           I == pc[v] = "idle"  D == DateDue(j)  T == TakeUpDue(j)
<1>1. EraseInv /\ EraseInv' /\ [Next]_vars /\ [faults' = faults]_vars
        => (A => A' \/ Q') /\ (B => B' \/ Q')
    BY AwaitedStays
<1>2. EraseInv /\ EraseInv' /\ [Next]_vars
        => /\ A /\ <<DateComes(j)>>_vars => Q'
           /\ B /\ <<\E w \in Workers : TakeUp(w, j)>>_vars => Q'
    BY AwaitedStep
<1>3. EraseInv => (A => D) /\ (B /\ I => T)
    BY AwaitedDue DEF TakeUpDue
<1>4. EraseInv => (P => A \/ B \/ C \/ Q)
    <2> SUFFICES ASSUME EraseInv, P, ~Below(j, n) PROVE A \/ B \/ C
        OBVIOUS
    <2>1. CleanupRank(deletion[j], PassPlace(j)) \in 0 .. 119
        BY PassFacts, LeftRange
    <2>2. Underway(j) /\ CleanupRank(deletion[j], PassPlace(j)) = n
        BY <2>1 DEF Below
    <2> QED
        BY <2>2, AwaitedDue
<1>5. Called(j) => /\ <>[]D => []<><<DateComes(j)>>_vars
                   /\ []<>T => []<><<\E w \in Workers : TakeUp(w, j)>>_vars
    BY DEF Called
<1>6. Steady => GetsIdle(v)
    BY IdleAgain
<1>7. Calm => (C => Lowers(j, n))
    BY PassLowers
<1> HIDE DEF P, A, B, C, I, D, T, Q
<1>8. Calm => (C => <>Q)
    BY <1>7, PTL DEF Lowers, Q
<1>9. Calm /\ Called(j) => (A => <>Q)
    BY <1>1, <1>2, <1>3, <1>5, PTL DEF Calm, Steady
<1>10. Calm /\ Called(j) => (B => <>Q)
    BY <1>1, <1>2, <1>3, <1>5, <1>6, PTL DEF Calm, Steady, GetsIdle, I
<1>11. Calm /\ Called(j) => (P ~> Q)
    BY <1>4, <1>5, <1>8, <1>9, <1>10, PTL DEF Calm, Steady, Called, D, T
<1> QED
    BY <1>11, PTL DEF Drops, P, Q

\* And m more after m.
LEMMA DropsTwice ==
    ASSUME NEW j \in Jobs, NEW n \in Nat, NEW m \in Nat
    PROVE  Drops(j, n + m, m) /\ Drops(j, n, m) => Drops(j, n, 2 * m)
<1>1. Below(j, (n + m) + m) <=> Below(j, n + 2 * m)
    <2>1. (n + m) + m = n + 2 * m
        OBVIOUS
    <2> QED
        BY <2>1
<1> QED
    BY <1>1, PTL DEF Drops

\* So twice as many come as do from everywhere.
LEMMA DropsDouble ==
    ASSUME NEW j \in Jobs, NEW m \in Nat
    PROVE  (\A n \in Nat : Drops(j, n, m)) => \A n \in Nat : Drops(j, n, 2 * m)
<1>1. \A n \in Nat : n + m \in Nat
    OBVIOUS
<1>2. \A n \in Nat : Drops(j, n + m, m) /\ Drops(j, n, m) => Drops(j, n, 2 * m)
    BY DropsTwice
<1> QED
    BY <1>1, <1>2

\* More than a rank can be.
LEMMA DropsAll ==
    ASSUME NEW j \in Jobs, Workers # {}
    PROVE  Calm /\ Called(j) => Drops(j, 0, 128)
<1> PICK v \in Workers : TRUE
    OBVIOUS
<1>1. Calm /\ Called(j) => \A n \in Nat : Drops(j, n, 1)
    BY DropsOne
<1>2. (\A n \in Nat : Drops(j, n, 1)) => \A n \in Nat : Drops(j, n, 2)
    BY DropsDouble, 2 * 1 = 2
<1>3. (\A n \in Nat : Drops(j, n, 2)) => \A n \in Nat : Drops(j, n, 4)
    BY DropsDouble, 2 * 2 = 4
<1>4. (\A n \in Nat : Drops(j, n, 4)) => \A n \in Nat : Drops(j, n, 8)
    BY DropsDouble, 2 * 4 = 8
<1>5. (\A n \in Nat : Drops(j, n, 8)) => \A n \in Nat : Drops(j, n, 16)
    BY DropsDouble, 2 * 8 = 16
<1>6. (\A n \in Nat : Drops(j, n, 16)) => \A n \in Nat : Drops(j, n, 32)
    BY DropsDouble, 2 * 16 = 32
<1>7. (\A n \in Nat : Drops(j, n, 32)) => \A n \in Nat : Drops(j, n, 64)
    BY DropsDouble, 2 * 32 = 64
<1>8. (\A n \in Nat : Drops(j, n, 64)) => Drops(j, 0, 128)
    BY DropsDouble, 2 * 64 = 128
<1> QED
    BY <1>1, <1>2, <1>3, <1>4, <1>5, <1>6, <1>7, <1>8

\* Also while something fails a deletion is under way until it is over.
LEMMA UnderwayStays ==
    ASSUME EraseInv, EraseInv', [Next]_vars, NEW j \in Jobs, Underway(j)
    PROVE  Underway(j)' \/ Over(j)'
<1>1. status'[j] \in Marked
    BY MarkedStays, DeletionAssumption DEF Underway, Marked
<1> QED
    BY <1>1 DEF Marked, Underway, Over

\* A marked job is erased in the end or given up for the owner to see, for every
\* number of jobs and workers: if the workers go on with what they are at, dates
\* come, what is due is taken up again and again, and failures stop.  No lock that
\* is held, no execution that wrote late, no pass that lost its lease and no other
\* deletion can keep it from that (delete_job and reconcile of
\* ai-service/utils/deletion.py).
THEOREM ErasedInTheEnd ==
    ASSUME Workers # {}
    PROVE  Spec /\ []WorkersAttended /\ JobsCalled /\ <>[][faults' = faults]_vars
             => EventuallyErased
<1> SUFFICES ASSUME NEW j \in Jobs
             PROVE  Spec /\ []WorkersAttended /\ JobsCalled /\ <>[][faults' = faults]_vars
                      => (status[j] = "deleting"
                            ~> (status[j] = "deleted" \/ deletion[j].state = "failed"))
    BY DEF EventuallyErased
<1>1. JobsCalled => Called(j)
    BY DEF JobsCalled
<1>2. EraseInv => /\ status[j] = "deleting" => Underway(j) \/ Over(j)
                  /\ Underway(j) => Below(j, 0 + 128)
                  /\ ~Below(j, 0)
    <2> SUFFICES ASSUME EraseInv
                 PROVE  /\ status[j] = "deleting" => Underway(j) \/ Over(j)
                        /\ Underway(j) => Below(j, 0 + 128)
                        /\ ~Below(j, 0)
        OBVIOUS
    <2>1. CleanupRank(deletion[j], PassPlace(j)) \in 0 .. 119
        BY PassFacts, LeftRange
    <2> QED
        BY <2>1 DEF Below, Underway, Over
<1>3. Over(j) <=> status[j] = "deleted" \/ deletion[j].state = "failed"
    BY DEF Over
<1>4. Calm /\ Called(j) => Drops(j, 0, 128)
    BY DropsAll
<1>5. EraseInv /\ EraseInv' /\ [Next]_vars /\ Underway(j) => Underway(j)' \/ Over(j)'
    BY UnderwayStays
<1>6. Steady /\ Called(j) /\ <>[][faults' = faults]_vars => (Underway(j) ~> Over(j))
    BY <1>2, <1>4, <1>5, PTL DEF Calm, Steady, Called, Drops
<1> QED
    BY <1>1, <1>2, <1>3, <1>6, EraseInvariant, PTL DEF Spec, Steady

\* What makes CollectMedia of an original possible, and that the scan, which goes
\* over all originals, comes to it again and again.
MediaDue(f) == (\E w \in Workers : pc[w] = "idle") /\ f \in files /\ Unreferenced(f)
Collects(f) == (\E w \in Workers : CollectMedia(w)) /\ f \notin files'
Scanned(f) == []<>MediaDue(f) => []<><<Collects(f)>>_vars

MediaScanned == \A f \in Files : Scanned(f)

\* Nobody refers to an original again.
LEMMA UnreferencedStays ==
    ASSUME DeletionAssumption, TypeOK, [Next]_vars, NEW f \in Files, Unreferenced(f)
    PROVE  Unreferenced(f)'
<1> SUFFICES ASSUME NEW j \in Jobs PROVE source'[j] # f
    BY DEF Unreferenced
<1>1. source[j] # f /\ f # NoFile
    BY DeletionAssumption DEF Unreferenced
<1>2. source'[j] = source[j] \/ source'[j] = NoFile
    <2>1. ASSUME NEW w \in Workers, Tombstone(w) \/ TombstoneUnknown(w)
          PROVE  source'[j] = source[j] \/ source'[j] = NoFile
        BY <2>1 DEF Tombstone, TombstoneUnknown, Bury, jobVars, TypeOK
    <2>2. ASSUME NEW w \in Workers, RunStep(w) \/ PassStep(w), ~Tombstone(w)
          PROVE  source' = source
        BY <2>2 DEF RunStep, PassStep, Fetch, EnterIndex, WriteIndex, Complete, FailRun,
             RemoveScratch, Acknowledge, Wait, EraseIndex, EraseScratch, CheckMedia,
             EraseMedia, EraseMessages, RecordError, jobVars
    <2>3. ASSUME NEW w \in Workers, CollectMedia(w) \/ StepFails(w) \/ Crash(w)
          PROVE  source' = source
        BY <2>3 DEF CollectMedia, StepFails, Crash, jobVars
    <2>4. ASSUME NEW w \in Workers, NEW i \in Jobs,
                 Claim(w, i) \/ Recover(w, i) \/ TakeUp(w, i) \/ CollectScratch(w, i)
          PROVE  source' = source
        BY <2>4 DEF Claim, Recover, TakeUp, CollectScratch, jobVars
    <2>5. ASSUME NEW i \in Jobs, CancelJob(i) \/ MarkDeleting(i) \/ DeleteAgain(i)
                 \/ LeaseEnds(i) \/ DateComes(i) \/ PassTooSlow(i)
          PROVE  source' = source
        BY <2>5 DEF CancelJob, MarkDeleting, DeleteAgain, LeaseEnds, DateComes,
             PassTooSlow, jobVars
    <2>6. CASE UNCHANGED vars
        BY <2>6 DEF vars, jobVars
    <2> QED
        BY <2>1, <2>2, <2>3, <2>4, <2>5, <2>6 DEF Next
<1> QED
    BY <1>1, <1>2

\* What two passes that each saw the reference of the other left behind is
\* collected, whatever fails: the scan of an idle worker finds it as soon as the
\* last reference is gone, and no reference comes back (reconcile_orphan_media).
THEOREM MediaCollectedInTheEnd ==
    ASSUME Workers # {}
    PROVE  Spec /\ []WorkersAttended /\ MediaScanned => MediaCollected
<1> PICK v \in Workers : TRUE
    OBVIOUS
<1> SUFFICES ASSUME NEW f \in Files
             PROVE  Spec /\ []WorkersAttended /\ MediaScanned
                      => ((\A j \in Jobs : source[j] # f) ~> f \notin files)
    BY DEF MediaCollected
<1> DEFINE U == Unreferenced(f)  G == f \notin files  I == pc[v] = "idle"  D == MediaDue(f)
           C == Collects(f)
<1>1. U <=> \A j \in Jobs : source[j] # f
    BY DEF Unreferenced
<1>2. EraseInv /\ [Next]_vars /\ U => U'
    BY UnreferencedStays, DeletionAssumption DEF EraseInv, DeletionInv
<1>3. U /\ ~G /\ I => D
    BY DEF MediaDue
<1>4. C => G'
    BY DEF Collects
<1>5. MediaScanned => Scanned(f)
    BY DEF MediaScanned
<1>6. Scanned(f) => ([]<>D => []<><<C>>_vars)
    BY DEF Scanned
<1>7. Steady => GetsIdle(v)
    BY IdleAgain
<1>8. GetsIdle(v) => []<>I
    BY DEF GetsIdle
<1> DEFINE N == \A j \in Jobs : source[j] # f
<1>9. U <=> N
    BY <1>1
<1> HIDE DEF U, G, I, D, C, N
<1>10. Steady /\ Scanned(f) => (N ~> G)
    BY <1>2, <1>3, <1>4, <1>6, <1>7, <1>8, <1>9, PTL DEF Steady
<1>11. Spec /\ []WorkersAttended /\ MediaScanned => (N ~> G)
    BY <1>5, <1>10, EraseInvariant, PTL DEF Spec, Steady, Scanned
<1> QED
    BY <1>11, PTL DEF N, G

=============================================================================
