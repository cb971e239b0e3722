---------------------------- MODULE KnowledgeFile ----------------------------
(***************************************************************************)
(* One file of a tenant's knowledge base, from the signal that its upload  *)
(* is complete to the moment it can be searched, and its deletion.         *)
(*                                                                         *)
(* Three jobs follow each other in the worker: scan_upload adds            *)
(* parse_knowledge_file, which adds embed_knowledge_chunks.  They hand the *)
(* file over through its row, its object in the store, its chunks and its  *)
(* vectors, and nothing ties those four together: there is no foreign key  *)
(* and, but for the chunks and the row in one step of the parser, no       *)
(* common transaction.  A step below is one statement or call that a task  *)
(* awaits.                                                                 *)
(*                                                                         *)
(* The job queue (graphile-worker), the object store, the virus scanner    *)
(* and the vector store are libraries and services.                        *)
(***************************************************************************)
EXTENDS Naturals, FiniteSets

CONSTANTS
    Signals,      \* requests of /knowledge/:id/processed
    JobIds,       \* bound: jobs in the queue at once
    MaxAttempts,  \* bound: the tries of a job (25 unless told otherwise)
    MaxFaults,    \* bound: statements and calls that fail
    MaxCrashes,   \* bound: restarts of the worker or the server
    MaxTrouble    \* bound: of failures, restarts, second signals and a deletion together

ASSUME BoundsAreNatural == {MaxAttempts, MaxFaults, MaxCrashes, MaxTrouble} \subseteq Nat

VARIABLES
    content,  \* what was uploaded
    file,     \* the row of knowledge.files
    stored,   \* which of the object, the chunks and the vectors exist
    signals,  \* how far each request is
    jobs,     \* the job queue: kind, tries so far, and how far the task is
    index,    \* the worker's cached promise of createIndex
    purge,    \* how far the deletion is; "cut": a request for it failed half way
    late,     \* (history) which of chunks and vectors were written after a deletion began
    spent     \* (bound) faults and crashes so far

vars == <<content, file, stored, signals, jobs, index, purge, late, spent>>

Things == {"object", "chunks", "vectors"}
Row == [status: {"uploading", "parsing", "embedding", "ready", "failed", "gone"},
        scan: {"pending", "scanning", "clean", "infected", "error"}]

\* Where a task can be.  "ready": no worker has the job; "stale": a dead one has.
ScanAt == {"begin", "check", "pass", "handOn", "condemn", "remove", "note"}
ParseAt == {"begin", "wipe", "write", "handOn", "fail"}
EmbedAt == {"begin", "chunks", "index", "upsert", "finish", "fail"}
Running == ScanAt \cup ParseAt \cup EmbedAt \cup {"done"}
Job == [kind: {"none", "scan", "parse", "embed"}, tries: Nat,
        pc: {"free", "ready", "stale"} \cup Running]
Purging == {"list", "vectors", "chunks", "row", "object"}

TypeOK ==
    /\ content \in {"good", "infected", "unparsable"}
    /\ file \in Row
    /\ stored \subseteq Things
    /\ signals \in [Signals -> {"idle", "read", "enqueued", "over"}]
    /\ jobs \in [JobIds -> Job]
    /\ index \in {"none", "created", "broken"}
    /\ purge \in {"idle", "cut", "over"} \cup Purging
    /\ late \subseteq Things
    /\ spent \in [{"fault", "crash"} -> Nat]

Free == [kind |-> "none", tries |-> 0, pc |-> "free"]
NewJob(kind) == [kind |-> kind, tries |-> 0, pc |-> "ready"]

\* requestKnowledgeUpload has inserted the row and the client has put the object.
Init ==
    /\ content \in {"good", "infected", "unparsable"}
    /\ file = [status |-> "uploading", scan |-> "pending"]
    /\ stored = {"object"}
    /\ signals = [s \in Signals |-> "idle"]
    /\ jobs = [j \in JobIds |-> Free]
    /\ index = "none"
    /\ purge = "idle"
    /\ late = {}
    /\ spent = [w \in {"fault", "crash"} |-> 0]

\* (bound) What happens beyond one signal.
Trouble ==
    spent["fault"] + spent["crash"] + Cardinality({s \in Signals : signals[s] # "idle"})
        + (IF purge = "idle" THEN 0 ELSE 1)

Spend(what, bound) ==
    /\ spent[what] < bound /\ Trouble <= MaxTrouble
    /\ spent' = [spent EXCEPT ![what] = @ + 1]
Fault == Spend("fault", MaxFaults)
Fine == UNCHANGED spent

\* An UPDATE of a row that is gone changes nothing, and nobody counts its rows.
Here == file.status # "gone"
Sets(status, scan) == file' = IF Here THEN [status |-> status, scan |-> scan] ELSE file

\* A chunk or a vector is written.
Stores(thing) ==
    /\ stored' = stored \cup {thing}
    /\ late' = IF purge = "idle" THEN late ELSE late \cup {thing}

At(j, kind, pc) == jobs[j].kind = kind /\ jobs[j].pc = pc
Moved(j, pc) == [kind |-> jobs[j].kind, tries |-> jobs[j].tries, pc |-> pc]
Goes(j, pc) == jobs' = [jobs EXCEPT ![j] = Moved(j, pc)]
Throws(j) == Goes(j, "ready")
Vacant == {n \in JobIds : jobs[n] = Free}
Place == CHOOSE n \in Vacant : TRUE
AddsAndGoes(j, kind, pc) ==
    /\ Vacant # {}
    /\ jobs' = [i \in JobIds |-> IF i = Place THEN NewJob(kind)
                                   ELSE IF i = j THEN Moved(j, pc) ELSE jobs[i]]

-----------------------------------------------------------------------------
(* domain/mark-processed.ts.  A job is added in a transaction of its own.  *)

ReadSignal(s) ==
    /\ signals[s] = "idle" /\ Trouble <= MaxTrouble
    /\ signals' = [signals EXCEPT ![s] =
                     IF file.status = "uploading" /\ file.scan = "pending"
                     THEN "read" ELSE "over"]
    /\ UNCHANGED <<content, file, stored, jobs, index, purge, late, spent>>

EnqueueScan(s) ==
    /\ signals[s] = "read"
    /\ Vacant # {}
    /\ jobs' = [jobs EXCEPT ![Place] = NewJob("scan")]
    /\ signals' = [signals EXCEPT ![s] = "enqueued"]
    /\ UNCHANGED <<content, file, stored, index, purge, late, spent>>

SignalFails(s) ==
    /\ signals[s] = "read"
    /\ Fault
    /\ signals' = [signals EXCEPT ![s] = "over"]
    /\ UNCHANGED <<content, file, stored, jobs, index, purge, late>>

-----------------------------------------------------------------------------
(* The job queue (external).                                               *)

Fetch(j) ==
    /\ jobs[j].pc = "ready" /\ jobs[j].tries < MaxAttempts
    /\ jobs' = [jobs EXCEPT ![j] = [kind |-> jobs[j].kind, tries |-> jobs[j].tries + 1, pc |-> "begin"]]
    /\ UNCHANGED <<content, file, stored, signals, index, purge, late, spent>>

\* The task returned: the job is deleted.
Complete(j) ==
    /\ jobs[j].pc = "done"
    /\ jobs' = [jobs EXCEPT ![j] = Free]
    /\ UNCHANGED <<content, file, stored, signals, index, purge, late, spent>>

LockExpires(j) ==
    /\ jobs[j].pc = "stale"
    /\ Goes(j, "ready")
    /\ UNCHANGED <<content, file, stored, signals, index, purge, late, spent>>

\* The worker restarts: its tasks are gone, and with them the promise it cached.
WorkerCrash ==
    /\ Spend("crash", MaxCrashes)
    /\ jobs' = [j \in JobIds |-> IF jobs[j].pc \in Running THEN Moved(j, "stale") ELSE jobs[j]]
    /\ index' = "none"
    /\ UNCHANGED <<content, file, stored, signals, purge, late>>

-----------------------------------------------------------------------------
(* jobs/scan-upload.ts                                                     *)

ScanBegins(j) ==
    /\ At(j, "scan", "begin")
    /\ \/ Sets(file.status, "scanning") /\ Goes(j, "check") /\ Fine
       \/ file' = file /\ Throws(j) /\ Fault
    /\ UNCHANGED <<content, stored, signals, index, purge, late>>

EmptyIsClean(j) ==  \* mutant
    /\ At(j, "scan", "check")
    /\ \/ /\ Goes(j, IF content = "infected" /\ "object" \in stored THEN "condemn" ELSE "pass")
          /\ Fine
       \/ Goes(j, "note") /\ Fault
    /\ UNCHANGED <<content, file, stored, signals, index, purge, late>>

\* The object is read twice, for its type and for viruses; a missing one throws.
Check(j) ==
    /\ At(j, "scan", "check")
    /\ \/ /\ Goes(j, IF "object" \notin stored THEN "note"
                     ELSE IF content = "infected" THEN "condemn" ELSE "pass")
          /\ Fine
       \/ Goes(j, "note") /\ Fault
    /\ UNCHANGED <<content, file, stored, signals, index, purge, late>>

PassUnscanned(j) ==  \* mutant
    /\ At(j, "scan", "pass")
    /\ Sets("parsing", file.scan) /\ Goes(j, "handOn") /\ Fine
    /\ UNCHANGED <<content, stored, signals, index, purge, late>>

\* The verdict, whatever the status is by now.
Pass(j) ==
    /\ At(j, "scan", "pass")
    /\ \/ Sets("parsing", "clean") /\ Goes(j, "handOn") /\ Fine
       \/ file' = file /\ Goes(j, "note") /\ Fault
    /\ UNCHANGED <<content, stored, signals, index, purge, late>>

\* emitScanCompleted, which may fail alike, and enqueueParseJob.
HandToParser(j) ==
    /\ At(j, "scan", "handOn")
    /\ \/ AddsAndGoes(j, "parse", "done") /\ Fine
       \/ Goes(j, "note") /\ Fault
    /\ UNCHANGED <<content, file, stored, signals, index, purge, late>>

CondemnMisspelt(j) ==  \* mutant
    /\ At(j, "scan", "condemn")
    /\ Sets("infected", "infected") /\ Goes(j, "remove") /\ Fine
    /\ UNCHANGED <<content, stored, signals, index, purge, late>>

Condemn(j) ==
    /\ At(j, "scan", "condemn")
    /\ \/ Sets("failed", "infected") /\ Goes(j, "remove") /\ Fine
       \/ file' = file /\ Goes(j, "note") /\ Fault
    /\ UNCHANGED <<content, stored, signals, index, purge, late>>

\* emitScanCompleted, which may fail alike, and deleteObject.
RemoveObject(j) ==
    /\ At(j, "scan", "remove")
    /\ \/ stored' = stored \ {"object"} /\ Goes(j, "done") /\ Fine
       \/ stored' = stored /\ Goes(j, "note") /\ Fault
    /\ UNCHANGED <<content, file, signals, index, purge, late>>

ErrorSwallowed(j) ==  \* mutant
    /\ At(j, "scan", "note")
    /\ Sets(file.status, "error") /\ Goes(j, "done") /\ Fine
    /\ UNCHANGED <<content, stored, signals, index, purge, late>>

\* The catch, and the rethrow.
NoteError(j) ==
    /\ At(j, "scan", "note")
    /\ Throws(j)
    /\ \/ Sets(file.status, "error") /\ Fine
       \/ file' = file /\ Fault
    /\ UNCHANGED <<content, stored, signals, index, purge, late>>

-----------------------------------------------------------------------------
(* parse/parse-knowledge-file.ts                                           *)

\* The row, then the object and what the parser makes of it.  In one step: between
\* the two the object of a clean file only goes after its row, and then it is no
\* matter whether this task fails here or later.
Load(j) ==
    /\ At(j, "parse", "begin")
    /\ \/ /\ Goes(j, IF file.status # "parsing" THEN "done"
                     ELSE IF /\ file.scan = "clean"
                             /\ "object" \in stored
                             /\ content # "unparsable" THEN "wipe"
                     ELSE "fail")
          /\ Fine
       \/ Goes(j, "fail") /\ Fault
    /\ UNCHANGED <<content, file, stored, signals, index, purge, late>>

WipeUnpinned(j) ==  \* mutant
    /\ At(j, "parse", "wipe")
    /\ stored' = stored \ {"chunks"}
    /\ Goes(j, "write") /\ Fine
    /\ UNCHANGED <<content, file, signals, index, purge, late>>

\* BEGIN and the DELETE of an earlier attempt's chunks: nobody sees it before COMMIT.
Wipe(j) ==
    /\ At(j, "parse", "wipe")
    /\ \/ Goes(j, "write") /\ Fine
       \/ Goes(j, "fail") /\ Fault
    /\ UNCHANGED <<content, file, stored, signals, index, purge, late>>

\* The INSERT, the status and COMMIT.  Another task that deleted but did not commit
\* did not see these chunks: its own INSERT violates the primary key.
CommitChunks(j) ==
    /\ At(j, "parse", "write")
    /\ \/ /\ jobs' = [i \in JobIds |->
                        IF i = j THEN Moved(i, "handOn")
                        ELSE IF At(i, "parse", "write") THEN Moved(i, "fail") ELSE jobs[i]]
          /\ Sets("embedding", file.scan)
          /\ Stores("chunks")
          /\ Fine
       \/ Goes(j, "fail") /\ Fault /\ UNCHANGED <<file, stored, late>>
    /\ UNCHANGED <<content, signals, index, purge>>

HandOnRethrown(j) ==  \* mutant
    /\ At(j, "parse", "handOn")
    /\ \/ AddsAndGoes(j, "embed", "done") /\ Fine
       \/ Throws(j) /\ Fault
    /\ UNCHANGED <<content, file, stored, signals, index, purge, late>>

HandToEmbedder(j) ==
    /\ At(j, "parse", "handOn")
    /\ \/ AddsAndGoes(j, "embed", "done") /\ Fine
       \/ Goes(j, "fail") /\ Fault
    /\ UNCHANGED <<content, file, stored, signals, index, purge, late>>

\* The catch: the task returns, unless the UPDATE fails as well.
ParseFails(j) ==
    /\ At(j, "parse", "fail")
    /\ \/ Sets("failed", file.scan) /\ Goes(j, "done") /\ Fine
       \/ file' = file /\ Throws(j) /\ Fault
    /\ UNCHANGED <<content, stored, signals, index, purge, late>>

-----------------------------------------------------------------------------
(* embeddings/embed-knowledge-chunks.ts                                    *)

EmbedReads(j) ==
    /\ At(j, "embed", "begin")
    /\ \/ Goes(j, IF Here THEN "chunks" ELSE "fail") /\ Fine
       \/ Goes(j, "fail") /\ Fault
    /\ UNCHANGED <<content, file, stored, signals, index, purge, late>>

EmbedReadsChunks(j) ==
    /\ At(j, "embed", "chunks")
    /\ \/ Goes(j, IF "chunks" \in stored THEN "index" ELSE "fail") /\ Fine
       \/ Goes(j, "fail") /\ Fault
    /\ UNCHANGED <<content, file, stored, signals, index, purge, late>>

\* ensureKnowledgeVectorIndex caches the promise, a rejected one as well.
EnsureIndex(j) ==
    /\ At(j, "embed", "index")
    /\ \/ Goes(j, "upsert") /\ index # "broken" /\ index' = "created" /\ Fine
       \/ Goes(j, "fail") /\ index = "broken" /\ index' = index /\ Fine
       \/ Goes(j, "fail") /\ index = "none" /\ index' = "broken" /\ Fault
    /\ UNCHANGED <<content, file, stored, signals, purge, late>>

\* embedMany, which may fail alike, and the upsert.
Upsert(j) ==
    /\ At(j, "embed", "upsert")
    /\ \/ Stores("vectors") /\ Goes(j, "finish") /\ Fine
       \/ Goes(j, "fail") /\ Fault /\ UNCHANGED <<stored, late>>
    /\ UNCHANGED <<content, file, signals, index, purge>>

\* The UPDATE to ready, and the event: when that fails the file is failed after all.
Finish(j) ==
    /\ At(j, "embed", "finish")
    /\ \/ Sets("ready", file.scan) /\ Goes(j, "done") /\ Fine
       \/ Sets("ready", file.scan) /\ Goes(j, "fail") /\ Fault
       \/ file' = file /\ Goes(j, "fail") /\ Fault
    /\ UNCHANGED <<content, stored, signals, index, purge, late>>

\* The catch: the UPDATE, and the event.  When either fails, the task throws.
EmbedFails(j) ==
    /\ At(j, "embed", "fail")
    /\ \/ Sets("failed", file.scan) /\ Goes(j, "done") /\ Fine
       \/ Sets("failed", file.scan) /\ Throws(j) /\ Fault
       \/ file' = file /\ Throws(j) /\ Fault
    /\ UNCHANGED <<content, stored, signals, index, purge, late>>

-----------------------------------------------------------------------------
(* domain/delete-file.ts: purgeKnowledgeFile.                              *)

\* A request for a file that is here; of a file that is gone, nothing is deleted.
BeginPurge ==
    /\ Here
    /\ (purge = "idle" /\ Trouble <= MaxTrouble) \/ purge = "cut"
    /\ purge' = "list"
    /\ UNCHANGED <<content, file, stored, signals, jobs, index, late, spent>>

VectorsForgotten ==  \* mutant
    /\ purge = "list"
    /\ purge' = "chunks"
    /\ UNCHANGED <<content, file, stored, signals, jobs, index, late, spent>>

\* Without chunks there are no vectors to delete, it is assumed.
ListChunks ==
    /\ purge = "list"
    /\ purge' = IF "chunks" \in stored THEN "vectors" ELSE "chunks"
    /\ UNCHANGED <<content, file, stored, signals, jobs, index, late, spent>>

\* One call for each vector; what it throws is swallowed.
DeleteVectors ==
    /\ purge = "vectors"
    /\ purge' = "chunks"
    /\ \/ stored' = stored \ {"vectors"} /\ Fine
       \/ stored' = stored /\ Fault
    /\ UNCHANGED <<content, file, signals, jobs, index, late>>

DeleteChunks ==
    /\ purge = "chunks"
    /\ stored' = stored \ {"chunks"}
    /\ purge' = "row"
    /\ UNCHANGED <<content, file, signals, jobs, index, late, spent>>

DeleteRow ==
    /\ purge = "row"
    /\ file' = [file EXCEPT !.status = "gone"]
    /\ purge' = "object"
    /\ UNCHANGED <<content, stored, signals, jobs, index, late, spent>>

\* A failure is logged.
DeleteObject ==
    /\ purge = "object"
    /\ \/ stored' = stored \ {"object"} /\ Fine
       \/ stored' = stored /\ Fault
    /\ purge' = "over"
    /\ UNCHANGED <<content, file, signals, jobs, index, late>>

\* A statement fails: the rest is not done.
PurgeFails ==
    /\ purge \in Purging \ {"object"}
    /\ Fault
    /\ purge' = "cut"
    /\ UNCHANGED <<content, file, stored, signals, jobs, index, late>>

\* The server restarts: requests under way end.
ServerCrash ==
    /\ Spend("crash", MaxCrashes)
    /\ purge' = IF purge \in Purging THEN IF Here THEN "cut" ELSE "over" ELSE purge
    /\ signals' = [s \in Signals |-> IF signals[s] = "read" THEN "over" ELSE signals[s]]
    /\ UNCHANGED <<content, file, stored, jobs, index, late>>

-----------------------------------------------------------------------------

ScanStep(j) ==
    ScanBegins(j) \/ Check(j) \/ Pass(j) \/ HandToParser(j) \/ Condemn(j) \/ RemoveObject(j)
        \/ NoteError(j)
ParseStep(j) ==
    Load(j) \/ Wipe(j) \/ CommitChunks(j) \/ HandToEmbedder(j) \/ ParseFails(j)
EmbedStep(j) ==
    EmbedReads(j) \/ EmbedReadsChunks(j) \/ EnsureIndex(j) \/ Upsert(j) \/ Finish(j) \/ EmbedFails(j)
QueueStep(j) == Fetch(j) \/ Complete(j) \/ LockExpires(j)
JobStep(j) == ScanStep(j) \/ ParseStep(j) \/ EmbedStep(j) \/ QueueStep(j)
PurgeStep ==
    BeginPurge \/ ListChunks \/ DeleteVectors \/ DeleteChunks \/ DeleteRow \/ DeleteObject \/ PurgeFails

Next ==
    \/ \E s \in Signals : ReadSignal(s) \/ EnqueueScan(s) \/ SignalFails(s)
    \/ \E j \in JobIds : JobStep(j)
    \/ PurgeStep \/ WorkerCrash \/ ServerCrash

Spec == Init /\ [][Next]_vars

\* The worker runs its jobs, and those of a dead worker when their locks expire.
Fairness == \A j \in JobIds : WF_vars(JobStep(j))
FairSpec == Spec /\ Fairness

-----------------------------------------------------------------------------
(* Properties.                                                             *)

Disturbed == spent["fault"] + spent["crash"] > 0
ScannedTwice == \E s, t \in Signals : s # t /\ signals[s] = "enqueued" /\ signals[t] = "enqueued"
HasJob == \E j \in JobIds : jobs[j].kind # "none"

\* Nothing of an infected file is ever handed on, though its object, once removed,
\* cannot be scanned again (scan-upload.ts).
InfectedIsKeptOut ==
    content = "infected" =>
        /\ stored \cap {"chunks", "vectors"} = {}
        /\ file.status \in {"uploading", "failed", "gone"}

\* What search lets through has its chunks and its vectors, until it is deleted
\* (search-tenant-knowledge.ts filters by the status alone).
ReadyIsSearchable ==
    file.status = "ready" => {"chunks", "vectors"} \subseteq stored \/ purge # "idle"

\* A good file fails only because something failed, because its upload was announced
\* twice and two scans ran, or because its deletion had begun.
GoodFailsForCause ==
    content = "good" /\ file.status = "failed" => Disturbed \/ ScannedTwice \/ purge # "idle"

\* A file is left between two jobs only by a restart or by two failures in a row:
\* the job that finds it parsed, returns (parse-knowledge-file.ts, "already moved on").
Stranded == file.status \in {"parsing", "embedding"} /\ ~HasJob
StrandedForCause == Stranded => spent["crash"] > 0 \/ spent["fault"] > 1

\* A deleted file leaves chunks or vectors behind only if a job wrote them after the
\* deletion began, or a call to delete vectors failed (delete-file.ts).
NothingLeftBehind ==
    ~Here => stored \ {"object"} \subseteq late \/ spent["fault"] > 0

\* A file with a job ends ready, failed or deleted, unless its tries are used up or
\* it is stranded, or (bound) all of JobIds wait to add another job.
Exhausted == \E j \in JobIds : jobs[j].pc = "ready" /\ jobs[j].tries = MaxAttempts
Jammed == \A j \in JobIds : jobs[j].pc = "handOn"
Settles ==
    HasJob ~> \/ file.status \in {"ready", "failed", "gone"}
              \/ Exhausted \/ Stranded \/ Jammed
=============================================================================
