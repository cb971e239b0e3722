------------------------- MODULE KnowledgeFileProofs -------------------------
(***************************************************************************)
(* What TLAPS proves of KnowledgeFile, for any number of signals, jobs,    *)
(* tries, failures and restarts.                                           *)
(***************************************************************************)
EXTENDS KnowledgeFile, TLAPS

Pcs == {"free", "ready", "stale"} \cup Running
Kinds == {"none", "scan", "parse", "embed"}

\* A moved or a new job is a job.
LEMMA JobFacts ==
    /\ \A k \in Kinds, t \in Nat, pc \in Pcs : [kind |-> k, tries |-> t, pc |-> pc] \in Job
    /\ \A r \in Job : r.kind \in Kinds /\ r.tries \in Nat /\ r.pc \in Pcs
  BY DEF Job, Kinds, Pcs

LEMMA RowFacts ==
    /\ \A st \in {"uploading", "parsing", "embedding", "ready", "failed", "gone"},
          sc \in {"pending", "scanning", "clean", "infected", "error"} :
          [status |-> st, scan |-> sc] \in Row
    /\ \A r \in Row : /\ r.status \in {"uploading", "parsing", "embedding", "ready", "failed", "gone"}
                      /\ r.scan \in {"pending", "scanning", "clean", "infected", "error"}
  BY DEF Row

\* One job moves, and keeps its kind.
LEMMA GoesMoves ==
    ASSUME TypeOK, NEW j \in JobIds, NEW pc \in Pcs, Goes(j, pc)
    PROVE  /\ jobs' \in [JobIds -> Job]
           /\ jobs'[j].kind = jobs[j].kind /\ jobs'[j].pc = pc
           /\ \A i \in JobIds : i # j => jobs'[i] = jobs[i]
  BY JobFacts DEF TypeOK, Goes, Moved

\* One job moves, and a new one takes a free place.
LEMMA AddsMoves ==
    ASSUME TypeOK, NEW j \in JobIds, NEW pc \in Pcs, NEW k \in Kinds, AddsAndGoes(j, k, pc),
           jobs[j].pc # "free"
    PROVE  /\ jobs' \in [JobIds -> Job]
           /\ \E n \in JobIds :
                /\ n # j /\ jobs[n] = Free
                /\ jobs'[n].kind = k /\ jobs'[n].pc = "ready"
                /\ jobs'[j].kind = jobs[j].kind /\ jobs'[j].pc = pc
                /\ \A i \in JobIds : i # j /\ i # n => jobs'[i] = jobs[i]
  <1>1. Place \in JobIds /\ jobs[Place] = Free
    <2>1. Place \in Vacant BY DEF AddsAndGoes, Place
    <2> QED BY <2>1 DEF Vacant
  <1>2. Place # j BY <1>1 DEF Free
  <1>3. jobs' = [i \in JobIds |-> IF i = Place THEN NewJob(k)
                                   ELSE IF i = j THEN Moved(j, pc) ELSE jobs[i]]
    BY DEF AddsAndGoes
  <1>4. /\ jobs'[Place] = NewJob(k) /\ jobs'[j] = Moved(j, pc)
        /\ \A i \in JobIds : i # j /\ i # Place => jobs'[i] = jobs[i]
    BY <1>1, <1>2, <1>3
  <1>5. NewJob(k) \in Job /\ Moved(j, pc) \in Job
    BY JobFacts DEF NewJob, Moved, TypeOK, Kinds, Pcs
  <1>6. jobs' \in [JobIds -> Job] BY <1>3, <1>4, <1>5 DEF TypeOK
  <1> QED BY <1>1, <1>2, <1>4, <1>6 DEF NewJob, Moved

\* What the tasks do to the jobs, in one lemma for the steps that only move one.
LEMMA StepMoves ==
    ASSUME TypeOK, NEW j \in JobIds,
           \/ ScanBegins(j) \/ Check(j) \/ Pass(j) \/ Condemn(j) \/ RemoveObject(j) \/ NoteError(j)
           \/ Load(j) \/ Wipe(j) \/ ParseFails(j)
           \/ EmbedReads(j) \/ EmbedReadsChunks(j) \/ EnsureIndex(j) \/ Upsert(j) \/ Finish(j)
           \/ EmbedFails(j) \/ LockExpires(j)
    PROVE  \E pc \in Pcs : Goes(j, pc)
  <1>1. CASE ScanBegins(j) \/ Check(j) \/ Pass(j) \/ Condemn(j) \/ RemoveObject(j) \/ NoteError(j)
    BY <1>1 DEF ScanBegins, Check, Pass, Condemn, RemoveObject, NoteError, Throws, Pcs, Running, ScanAt
  <1>2. CASE Load(j) \/ Wipe(j) \/ ParseFails(j)
    BY <1>2 DEF Load, Wipe, ParseFails, Throws, Pcs, Running, ParseAt
  <1>3. CASE EmbedReads(j) \/ EmbedReadsChunks(j) \/ EnsureIndex(j) \/ Upsert(j) \/ Finish(j) \/ EmbedFails(j)
    BY <1>3 DEF EmbedReads, EmbedReadsChunks, EnsureIndex, Upsert, Finish, EmbedFails, Throws, Pcs, Running, EmbedAt
  <1>4. CASE LockExpires(j)
    BY <1>4 DEF LockExpires, Pcs
  <1> QED BY <1>1, <1>2, <1>3, <1>4

LEMMA SpendTypes ==
    ASSUME TypeOK, Fault \/ Fine \/ Spend("crash", MaxCrashes)
    PROVE  spent' \in [{"fault", "crash"} -> Nat]
  BY DEF TypeOK, Fault, Fine, Spend

LEMMA SetsTypes ==
    ASSUME TypeOK,
           NEW st \in {"uploading", "parsing", "embedding", "ready", "failed", "gone"},
           NEW sc \in {"pending", "scanning", "clean", "infected", "error"},
           Sets(st, sc)
    PROVE  file' \in Row
  BY RowFacts DEF Sets, TypeOK

LEMMA TypeInit == Init => TypeOK
  BY RowFacts, JobFacts DEF Init, TypeOK, Free, Kinds, Pcs, Things

LEMMA TypeNext == TypeOK /\ [Next]_vars => TypeOK'
  <1> SUFFICES ASSUME TypeOK, Next \/ UNCHANGED vars PROVE TypeOK'
    OBVIOUS
  <1>1. ASSUME NEW s \in Signals, ReadSignal(s) PROVE TypeOK'
    BY <1>1 DEF ReadSignal, TypeOK
  <1>2. ASSUME NEW s \in Signals, EnqueueScan(s) PROVE TypeOK'
    <2>1. Place \in JobIds
      <3>1. Place \in Vacant BY <1>2 DEF EnqueueScan, Place
      <3> QED BY <3>1 DEF Vacant
    <2>2. NewJob("scan") \in Job BY JobFacts DEF NewJob, Kinds, Pcs
    <2> QED BY <1>2, <2>1, <2>2 DEF EnqueueScan, TypeOK
  <1>3. ASSUME NEW s \in Signals, SignalFails(s) PROVE TypeOK'
    BY <1>3, SpendTypes DEF SignalFails, TypeOK
  <1>4. ASSUME NEW j \in JobIds, ScanStep(j) PROVE TypeOK'
    <2>1. CASE HandToParser(j)
      <3>1. jobs' \in [JobIds -> Job]
        <4>1. CASE AddsAndGoes(j, "parse", "done")
          BY <2>1, <4>1, AddsMoves DEF HandToParser, At, Kinds, Pcs, Running
        <4>2. CASE Goes(j, "note")
          BY <4>2, GoesMoves DEF Pcs, Running, ScanAt
        <4> QED BY <2>1, <4>1, <4>2 DEF HandToParser
      <3> QED BY <2>1, <3>1, SpendTypes DEF HandToParser, TypeOK
    <2>2. CASE ~HandToParser(j)
      <3>1. jobs' \in [JobIds -> Job]
        BY <1>4, <2>2, StepMoves, GoesMoves DEF ScanStep
      <3>2. file' \in Row
        BY <1>4, <2>2, SetsTypes, RowFacts
        DEF ScanStep, ScanBegins, Check, Pass, Condemn, RemoveObject, NoteError, TypeOK
      <3>3. /\ stored' \subseteq Things /\ UNCHANGED <<content, signals, index, purge, late>>
            /\ Fault \/ Fine
        BY <1>4, <2>2 DEF ScanStep, ScanBegins, Check, Pass, Condemn, RemoveObject, NoteError, TypeOK
      <3> QED BY <3>1, <3>2, <3>3, SpendTypes DEF TypeOK
    <2> QED BY <2>1, <2>2
  <1>5. ASSUME NEW j \in JobIds, ParseStep(j) PROVE TypeOK'
    <2>1. CASE HandToEmbedder(j)
      <3>1. jobs' \in [JobIds -> Job]
        <4>1. CASE AddsAndGoes(j, "embed", "done")
          BY <2>1, <4>1, AddsMoves DEF HandToEmbedder, At, Kinds, Pcs, Running
        <4>2. CASE Goes(j, "fail")
          BY <4>2, GoesMoves DEF Pcs, Running, ParseAt
        <4> QED BY <2>1, <4>1, <4>2 DEF HandToEmbedder
      <3> QED BY <2>1, <3>1, SpendTypes DEF HandToEmbedder, TypeOK
    <2>2. CASE CommitChunks(j)
      <3>1. jobs' \in [JobIds -> Job]
        <4>1. CASE Goes(j, "fail")
          BY <4>1, GoesMoves DEF Pcs, Running, ParseAt
        <4>2. \A i \in JobIds : Moved(i, "handOn") \in Job /\ Moved(i, "fail") \in Job
          BY JobFacts DEF Moved, TypeOK, Pcs, Running, ParseAt
        <4> QED BY <2>2, <4>1, <4>2 DEF CommitChunks, TypeOK
      <3>2. file' \in Row BY <2>2, SetsTypes, RowFacts DEF CommitChunks, TypeOK
      <3> QED BY <2>2, <3>1, <3>2, SpendTypes DEF CommitChunks, Stores, Things, TypeOK
    <2>3. CASE Load(j) \/ Wipe(j) \/ ParseFails(j)
      <3>1. jobs' \in [JobIds -> Job] BY <2>3, StepMoves, GoesMoves
      <3>2. file' \in Row
        BY <2>3, SetsTypes, RowFacts DEF Load, Wipe, ParseFails, TypeOK
      <3>3. UNCHANGED <<content, stored, signals, index, purge, late>> /\ (Fault \/ Fine)
        BY <2>3 DEF Load, Wipe, ParseFails
      <3> QED BY <3>1, <3>2, <3>3, SpendTypes DEF TypeOK
    <2> QED BY <1>5, <2>1, <2>2, <2>3 DEF ParseStep
  <1>6. ASSUME NEW j \in JobIds, EmbedStep(j) PROVE TypeOK'
    <2>1. jobs' \in [JobIds -> Job] BY <1>6, StepMoves, GoesMoves DEF EmbedStep
    <2>2. file' \in Row
      BY <1>6, SetsTypes, RowFacts
      DEF EmbedStep, EmbedReads, EmbedReadsChunks, EnsureIndex, Upsert, Finish, EmbedFails, TypeOK
    <2>3. /\ stored' \subseteq Things /\ late' \subseteq Things
          /\ index' \in {"none", "created", "broken"}
          /\ UNCHANGED <<content, signals, purge>> /\ (Fault \/ Fine)
      BY <1>6 DEF EmbedStep, EmbedReads, EmbedReadsChunks, EnsureIndex, Upsert, Finish, EmbedFails,
                  Stores, Things, TypeOK
    <2> QED BY <2>1, <2>2, <2>3, SpendTypes DEF TypeOK
  <1>7. ASSUME NEW j \in JobIds, QueueStep(j) PROVE TypeOK'
    <2>1. CASE Fetch(j)
      <3>1. [kind |-> jobs[j].kind, tries |-> jobs[j].tries + 1, pc |-> "begin"] \in Job
        <4>1. jobs[j] \in Job BY DEF TypeOK
        <4>2. jobs[j].kind \in Kinds /\ jobs[j].tries + 1 \in Nat BY <4>1, JobFacts
        <4>3. "begin" \in Pcs BY DEF Pcs, Running, ScanAt
        <4> QED BY <4>2, <4>3, JobFacts
      <3> QED BY <2>1, <3>1 DEF Fetch, TypeOK
    <2>2. CASE Complete(j)
      BY <2>2, JobFacts DEF Complete, Free, TypeOK, Kinds, Pcs
    <2>3. CASE LockExpires(j)
      <3>1. jobs' \in [JobIds -> Job] BY <2>3, StepMoves, GoesMoves
      <3> QED BY <2>3, <3>1 DEF LockExpires, TypeOK
    <2> QED BY <1>7, <2>1, <2>2, <2>3 DEF QueueStep
  <1>8. CASE PurgeStep
    <2>1. CASE DeleteRow
      BY <2>1, RowFacts DEF DeleteRow, TypeOK, Purging, Row
    <2>2. CASE PurgeFails
      BY <2>2, SpendTypes DEF PurgeFails, TypeOK
    <2>3. CASE DeleteVectors \/ DeleteObject
      BY <2>3, SpendTypes DEF DeleteVectors, DeleteObject, TypeOK, Purging
    <2>4. CASE BeginPurge \/ ListChunks \/ DeleteChunks
      BY <2>4 DEF BeginPurge, ListChunks, DeleteChunks, TypeOK, Purging
    <2> QED BY <1>8, <2>1, <2>2, <2>3, <2>4 DEF PurgeStep
  <1>9. CASE WorkerCrash
    <2>1. \A i \in JobIds : Moved(i, "stale") \in Job
      BY JobFacts DEF Moved, TypeOK, Pcs
    <2>2. jobs' \in [JobIds -> Job] BY <1>9, <2>1 DEF WorkerCrash, TypeOK
    <2> QED BY <1>9, <2>2, SpendTypes DEF WorkerCrash, TypeOK
  <1>10. CASE ServerCrash
    BY <1>10, SpendTypes DEF ServerCrash, TypeOK
  <1>11. CASE UNCHANGED vars
    BY <1>11 DEF vars, TypeOK
  <1> QED BY <1>1, <1>2, <1>3, <1>4, <1>5, <1>6, <1>7, <1>8, <1>9, <1>10, <1>11 DEF Next, JobStep

\* The row, the jobs and the rest of the state are well typed, for any bounds.
THEOREM TypeCorrect == Spec => []TypeOK
  BY TypeInit, TypeNext, PTL DEF Spec

-----------------------------------------------------------------------------
(* What is infected stays out.                                             *)

\* Nothing of an infected file is stored but its object, no scan of it passes, and
\* no job but a scan is ever added.
KeptOut ==
    content = "infected" =>
        /\ stored \subseteq {"object"}
        /\ file.status \in {"uploading", "failed", "gone"}
        /\ \A j \in JobIds : jobs[j].kind \in {"none", "scan"} /\ jobs[j].pc \notin {"pass", "handOn"}

LEMMA KeptOutNext == TypeOK /\ KeptOut /\ [Next]_vars => KeptOut'
  <1> SUFFICES ASSUME TypeOK, KeptOut, Next \/ UNCHANGED vars, content = "infected", content' = "infected"
               PROVE  KeptOut'
    <2>1. ASSUME Next \/ UNCHANGED vars PROVE content' = content
      BY <2>1 DEF Next, vars, ReadSignal, EnqueueScan, SignalFails, JobStep, ScanStep, ScanBegins, Check,
        Pass, HandToParser, Condemn, RemoveObject, NoteError, ParseStep, Load, Wipe, CommitChunks,
        HandToEmbedder, ParseFails, EmbedStep, EmbedReads, EmbedReadsChunks, EnsureIndex, Upsert, Finish,
        EmbedFails, QueueStep, Fetch, Complete, LockExpires, PurgeStep, BeginPurge, ListChunks,
        DeleteVectors, DeleteChunks, DeleteRow, DeleteObject, PurgeFails, WorkerCrash, ServerCrash
    <2> QED BY <2>1 DEF KeptOut
  <1>1. ASSUME NEW s \in Signals, ReadSignal(s) \/ SignalFails(s) PROVE KeptOut'
    BY <1>1 DEF ReadSignal, SignalFails, KeptOut
  <1>2. ASSUME NEW s \in Signals, EnqueueScan(s) PROVE KeptOut'
    BY <1>2 DEF EnqueueScan, NewJob, KeptOut, TypeOK
  <1>3. ASSUME NEW j \in JobIds, ScanStep(j) PROVE KeptOut'
    <2>1. CASE ScanBegins(j)
      BY <2>1 DEF ScanBegins, Sets, Goes, Moved, Throws, KeptOut, TypeOK
    <2>2. CASE Check(j)
      BY <2>2 DEF Check, Goes, Moved, KeptOut, TypeOK
    <2>3. CASE Pass(j) \/ HandToParser(j)
      BY <2>3 DEF Pass, HandToParser, At, KeptOut
    <2>4. CASE Condemn(j)
      BY <2>4 DEF Condemn, Sets, Goes, Moved, KeptOut, TypeOK
    <2>5. CASE RemoveObject(j)
      BY <2>5 DEF RemoveObject, Goes, Moved, KeptOut, TypeOK
    <2>6. CASE NoteError(j)
      BY <2>6 DEF NoteError, Sets, Goes, Moved, Throws, KeptOut, TypeOK
    <2> QED BY <1>3, <2>1, <2>2, <2>3, <2>4, <2>5, <2>6 DEF ScanStep
  <1>4. ASSUME NEW j \in JobIds, ParseStep(j) \/ EmbedStep(j) PROVE FALSE
    <2>1. jobs[j].kind \notin {"parse", "embed"} BY DEF KeptOut
    <2> QED BY <1>4, <2>1 DEF ParseStep, Load, Wipe, CommitChunks, HandToEmbedder, ParseFails,
          EmbedStep, EmbedReads, EmbedReadsChunks, EnsureIndex, Upsert, Finish, EmbedFails, At
  <1>5. ASSUME NEW j \in JobIds, QueueStep(j) PROVE KeptOut'
    BY <1>5 DEF QueueStep, Fetch, Complete, LockExpires, Free, Goes, Moved, KeptOut, TypeOK
  <1>6. CASE PurgeStep
    <2>1. stored' \subseteq stored /\ jobs' = jobs
      BY <1>6 DEF PurgeStep, BeginPurge, ListChunks, DeleteVectors, DeleteChunks, DeleteRow, DeleteObject, PurgeFails
    <2>2. file' = file \/ DeleteRow
      BY <1>6 DEF PurgeStep, BeginPurge, ListChunks, DeleteVectors, DeleteChunks, DeleteObject, PurgeFails
    <2>3. file'.status \in {file.status, "gone"}
      BY <2>2 DEF DeleteRow, TypeOK, Row
    <2> QED BY <2>1, <2>3 DEF KeptOut
  <1>7. CASE WorkerCrash
    BY <1>7 DEF WorkerCrash, Moved, KeptOut, TypeOK
  <1>8. CASE ServerCrash \/ UNCHANGED vars
    BY <1>8 DEF ServerCrash, vars, KeptOut
  <1> QED BY <1>1, <1>2, <1>3, <1>4, <1>5, <1>6, <1>7, <1>8 DEF Next, JobStep

\* An infected file has neither chunks nor vectors, and is never handed on: not by a
\* repeated scan, not by one that finds its object removed (scan-upload.ts).
THEOREM InfectedStaysOut == Spec => []InfectedIsKeptOut
  <1>1. Init => KeptOut BY DEF Init, KeptOut, Free
  <1>2. KeptOut => InfectedIsKeptOut BY DEF KeptOut, InfectedIsKeptOut
  <1> QED BY <1>1, <1>2, TypeCorrect, KeptOutNext, PTL DEF Spec

-----------------------------------------------------------------------------
(* What is ready can be searched.                                          *)

\* Until a deletion begins, chunks and vectors stay, and whoever comes after the
\* step that wrote them has them.
Handed ==
    purge = "idle" =>
        /\ file.status = "ready" => {"chunks", "vectors"} \subseteq stored
        /\ \A j \in JobIds :
             /\ jobs[j].kind = "embed" => "chunks" \in stored
             /\ At(j, "embed", "finish") => "vectors" \in stored
             /\ At(j, "parse", "handOn") => "chunks" \in stored

LEMMA HandedNext == TypeOK /\ Handed /\ [Next]_vars => Handed'
  <1> SUFFICES ASSUME TypeOK, Handed, Next \/ UNCHANGED vars, purge' = "idle" PROVE Handed'
    BY DEF Handed
  <1>1. ASSUME NEW s \in Signals, ReadSignal(s) \/ SignalFails(s) PROVE Handed'
    BY <1>1 DEF ReadSignal, SignalFails, Handed, At
  <1>2. ASSUME NEW s \in Signals, EnqueueScan(s) PROVE Handed'
    BY <1>2 DEF EnqueueScan, NewJob, Handed, At, TypeOK
  <1>3. ASSUME NEW j \in JobIds, ScanStep(j) PROVE Handed'
    <2>1. CASE ScanBegins(j) \/ NoteError(j)
      BY <2>1 DEF ScanBegins, NoteError, Sets, Goes, Moved, Throws, Handed, At, TypeOK
    <2>2. CASE Check(j)
      BY <2>2 DEF Check, Goes, Moved, Handed, At, TypeOK
    <2>3. CASE Pass(j) \/ Condemn(j)
      BY <2>3 DEF Pass, Condemn, Sets, Goes, Moved, Handed, At, TypeOK
    <2>4. CASE HandToParser(j)
      <3>1. CASE AddsAndGoes(j, "parse", "done")
        BY <2>4, <3>1, AddsMoves DEF HandToParser, Handed, At, TypeOK, Kinds, Pcs, Running
      <3>2. CASE Goes(j, "note")
        BY <2>4, <3>2 DEF HandToParser, Goes, Moved, Handed, At, TypeOK
      <3> QED BY <2>4, <3>1, <3>2 DEF HandToParser
    <2>5. CASE RemoveObject(j)
      BY <2>5 DEF RemoveObject, Goes, Moved, Handed, At, TypeOK
    <2> QED BY <1>3, <2>1, <2>2, <2>3, <2>4, <2>5 DEF ScanStep
  <1>4. ASSUME NEW j \in JobIds, ParseStep(j) PROVE Handed'
    <2>1. CASE Load(j) \/ Wipe(j)
      BY <2>1 DEF Load, Wipe, Goes, Moved, Handed, At, TypeOK
    <2>2. CASE CommitChunks(j)
      <3>1. CASE Goes(j, "fail") /\ UNCHANGED <<file, stored, late>>
        BY <2>2, <3>1 DEF CommitChunks, Goes, Moved, Handed, At, TypeOK
      <3>2. CASE /\ Stores("chunks") /\ Sets("embedding", file.scan)
                 /\ jobs' = [i \in JobIds |->
                        IF i = j THEN Moved(i, "handOn")
                        ELSE IF At(i, "parse", "write") THEN Moved(i, "fail") ELSE jobs[i]]
        BY <2>2, <3>2 DEF CommitChunks, Stores, Sets, Moved, Handed, At, TypeOK
      <3> QED BY <2>2, <3>1, <3>2 DEF CommitChunks
    <2>3. CASE HandToEmbedder(j)
      <3>1. CASE AddsAndGoes(j, "embed", "done")
        BY <2>3, <3>1, AddsMoves DEF HandToEmbedder, Handed, At, TypeOK, Kinds, Pcs, Running
      <3>2. CASE Goes(j, "fail")
        BY <2>3, <3>2 DEF HandToEmbedder, Goes, Moved, Handed, At, TypeOK
      <3> QED BY <2>3, <3>1, <3>2 DEF HandToEmbedder
    <2>4. CASE ParseFails(j)
      BY <2>4 DEF ParseFails, Sets, Goes, Moved, Throws, Handed, At, TypeOK
    <2> QED BY <1>4, <2>1, <2>2, <2>3, <2>4 DEF ParseStep
  <1>5. ASSUME NEW j \in JobIds, EmbedStep(j) PROVE Handed'
    <2>1. CASE EmbedReads(j) \/ EmbedReadsChunks(j)
      BY <2>1 DEF EmbedReads, EmbedReadsChunks, Goes, Moved, Handed, At, TypeOK
    <2>2. CASE EnsureIndex(j)
      BY <2>2 DEF EnsureIndex, Goes, Moved, Handed, At, TypeOK
    <2>3. CASE Upsert(j)
      BY <2>3 DEF Upsert, Stores, Goes, Moved, Handed, At, TypeOK
    <2>4. CASE Finish(j)
      BY <2>4 DEF Finish, Sets, Goes, Moved, Handed, At, TypeOK
    <2>5. CASE EmbedFails(j)
      BY <2>5 DEF EmbedFails, Sets, Goes, Moved, Throws, Handed, At, TypeOK
    <2> QED BY <1>5, <2>1, <2>2, <2>3, <2>4, <2>5 DEF EmbedStep
  <1>6. ASSUME NEW j \in JobIds, QueueStep(j) PROVE Handed'
    BY <1>6 DEF QueueStep, Fetch, Complete, LockExpires, Free, Goes, Moved, Handed, At, TypeOK
  <1>7. ~PurgeStep
    BY DEF PurgeStep, BeginPurge, ListChunks, DeleteVectors, DeleteChunks, DeleteRow, DeleteObject, PurgeFails
  <1>8. CASE WorkerCrash
    BY <1>8 DEF WorkerCrash, Moved, Handed, At, TypeOK
  <1>9. CASE ServerCrash
    BY <1>9 DEF ServerCrash, Handed, At
  <1>10. CASE UNCHANGED vars
    BY <1>10 DEF vars, Handed, At
  <1> QED BY <1>1, <1>2, <1>3, <1>4, <1>5, <1>6, <1>7, <1>8, <1>9, <1>10 DEF Next, JobStep

\* A ready file has its chunks and its vectors as long as nobody deletes it, however
\* repeated scans and jobs interleave (embed-knowledge-chunks.ts).
THEOREM ReadyHasVectors == Spec => []ReadyIsSearchable
  <1>1. Init => Handed BY DEF Init, Handed, Free, At
  <1>2. Handed => ReadyIsSearchable BY DEF Handed, ReadyIsSearchable
  <1> QED BY <1>1, <1>2, TypeCorrect, HandedNext, PTL DEF Spec

-----------------------------------------------------------------------------
(* What a deletion leaves behind.                                          *)

\* Written before the deletion began, and still here.
Early(thing) == thing \in stored /\ thing \notin late

\* How far the deletion is, is how much of what was here before it is gone.
Deleting ==
    /\ Here <=> purge \notin {"object", "over"}
    /\ spent["fault"] = 0 =>
         /\ Early("vectors") => purge \in {"idle", "cut", "list", "vectors"} /\ "chunks" \in stored
         /\ Early("chunks") => purge \in {"idle", "cut", "list", "vectors", "chunks"}

\* A fault is paid for: without one afterwards there was none before.
LEMMA NoFaultBefore ==
    ASSUME TypeOK, Fault \/ Fine \/ Spend("crash", MaxCrashes), spent'["fault"] = 0
    PROVE  spent["fault"] = 0 /\ ~Fault
  BY DEF TypeOK, Fault, Fine, Spend

\* A task writes chunks or vectors, late if a deletion began, and leaves a row that
\* is gone alone.
LEMMA TaskWrites ==
    ASSUME TypeOK, Handed, NEW j \in JobIds, ScanStep(j) \/ ParseStep(j) \/ EmbedStep(j)
    PROVE  /\ purge' = purge /\ (Here' <=> Here) /\ (Fault \/ Fine)
           /\ \/ stored' \in {stored, stored \ {"object"}} /\ late' = late
              \/ Stores("chunks")
              \/ Stores("vectors") /\ (purge = "idle" => "chunks" \in stored)
  <1>1. CASE ScanStep(j)
    <2>1. Here' <=> Here
      BY <1>1 DEF ScanStep, ScanBegins, Check, Pass, HandToParser, Condemn, RemoveObject, NoteError, Sets, Here
    <2> QED BY <1>1, <2>1 DEF ScanStep, ScanBegins, Check, Pass, HandToParser, Condemn, RemoveObject, NoteError
  <1>2. CASE ParseStep(j)
    <2>1. Here' <=> Here
      BY <1>2 DEF ParseStep, Load, Wipe, CommitChunks, HandToEmbedder, ParseFails, Sets, Here
    <2> QED BY <1>2, <2>1 DEF ParseStep, Load, Wipe, CommitChunks, HandToEmbedder, ParseFails
  <1>3. CASE EmbedStep(j)
    <2>1. Here' <=> Here
      BY <1>3 DEF EmbedStep, EmbedReads, EmbedReadsChunks, EnsureIndex, Upsert, Finish, EmbedFails, Sets, Here
    <2>2. jobs[j].kind = "embed"
      BY <1>3 DEF EmbedStep, EmbedReads, EmbedReadsChunks, EnsureIndex, Upsert, Finish, EmbedFails, At
    <2>3. purge = "idle" => "chunks" \in stored BY <2>2 DEF Handed
    <2> QED BY <1>3, <2>1, <2>3 DEF EmbedStep, EmbedReads, EmbedReadsChunks, EnsureIndex, Upsert, Finish, EmbedFails
  <1> QED BY <1>1, <1>2, <1>3

LEMMA DeletingNext == TypeOK /\ Handed /\ Deleting /\ [Next]_vars => Deleting'
  <1> SUFFICES ASSUME TypeOK, Handed, Deleting, Next \/ UNCHANGED vars PROVE Deleting'
    OBVIOUS
  <1>1. ASSUME NEW s \in Signals, ReadSignal(s) \/ EnqueueScan(s) PROVE Deleting'
    BY <1>1 DEF ReadSignal, EnqueueScan, Deleting, Early, Here
  <1>2. ASSUME NEW s \in Signals, SignalFails(s) PROVE Deleting'
    <2>1. UNCHANGED <<file, stored, purge, late>> /\ Fault BY <1>2 DEF SignalFails
    <2> QED BY <2>1, NoFaultBefore DEF Deleting, Early, Here
  <1>3. ASSUME NEW j \in JobIds, ScanStep(j) \/ ParseStep(j) \/ EmbedStep(j) PROVE Deleting'
    <2>1. spent'["fault"] = 0 => spent["fault"] = 0 BY <1>3, TaskWrites, NoFaultBefore
    <2> QED BY <1>3, <2>1, TaskWrites DEF Deleting, Early, Stores
  <1>4. ASSUME NEW j \in JobIds, QueueStep(j) PROVE Deleting'
    BY <1>4 DEF QueueStep, Fetch, Complete, LockExpires, Deleting, Early, Here
  <1>5. CASE BeginPurge
    BY <1>5 DEF BeginPurge, Deleting, Early, Here
  <1>6. CASE ListChunks
    BY <1>6 DEF ListChunks, Deleting, Early, Here
  <1>7. CASE DeleteVectors
    <2>1. CASE Fault
      BY <1>7, <2>1, NoFaultBefore DEF DeleteVectors, Deleting, Early, Here
    <2>2. CASE stored' = stored \ {"vectors"} /\ Fine
      BY <1>7, <2>2 DEF DeleteVectors, Fine, Deleting, Early, Here
    <2> QED BY <1>7, <2>1, <2>2 DEF DeleteVectors
  <1>8. CASE DeleteChunks
    BY <1>8 DEF DeleteChunks, Deleting, Early, Here
  <1>9. CASE DeleteRow
    BY <1>9 DEF DeleteRow, Deleting, Early, Here, TypeOK, Row
  <1>10. CASE DeleteObject
    <2>1. spent'["fault"] = 0 => spent["fault"] = 0 BY <1>10, NoFaultBefore DEF DeleteObject
    <2> QED BY <1>10, <2>1 DEF DeleteObject, Deleting, Early, Here
  <1>11. CASE PurgeFails
    BY <1>11, NoFaultBefore DEF PurgeFails, Purging, Deleting, Early, Here
  <1>12. CASE WorkerCrash
    <2>1. spent'["fault"] = 0 => spent["fault"] = 0 BY <1>12, NoFaultBefore DEF WorkerCrash
    <2> QED BY <1>12, <2>1 DEF WorkerCrash, Deleting, Early, Here
  <1>13. CASE ServerCrash
    <2>1. spent'["fault"] = 0 => spent["fault"] = 0 BY <1>13, NoFaultBefore DEF ServerCrash
    <2> QED BY <1>13, <2>1 DEF ServerCrash, Purging, Deleting, Early, Here, TypeOK
  <1>14. CASE UNCHANGED vars
    BY <1>14 DEF vars, Deleting, Early, Here
  <1> QED BY <1>1, <1>2, <1>3, <1>4, <1>5, <1>6, <1>7, <1>8, <1>9, <1>10, <1>11, <1>12, <1>13, <1>14
      DEF Next, JobStep, PurgeStep

\* Without a failure a deletion, even one cut short and repeated, leaves only what a
\* job wrote after it began (delete-file.ts).
THEOREM OnlyLateIsLeft == Spec => []NothingLeftBehind
  <1>1. Init => Handed /\ Deleting BY DEF Init, Handed, Deleting, Early, Here, Free, At
  <1>2. TypeOK /\ Deleting => NothingLeftBehind
    <2> SUFFICES ASSUME TypeOK, Deleting, ~Here, spent["fault"] = 0
                 PROVE  stored \ {"object"} \subseteq late
      BY DEF NothingLeftBehind, TypeOK
    <2> QED BY DEF Deleting, Early, TypeOK, Things
  <1> QED BY <1>1, <1>2, TypeCorrect, HandedNext, DeletingNext, PTL DEF Spec

-----------------------------------------------------------------------------
(* What is stranded.                                                       *)

\* No restart, and at most one failure.
Calm == spent["crash"] = 0 /\ spent["fault"] <= 1

\* The jobs that will take a file on from parsing, and from embedding.  A parser that
\* failed to add its embed job has used the one failure, and will record it.
HoldsParsing(j) ==
    \/ jobs[j].kind = "scan" /\ jobs[j].pc \notin {"done", "condemn", "remove"}
    \/ jobs[j].kind = "parse" /\ jobs[j].pc \notin {"done", "handOn"}
HoldsEmbedding(j) ==
    \/ At(j, "parse", "handOn")
    \/ At(j, "parse", "fail") /\ spent["fault"] = 1
    \/ jobs[j].kind = "embed" /\ jobs[j].pc # "done"

Held ==
    Calm => /\ file.status = "parsing" => \E j \in JobIds : HoldsParsing(j)
            /\ file.status = "embedding" => \E j \in JobIds : HoldsEmbedding(j)

LEMMA CalmBefore ==
    ASSUME TypeOK, Fault \/ Fine, Calm'
    PROVE  /\ Calm /\ (Fine => spent' = spent)
           /\ Fault => spent["fault"] = 0 /\ spent'["fault"] = 1
  BY DEF TypeOK, Fault, Fine, Spend, Calm

\* One job moves, and holds what it held; the status stays, or goes where nobody need hold it.
LEMMA MoveHolds ==
    ASSUME TypeOK, Held, NEW j \in JobIds, NEW pc \in Pcs, Goes(j, pc), Fault \/ Fine,
           file'.status \in {file.status, "ready", "failed", "gone"},
           Calm' /\ file'.status = "parsing" /\ HoldsParsing(j) => HoldsParsing(j)',
           Calm' /\ file'.status = "embedding" /\ HoldsEmbedding(j) => HoldsEmbedding(j)'
    PROVE  Held'
  <1> SUFFICES ASSUME Calm' PROVE Held'
    BY DEF Held
  <1>1. Calm /\ (spent["fault"] = 1 => spent'["fault"] = 1)
    BY CalmBefore DEF Fine, Fault, Spend, TypeOK
  <1>2. \A i \in JobIds : i # j => jobs'[i] = jobs[i] BY GoesMoves
  <1>3. ASSUME file'.status = "parsing" PROVE \E i \in JobIds : HoldsParsing(i)'
    <2>1. PICK i \in JobIds : HoldsParsing(i) BY <1>1, <1>3 DEF Held
    <2>2. CASE i = j BY <2>1, <2>2, <1>3
    <2>3. CASE i # j
      <3>1. HoldsParsing(i)' BY <2>1, <2>3, <1>2 DEF HoldsParsing
      <3> QED BY <3>1
    <2> QED BY <2>2, <2>3
  <1>4. ASSUME file'.status = "embedding" PROVE \E i \in JobIds : HoldsEmbedding(i)'
    <2>1. PICK i \in JobIds : HoldsEmbedding(i) BY <1>1, <1>4 DEF Held
    <2>2. CASE i = j BY <2>1, <2>2, <1>4
    <2>3. CASE i # j
      <3>1. HoldsEmbedding(i)' BY <2>1, <2>3, <1>1, <1>2 DEF HoldsEmbedding, At
      <3> QED BY <3>1
    <2> QED BY <2>2, <2>3
  <1> QED BY <1>3, <1>4 DEF Held

\* The row stays as it is, and so does every job that holds the file.
LEMMA OthersHold ==
    ASSUME TypeOK, Held, spent' = spent, file' = file,
           \A i \in JobIds : HoldsParsing(i) => HoldsParsing(i)',
           \A i \in JobIds : HoldsEmbedding(i) => HoldsEmbedding(i)'
    PROVE  Held'
  <1> SUFFICES ASSUME Calm' PROVE Held'
    BY DEF Held
  <1>1. Calm BY DEF Calm
  <1> QED BY <1>1 DEF Held

LEMMA HeldNext == TypeOK /\ KeptOut /\ Held /\ [Next]_vars => Held'
  <1> SUFFICES ASSUME TypeOK, KeptOut, Held, Next \/ UNCHANGED vars PROVE Held'
    OBVIOUS
  <1>1. ASSUME NEW s \in Signals, ReadSignal(s) PROVE Held'
    BY <1>1 DEF ReadSignal, Held, Calm, HoldsParsing, HoldsEmbedding, At
  <1>2. ASSUME NEW s \in Signals, EnqueueScan(s) PROVE Held'
    <2>1. Place \in JobIds /\ jobs[Place].kind = "none"
      <3>1. Place \in Vacant BY <1>2 DEF EnqueueScan, Place
      <3> QED BY <3>1 DEF Vacant, Free
    <2>2. \A i \in JobIds : i # Place => jobs'[i] = jobs[i] BY <1>2, <2>1 DEF EnqueueScan, TypeOK
    <2>3. \A i \in JobIds : HoldsParsing(i) \/ HoldsEmbedding(i) => i # Place
      BY <2>1 DEF HoldsParsing, HoldsEmbedding, At
    <2>4. file' = file /\ spent' = spent BY <1>2 DEF EnqueueScan
    <2>5. \A i \in JobIds : HoldsParsing(i) => HoldsParsing(i)'
      BY <2>2, <2>3 DEF HoldsParsing
    <2>6. \A i \in JobIds : HoldsEmbedding(i) => HoldsEmbedding(i)'
      BY <2>2, <2>3, <2>4 DEF HoldsEmbedding, At
    <2> QED BY <2>4, <2>5, <2>6, OthersHold
  <1>3. ASSUME NEW s \in Signals, SignalFails(s) PROVE Held'
    <2>1. UNCHANGED <<file, jobs>> /\ Fault BY <1>3 DEF SignalFails
    <2>2. Calm' => Calm /\ spent["fault"] = 0 BY <2>1, CalmBefore
    <2> QED BY <2>1, <2>2 DEF Held, HoldsParsing, HoldsEmbedding, At
  <1>4. ASSUME NEW j \in JobIds, ScanStep(j) PROVE Held'
    <2>2. jobs[j].kind = "scan"
      BY <1>4 DEF ScanStep, ScanBegins, Check, Pass, HandToParser, Condemn, RemoveObject, NoteError, At
    <2>3. ~HoldsEmbedding(j) BY <2>2 DEF HoldsEmbedding, At
    <2>4. CASE ScanBegins(j) \/ Check(j) \/ Condemn(j) \/ RemoveObject(j) \/ NoteError(j)
      <3>1. PICK pc \in Pcs : Goes(j, pc) BY <2>4, StepMoves
      <3>2. jobs'[j].kind = "scan" /\ jobs'[j].pc = pc BY <3>1, <2>2, GoesMoves
      <3>3. Fault \/ Fine
        BY <2>4 DEF ScanBegins, Check, Condemn, RemoveObject, NoteError
      <3>4. file'.status \in {file.status, "failed"}
        BY <2>4 DEF ScanBegins, Check, Condemn, RemoveObject, NoteError, Sets
      <3>5. file'.status = "parsing" /\ HoldsParsing(j) => jobs'[j].pc \in {"check", "pass", "note", "ready"}
        BY <2>4, <2>2 DEF ScanBegins, Check, Condemn, RemoveObject, NoteError, Throws, Goes, Moved, Sets,
          HoldsParsing, KeptOut, At, TypeOK
      <3>6. file'.status = "parsing" /\ HoldsParsing(j) => HoldsParsing(j)'
        BY <3>2, <3>5 DEF HoldsParsing
      <3> QED BY <2>3, <3>1, <3>3, <3>4, <3>6, MoveHolds
    <2>5. CASE Pass(j)
      <3>1. CASE Sets("parsing", "clean") /\ Goes(j, "handOn") /\ Fine
        <4>1. file'.status \in {"parsing", "gone"} BY <3>1 DEF Sets, Here
        <4>2. jobs'[j].kind = "scan" /\ jobs'[j].pc = "handOn" BY <2>2, <3>1, GoesMoves DEF Pcs, Running, ScanAt
        <4> QED BY <4>1, <4>2 DEF Held, HoldsParsing
      <3>2. CASE file' = file /\ Goes(j, "note") /\ Fault
        <4>1. jobs'[j].kind = "scan" /\ jobs'[j].pc = "note" BY <2>2, <3>2, GoesMoves DEF Pcs, Running, ScanAt
        <4>2. HoldsParsing(j)' BY <4>1 DEF HoldsParsing
        <4> QED BY <2>3, <3>2, <4>2, MoveHolds DEF Pcs, Running, ScanAt
      <3> QED BY <2>5, <3>1, <3>2 DEF Pass
    <2>6. CASE HandToParser(j)
      <3>1. CASE AddsAndGoes(j, "parse", "done") /\ Fine
        <4>1. jobs[j].pc # "free" BY <2>6 DEF HandToParser, At
        <4>2. PICK n \in JobIds :
                /\ n # j /\ jobs[n] = Free /\ jobs'[n].kind = "parse" /\ jobs'[n].pc = "ready"
                /\ \A i \in JobIds : i # j /\ i # n => jobs'[i] = jobs[i]
          BY <3>1, <4>1, AddsMoves DEF Kinds, Pcs, Running
        <4>3. HoldsParsing(n)' BY <4>2 DEF HoldsParsing
        <4>4. ~HoldsEmbedding(n) BY <4>2 DEF HoldsEmbedding, Free, At
        <4>5. file' = file /\ spent' = spent BY <2>6, <3>1 DEF HandToParser, Fine
        <4>6. ASSUME Calm', file'.status = "embedding" PROVE \E i \in JobIds : HoldsEmbedding(i)'
          <5>1. PICK i \in JobIds : HoldsEmbedding(i) BY <4>5, <4>6 DEF Held, Calm
          <5>2. HoldsEmbedding(i)' BY <5>1, <2>3, <4>2, <4>4, <4>5 DEF HoldsEmbedding, At
          <5> QED BY <5>2
        <4> QED BY <4>3, <4>6 DEF Held
      <3>2. CASE Goes(j, "note") /\ Fault
        <4>1. jobs'[j].kind = "scan" /\ jobs'[j].pc = "note" BY <2>2, <3>2, GoesMoves DEF Pcs, Running, ScanAt
        <4>2. HoldsParsing(j)' BY <4>1 DEF HoldsParsing
        <4>3. file' = file BY <2>6 DEF HandToParser
        <4> QED BY <2>3, <3>2, <4>2, <4>3, MoveHolds DEF Pcs, Running, ScanAt
      <3> QED BY <2>6, <3>1, <3>2 DEF HandToParser
    <2> QED BY <1>4, <2>4, <2>5, <2>6 DEF ScanStep
  <1>5. ASSUME NEW j \in JobIds, ParseStep(j) PROVE Held'
    <2>1. jobs[j].kind = "parse"
      BY <1>5 DEF ParseStep, Load, Wipe, CommitChunks, HandToEmbedder, ParseFails, At
    <2>2. CASE Load(j) \/ Wipe(j) \/ ParseFails(j)
      <3>1. PICK pc \in Pcs : Goes(j, pc) BY <2>2, StepMoves
      <3>2. jobs'[j].kind = "parse" /\ jobs'[j].pc = pc BY <3>1, <2>1, GoesMoves
      <3>3. Fault \/ Fine BY <2>2 DEF Load, Wipe, ParseFails
      <3>4. file'.status \in {file.status, "failed"} BY <2>2 DEF Load, Wipe, ParseFails, Sets
      <3>5. file'.status = "parsing" => jobs'[j].pc \in {"wipe", "write", "fail", "ready"}
        BY <2>2 DEF Load, Wipe, ParseFails, Throws, Goes, Moved, Sets, Here, At, TypeOK
      <3>6. file'.status = "parsing" => HoldsParsing(j)' BY <3>2, <3>5 DEF HoldsParsing
      <3>7. HoldsEmbedding(j) => ParseFails(j) /\ spent["fault"] = 1
        BY <2>2, <2>1 DEF Load, Wipe, ParseFails, HoldsEmbedding, At
      <3>8. Calm' /\ file'.status = "embedding" => ~HoldsEmbedding(j)
        <4> SUFFICES ASSUME Calm', file'.status = "embedding", HoldsEmbedding(j) PROVE FALSE
          OBVIOUS
        <4>1. ~Fault BY <3>3, <3>7, CalmBefore
        <4>2. Sets("failed", file.scan) BY <3>7, <4>1 DEF ParseFails
        <4> QED BY <4>2 DEF Sets, Here
      <3> QED BY <3>1, <3>3, <3>4, <3>6, <3>8, MoveHolds
    <2>3. CASE CommitChunks(j)
      <3>1. CASE Goes(j, "fail") /\ Fault /\ UNCHANGED <<file, stored, late>>
        <4>1. jobs'[j].kind = "parse" /\ jobs'[j].pc = "fail" BY <2>1, <3>1, GoesMoves DEF Pcs, Running, ParseAt
        <4>2. HoldsParsing(j)' BY <4>1 DEF HoldsParsing
        <4>3. ~HoldsEmbedding(j) BY <2>3 DEF CommitChunks, HoldsEmbedding, At
        <4> QED BY <3>1, <4>2, <4>3, MoveHolds DEF Pcs, Running, ParseAt
      <3>2. CASE /\ jobs' = [i \in JobIds |->
                        IF i = j THEN Moved(i, "handOn")
                        ELSE IF At(i, "parse", "write") THEN Moved(i, "fail") ELSE jobs[i]]
                 /\ Sets("embedding", file.scan)
        <4>1. file'.status \in {"embedding", "gone"} BY <3>2 DEF Sets, Here
        <4>2. HoldsEmbedding(j)' BY <2>1, <3>2 DEF Moved, HoldsEmbedding, At
        <4> QED BY <4>1, <4>2 DEF Held
      <3> QED BY <2>3, <3>1, <3>2 DEF CommitChunks
    <2>4. CASE HandToEmbedder(j)
      <3>1. CASE AddsAndGoes(j, "embed", "done") /\ Fine
        <4>1. jobs[j].pc # "free" BY <2>4 DEF HandToEmbedder, At
        <4>2. PICK n \in JobIds :
                /\ n # j /\ jobs[n] = Free /\ jobs'[n].kind = "embed" /\ jobs'[n].pc = "ready"
                /\ \A i \in JobIds : i # j /\ i # n => jobs'[i] = jobs[i]
          BY <3>1, <4>1, AddsMoves DEF Kinds, Pcs, Running
        <4>3. HoldsEmbedding(n)' BY <4>2 DEF HoldsEmbedding
        <4>4. ~HoldsParsing(n) BY <4>2 DEF HoldsParsing, Free
        <4>5. file' = file /\ spent' = spent BY <2>4, <3>1 DEF HandToEmbedder, Fine
        <4>6. ~HoldsParsing(j) BY <2>4 DEF HandToEmbedder, HoldsParsing, At
        <4>7. ASSUME Calm', file'.status = "parsing" PROVE \E i \in JobIds : HoldsParsing(i)'
          <5>1. PICK i \in JobIds : HoldsParsing(i) BY <4>5, <4>7 DEF Held, Calm
          <5>2. HoldsParsing(i)' BY <5>1, <4>2, <4>4, <4>6 DEF HoldsParsing
          <5> QED BY <5>2
        <4> QED BY <4>3, <4>7 DEF Held
      <3>2. CASE Goes(j, "fail") /\ Fault
        <4>1. jobs'[j].kind = "parse" /\ jobs'[j].pc = "fail" BY <2>1, <3>2, GoesMoves DEF Pcs, Running, ParseAt
        <4>2. HoldsParsing(j)' BY <4>1 DEF HoldsParsing
        <4>3. Calm' => HoldsEmbedding(j)' BY <3>2, <4>1, CalmBefore DEF HoldsEmbedding, At
        <4>4. file' = file BY <2>4 DEF HandToEmbedder
        <4> QED BY <3>2, <4>2, <4>3, <4>4, MoveHolds DEF Pcs, Running, ParseAt
      <3> QED BY <2>4, <3>1, <3>2 DEF HandToEmbedder
    <2> QED BY <1>5, <2>2, <2>3, <2>4 DEF ParseStep
  <1>6. ASSUME NEW j \in JobIds, EmbedStep(j) PROVE Held'
    <2>1. jobs[j].kind = "embed"
      BY <1>6 DEF EmbedStep, EmbedReads, EmbedReadsChunks, EnsureIndex, Upsert, Finish, EmbedFails, At
    <2>2. PICK pc \in Pcs : Goes(j, pc) BY <1>6, StepMoves DEF EmbedStep
    <2>3. jobs'[j].kind = "embed" /\ jobs'[j].pc = pc BY <2>1, <2>2, GoesMoves
    <2>4. Fault \/ Fine
      BY <1>6 DEF EmbedStep, EmbedReads, EmbedReadsChunks, EnsureIndex, Upsert, Finish, EmbedFails
    <2>5. file'.status \in {file.status, "ready", "failed"}
      BY <1>6 DEF EmbedStep, EmbedReads, EmbedReadsChunks, EnsureIndex, Upsert, Finish, EmbedFails, Sets
    <2>6. file'.status = "embedding" => jobs'[j].pc # "done"
      BY <1>6 DEF EmbedStep, EmbedReads, EmbedReadsChunks, EnsureIndex, Upsert, Finish, EmbedFails,
        Throws, Goes, Moved, Sets, Here, TypeOK
    <2>7. file'.status = "embedding" => HoldsEmbedding(j)' BY <2>3, <2>6 DEF HoldsEmbedding
    <2>8. ~HoldsParsing(j) BY <2>1 DEF HoldsParsing
    <2> QED BY <2>2, <2>4, <2>5, <2>7, <2>8, MoveHolds
  <1>7. ASSUME NEW j \in JobIds, QueueStep(j) PROVE Held'
    <2>1. file' = file /\ spent' = spent
      BY <1>7 DEF QueueStep, Fetch, Complete, LockExpires
    <2>2. \A i \in JobIds : i # j => jobs'[i] = jobs[i]
      BY <1>7 DEF QueueStep, Fetch, Complete, LockExpires, Goes, TypeOK
    <2>3. \/ jobs'[j].kind = jobs[j].kind /\ jobs[j].pc \in {"ready", "stale"} /\ jobs'[j].pc \in {"begin", "ready"}
          \/ jobs[j].pc = "done"
      BY <1>7 DEF QueueStep, Fetch, Complete, LockExpires, Goes, Moved, TypeOK
    <2>4. \A i \in JobIds : HoldsParsing(i) => HoldsParsing(i)'
      BY <2>2, <2>3 DEF HoldsParsing
    <2>5. \A i \in JobIds : HoldsEmbedding(i) => HoldsEmbedding(i)'
      BY <2>1, <2>2, <2>3 DEF HoldsEmbedding, At
    <2> QED BY <2>1, <2>4, <2>5, OthersHold
  <1>8. CASE PurgeStep
    <2>1. jobs' = jobs
      BY <1>8 DEF PurgeStep, BeginPurge, ListChunks, DeleteVectors, DeleteChunks, DeleteRow, DeleteObject, PurgeFails
    <2>2. file' = file \/ file'.status = "gone"
      BY <1>8 DEF PurgeStep, BeginPurge, ListChunks, DeleteVectors, DeleteChunks, DeleteRow, DeleteObject, PurgeFails, TypeOK, Row
    <2>3. Fault \/ Fine
      BY <1>8 DEF PurgeStep, BeginPurge, ListChunks, DeleteVectors, DeleteChunks, DeleteRow, DeleteObject, PurgeFails, Fine
    <2>4. Calm' => Calm /\ (spent["fault"] = 1 => spent'["fault"] = 1)
      BY <2>3, CalmBefore
    <2> QED BY <2>1, <2>2, <2>4 DEF Held, HoldsParsing, HoldsEmbedding, At
  <1>9. CASE WorkerCrash \/ ServerCrash
    <2>1. spent'["crash"] # 0 BY <1>9 DEF WorkerCrash, ServerCrash, Spend, TypeOK
    <2> QED BY <2>1 DEF Held, Calm
  <1>10. CASE UNCHANGED vars
    BY <1>10 DEF vars, Held, Calm, HoldsParsing, HoldsEmbedding, At
  <1> QED BY <1>1, <1>2, <1>3, <1>4, <1>5, <1>6, <1>7, <1>8, <1>9, <1>10 DEF Next, JobStep

\* No single failure, and no interleaving of scans, parsers and deletions, leaves a
\* file between two jobs; a restart or a second failure can (parse-knowledge-file.ts).
THEOREM StrandedOnlyForCause == Spec => []StrandedForCause
  <1>1. Init => KeptOut /\ Held BY DEF Init, KeptOut, Held, Free
  <1>2. TypeOK /\ Held => StrandedForCause
    <2> SUFFICES ASSUME TypeOK, Held, Stranded, Calm PROVE FALSE
      BY DEF StrandedForCause, Calm, TypeOK
    <2>1. \A j \in JobIds : jobs[j].kind = "none" BY DEF Stranded, HasJob
    <2> QED BY <2>1 DEF Held, Stranded, HoldsParsing, HoldsEmbedding, At
  <1> QED BY <1>1, <1>2, TypeCorrect, KeptOutNext, HeldNext, PTL DEF Spec

-----------------------------------------------------------------------------
(* A good file, one scan, nothing fails and nobody deletes it.             *)

Undisturbed == content = "good" /\ ~Disturbed /\ ~ScannedTwice /\ purge = "idle"

\* A worker has the job or will have it; and then the row is where the job left it.
Busy(j) == jobs[j].kind # "none" /\ jobs[j].pc # "done"
OnTrack(j) ==
    \/ /\ jobs[j].kind = "scan" /\ jobs[j].pc \in {"ready", "begin", "check", "pass"}
       /\ file.status = "uploading"
    \/ /\ jobs[j].kind = "scan" /\ jobs[j].pc = "handOn"
       /\ file.status = "parsing" /\ file.scan = "clean"
    \/ /\ jobs[j].kind = "parse" /\ jobs[j].pc \in {"ready", "begin", "wipe", "write"}
       /\ file.status = "parsing" /\ file.scan = "clean"
    \/ /\ jobs[j].kind = "parse" /\ jobs[j].pc = "handOn"
       /\ file.status = "embedding" /\ "chunks" \in stored
    \/ /\ jobs[j].kind = "embed"
       /\ jobs[j].pc \in {"ready", "begin", "chunks", "index", "upsert", "finish"}
       /\ file.status = "embedding" /\ "chunks" \in stored

Announced == \E s \in Signals : signals[s] = "enqueued"

Smooth ==
    /\ file.status \notin {"failed", "gone"} /\ "object" \in stored /\ index # "broken"
    /\ \A j \in JobIds : Busy(j) => OnTrack(j)
    /\ \A i, j \in JobIds : Busy(i) /\ Busy(j) => i = j
    /\ ~Announced => file.status = "uploading" /\ \A j \in JobIds : jobs[j].kind = "none"

SmoothInv == Undisturbed => Smooth

\* What disturbs a file is not undone, and nothing fails in an undisturbed step.
LEMMA UndisturbedBefore ==
    ASSUME TypeOK, [Next]_vars, Undisturbed'
    PROVE  /\ Undisturbed /\ content' = content
           /\ ~Fault /\ ~Spend("crash", MaxCrashes)
  <1>1. spent \in [{"fault", "crash"} -> Nat] /\ spent'["fault"] + spent'["crash"] <= 0
    BY TypeNext DEF TypeOK, Undisturbed, Disturbed
  <1>2. ~Fault /\ ~Spend("crash", MaxCrashes)
    BY <1>1 DEF Fault, Spend
  <1>3. spent' = spent
    BY <1>2
    DEF Next, ReadSignal, EnqueueScan, SignalFails, JobStep, ScanStep, ScanBegins, Check, Pass,
        HandToParser, Condemn, RemoveObject, NoteError, ParseStep, Load, Wipe, CommitChunks,
        HandToEmbedder, ParseFails, EmbedStep, EmbedReads, EmbedReadsChunks, EnsureIndex, Upsert,
        Finish, EmbedFails, QueueStep, Fetch, Complete, LockExpires, PurgeStep, BeginPurge,
        ListChunks, DeleteVectors, DeleteChunks, DeleteRow, DeleteObject, PurgeFails,
        WorkerCrash, ServerCrash, Fine, vars
  <1>4. content' = content
    BY DEF Next, ReadSignal, EnqueueScan, SignalFails, JobStep, ScanStep, ScanBegins, Check, Pass,
        HandToParser, Condemn, RemoveObject, NoteError, ParseStep, Load, Wipe, CommitChunks,
        HandToEmbedder, ParseFails, EmbedStep, EmbedReads, EmbedReadsChunks, EnsureIndex, Upsert,
        Finish, EmbedFails, QueueStep, Fetch, Complete, LockExpires, PurgeStep, BeginPurge,
        ListChunks, DeleteVectors, DeleteChunks, DeleteRow, DeleteObject, PurgeFails,
        WorkerCrash, ServerCrash, vars
  <1>5. purge' = "idle" => purge = "idle"
    BY <1>2 DEF Next, ReadSignal, EnqueueScan, SignalFails, JobStep, ScanStep, ScanBegins, Check, Pass,
        HandToParser, Condemn, RemoveObject, NoteError, ParseStep, Load, Wipe, CommitChunks,
        HandToEmbedder, ParseFails, EmbedStep, EmbedReads, EmbedReadsChunks, EnsureIndex, Upsert,
        Finish, EmbedFails, QueueStep, Fetch, Complete, LockExpires, PurgeStep, BeginPurge,
        ListChunks, DeleteVectors, DeleteChunks, DeleteRow, DeleteObject, PurgeFails,
        WorkerCrash, ServerCrash, vars
  <1>6. \A s \in Signals : signals[s] = "enqueued" => signals'[s] = "enqueued"
    <2>1. CASE UNCHANGED signals
      BY <2>1
    <2>2. CASE \E s \in Signals : ReadSignal(s) \/ EnqueueScan(s) \/ SignalFails(s)
      BY <2>2 DEF ReadSignal, EnqueueScan, SignalFails, TypeOK
    <2>3. CASE \E j \in JobIds : JobStep(j)
      BY <2>1, <2>3
      DEF JobStep, ScanStep, ScanBegins, Check, Pass,
        HandToParser, Condemn, RemoveObject, NoteError, ParseStep, Load, Wipe, CommitChunks,
        HandToEmbedder, ParseFails, EmbedStep, EmbedReads, EmbedReadsChunks, EnsureIndex, Upsert,
        Finish, EmbedFails, QueueStep, Fetch, Complete, LockExpires
    <2>4. CASE PurgeStep \/ WorkerCrash \/ ServerCrash \/ UNCHANGED vars
      BY <1>2, <2>1, <2>4
      DEF PurgeStep, BeginPurge, ListChunks, DeleteVectors, DeleteChunks, DeleteRow, DeleteObject,
          PurgeFails, WorkerCrash, ServerCrash, vars
    <2> QED BY <2>1, <2>2, <2>3, <2>4 DEF Next
  <1> QED BY <1>2, <1>3, <1>4, <1>5, <1>6 DEF Undisturbed, Disturbed, ScannedTwice

\* The one busy job moves on, or is done.
LEMMA OneMoves ==
    ASSUME Smooth, NEW j \in JobIds, Busy(j), signals' = signals,
           jobs'[j].kind = jobs[j].kind,
           \A i \in JobIds : i # j => jobs'[i] = jobs[i],
           file'.status \notin {"failed", "gone"}, "object" \in stored', index' # "broken",
           jobs'[j].pc = "done" \/ OnTrack(j)'
    PROVE  Smooth'
  <1>1. Announced /\ Announced'
    BY DEF Smooth, Busy, Announced
  <1>2. \A i \in JobIds : i # j => ~Busy(i)'
    BY DEF Smooth, Busy
  <1> QED BY <1>1, <1>2 DEF Smooth, Busy

\* The one busy job adds its successor, and is done.
LEMMA OneHandsOn ==
    ASSUME TypeOK, Smooth, NEW j \in JobIds, Busy(j), NEW k \in {"parse", "embed"},
           AddsAndGoes(j, k, "done"), jobs[j].pc = "handOn",
           UNCHANGED <<file, stored, signals, index>>,
           k = "parse" => jobs[j].kind = "scan",
           k = "embed" => jobs[j].kind = "parse"
    PROVE  Smooth'
  <1>1. PICK n \in JobIds :
          /\ n # j /\ jobs[n] = Free
          /\ jobs'[n].kind = k /\ jobs'[n].pc = "ready"
          /\ jobs'[j].kind = jobs[j].kind /\ jobs'[j].pc = "done"
          /\ \A i \in JobIds : i # j /\ i # n => jobs'[i] = jobs[i]
    BY AddsMoves DEF Pcs, Running, Kinds
  <1>2. OnTrack(j)
    BY DEF Smooth
  <1>3. OnTrack(n)'
    BY <1>1, <1>2 DEF OnTrack
  <1>4. \A i \in JobIds : i # n => ~Busy(i)'
    BY <1>1 DEF Smooth, Busy
  <1>5. Announced /\ Announced'
    BY DEF Smooth, Busy, Announced
  <1> QED BY <1>3, <1>4, <1>5 DEF Smooth

LEMMA SmoothNext == TypeOK /\ SmoothInv /\ [Next]_vars => SmoothInv'
  <1> SUFFICES ASSUME TypeOK, SmoothInv, [Next]_vars, Undisturbed' PROVE Smooth'
    BY DEF SmoothInv
  <1>u. /\ Undisturbed /\ Smooth /\ content = "good"
        /\ ~Fault /\ ~Spend("crash", MaxCrashes)
    BY UndisturbedBefore DEF SmoothInv, Undisturbed
  <1>t. /\ jobs \in [JobIds -> Job] /\ signals \in [Signals -> {"idle", "read", "enqueued", "over"}]
        /\ \A j \in JobIds : Busy(j) => OnTrack(j)
    BY <1>u DEF TypeOK, Smooth
  <1>1. ASSUME NEW s \in Signals, ReadSignal(s) PROVE Smooth'
    <2>1. /\ UNCHANGED <<file, stored, jobs, index>>
          /\ signals[s] = "idle" /\ \A r \in Signals : r # s => signals'[r] = signals[r]
      BY <1>1, <1>t DEF ReadSignal
    <2>2. Announced => Announced'
      BY <2>1 DEF Announced
    <2> QED BY <1>u, <2>1, <2>2 DEF Smooth, Busy, OnTrack
  <1>2. ASSUME NEW s \in Signals, EnqueueScan(s) PROVE Smooth'
    <2>1. Place \in JobIds
      <3>1. Place \in Vacant BY <1>2 DEF EnqueueScan, Place
      <3> QED BY <3>1 DEF Vacant
    <2>2. /\ UNCHANGED <<file, stored, index>>
          /\ signals[s] = "read" /\ signals'[s] = "enqueued"
          /\ \A r \in Signals : r # s => signals'[r] = signals[r]
      BY <1>2, <1>t DEF EnqueueScan
    <2>3. ~Announced
      BY <2>2 DEF Announced, Undisturbed, ScannedTwice
    <2>4. file.status = "uploading" /\ \A j \in JobIds : jobs[j].kind = "none"
      BY <1>u, <2>3 DEF Smooth
    <2>5. /\ jobs'[Place].kind = "scan" /\ jobs'[Place].pc = "ready"
          /\ \A j \in JobIds : j # Place => jobs'[j].kind = "none"
      BY <1>2, <1>t, <2>1, <2>4 DEF EnqueueScan, NewJob
    <2>6. Announced'
      BY <2>2 DEF Announced
    <2> QED BY <1>u, <2>1, <2>2, <2>4, <2>5, <2>6 DEF Smooth, Busy, OnTrack
  <1>3. ASSUME NEW s \in Signals, SignalFails(s) PROVE Smooth'
    BY <1>u, <1>3 DEF SignalFails
  <1>4. ASSUME NEW j \in JobIds, ScanStep(j) PROVE Smooth'
    <2>1. Busy(j) /\ OnTrack(j) /\ jobs[j].kind = "scan"
      BY <1>t, <1>4 DEF ScanStep, ScanBegins, Check, Pass, HandToParser, Condemn, RemoveObject, NoteError,
        At, Busy
    <2>2. CASE ScanBegins(j)
      BY <1>u, <2>1, <2>2, GoesMoves, OneMoves
      DEF ScanBegins, At, Sets, Here, OnTrack, Smooth, Pcs, Running, ScanAt
    <2>3. CASE Check(j)
      <3>1. "object" \in stored /\ content # "infected" BY <1>u DEF Smooth
      <3> QED BY <1>u, <2>1, <2>3, <3>1, GoesMoves, OneMoves
          DEF Check, At, OnTrack, Smooth, Pcs, Running, ScanAt
    <2>4. CASE Pass(j)
      BY <1>u, <2>1, <2>4, GoesMoves, OneMoves
      DEF Pass, At, Sets, Here, OnTrack, Smooth, Pcs, Running, ScanAt
    <2>5. CASE HandToParser(j)
      BY <1>u, <2>1, <2>5, OneHandsOn DEF HandToParser, At
    <2>6. ~(Condemn(j) \/ RemoveObject(j) \/ NoteError(j))
      BY <2>1 DEF Condemn, RemoveObject, NoteError, At, OnTrack
    <2> QED BY <1>4, <2>2, <2>3, <2>4, <2>5, <2>6 DEF ScanStep
  <1>5. ASSUME NEW j \in JobIds, ParseStep(j) PROVE Smooth'
    <2>1. Busy(j) /\ OnTrack(j) /\ jobs[j].kind = "parse"
      BY <1>t, <1>5 DEF ParseStep, Load, Wipe, CommitChunks, HandToEmbedder, ParseFails, At, Busy
    <2>2. CASE Load(j)
      <3>1. "object" \in stored /\ content # "unparsable" BY <1>u DEF Smooth
      <3>2. jobs[j].pc = "begin" /\ file.status = "parsing" /\ file.scan = "clean"
        BY <2>1, <2>2 DEF Load, At, OnTrack
      <3>3. Goes(j, "wipe") /\ UNCHANGED <<file, stored, signals, index>>
        BY <1>u, <2>2, <3>1, <3>2 DEF Load
      <3> QED BY <1>u, <2>1, <3>2, <3>3, GoesMoves, OneMoves DEF OnTrack, Smooth, Pcs, Running, ParseAt
    <2>3. CASE Wipe(j)
      BY <1>u, <2>1, <2>3, GoesMoves, OneMoves DEF Wipe, At, OnTrack, Smooth, Pcs, Running, ParseAt
    <2>4. CASE CommitChunks(j)
      <3>1. /\ jobs' = [i \in JobIds |->
                          IF i = j THEN Moved(i, "handOn")
                          ELSE IF At(i, "parse", "write") THEN Moved(i, "fail") ELSE jobs[i]]
            /\ Sets("embedding", file.scan) /\ Stores("chunks")
            /\ UNCHANGED <<signals, index>>
        BY <1>u, <2>4 DEF CommitChunks
      <3>2. \A i \in JobIds : At(i, "parse", "write") => i = j
        BY <1>u, <2>1 DEF Smooth, At, Busy
      <3>3. /\ jobs'[j].kind = "parse" /\ jobs'[j].pc = "handOn"
            /\ \A i \in JobIds : i # j => jobs'[i] = jobs[i]
        BY <2>1, <3>1, <3>2 DEF Moved
      <3>4. /\ file'.status = "embedding" /\ "chunks" \in stored'
            /\ "object" \in stored' /\ index' # "broken"
        BY <1>u, <3>1 DEF Sets, Here, Stores, Smooth
      <3> QED BY <1>u, <2>1, <3>1, <3>3, <3>4, OneMoves DEF OnTrack
    <2>5. CASE HandToEmbedder(j)
      BY <1>u, <2>1, <2>5, OneHandsOn DEF HandToEmbedder, At
    <2>6. ~ParseFails(j)
      BY <2>1 DEF ParseFails, At, OnTrack
    <2> QED BY <1>5, <2>2, <2>3, <2>4, <2>5, <2>6 DEF ParseStep
  <1>6. ASSUME NEW j \in JobIds, EmbedStep(j) PROVE Smooth'
    <2>1. /\ Busy(j) /\ OnTrack(j) /\ jobs[j].kind = "embed"
          /\ file.status = "embedding" /\ "chunks" \in stored
      BY <1>t, <1>6 DEF EmbedStep, EmbedReads, EmbedReadsChunks, EnsureIndex, Upsert, Finish,
        EmbedFails, At, Busy, OnTrack
    <2>2. CASE EmbedReads(j)
      BY <1>u, <2>1, <2>2, GoesMoves, OneMoves DEF EmbedReads, At, Here, OnTrack, Smooth, Pcs, Running, EmbedAt
    <2>3. CASE EmbedReadsChunks(j)
      BY <1>u, <2>1, <2>3, GoesMoves, OneMoves DEF EmbedReadsChunks, At, OnTrack, Smooth, Pcs, Running, EmbedAt
    <2>4. CASE EnsureIndex(j)
      BY <1>u, <2>1, <2>4, GoesMoves, OneMoves DEF EnsureIndex, At, OnTrack, Smooth, Pcs, Running, EmbedAt
    <2>5. CASE Upsert(j)
      BY <1>u, <2>1, <2>5, GoesMoves, OneMoves DEF Upsert, Stores, At, OnTrack, Smooth, Pcs, Running, EmbedAt
    <2>6. CASE Finish(j)
      BY <1>u, <2>1, <2>6, GoesMoves, OneMoves DEF Finish, Sets, Here, At, Smooth, Pcs, Running, EmbedAt
    <2>7. ~EmbedFails(j)
      BY <2>1 DEF EmbedFails, At, OnTrack
    <2> QED BY <1>6, <2>2, <2>3, <2>4, <2>5, <2>6, <2>7 DEF EmbedStep
  <1>7. ASSUME NEW j \in JobIds, QueueStep(j) PROVE Smooth'
    <2>1. UNCHANGED <<file, stored, signals, index>> /\ \A i \in JobIds : i # j => jobs'[i] = jobs[i]
      BY <1>7, <1>t DEF QueueStep, Fetch, Complete, LockExpires, Goes
    <2>2. CASE Busy(j)
      <3>1. jobs[j].pc = "ready" /\ jobs'[j].kind = jobs[j].kind /\ jobs'[j].pc = "begin"
        BY <1>7, <1>t, <2>2 DEF QueueStep, Fetch, Complete, LockExpires, Busy, OnTrack
      <3>2. OnTrack(j)'
        BY <1>t, <2>1, <2>2, <3>1 DEF OnTrack
      <3> QED BY <1>u, <2>1, <2>2, <3>1, <3>2, OneMoves DEF Smooth
    <2>3. CASE ~Busy(j)
      <3>1. ~Busy(j)' /\ (jobs[j].kind = "none" => jobs'[j].kind = "none")
        BY <1>7, <1>t, <2>3 DEF QueueStep, Fetch, Complete, LockExpires, Goes, Moved, Free, Busy
      <3>2. \A i \in JobIds : Busy(i)' => Busy(i) /\ (OnTrack(i) => OnTrack(i)')
        BY <2>1, <3>1 DEF Busy, OnTrack
      <3>3. Announced' <=> Announced
        BY <2>1 DEF Announced
      <3> QED BY <1>u, <2>1, <3>1, <3>2, <3>3 DEF Smooth
    <2> QED BY <2>2, <2>3
  <1>8. CASE PurgeStep
    <2>1. purge' # "idle"
      BY <1>8 DEF PurgeStep, BeginPurge, ListChunks, DeleteVectors, DeleteChunks, DeleteRow, DeleteObject, PurgeFails
    <2> QED BY <2>1 DEF Undisturbed
  <1>9. CASE WorkerCrash \/ ServerCrash
    BY <1>u, <1>9 DEF WorkerCrash, ServerCrash
  <1>10. CASE UNCHANGED vars
    BY <1>u, <1>10 DEF vars, Smooth, Busy, OnTrack, Announced
  <1> QED BY <1>1, <1>2, <1>3, <1>4, <1>5, <1>6, <1>7, <1>8, <1>9, <1>10 DEF Next, JobStep

\* A good file that is announced once, and not deleted, never fails of itself: no
\* interleaving of its jobs makes one of them see what the others left half done.
THEOREM GoodFailsOnlyForCause == Spec => []GoodFailsForCause
  <1>1. Init => SmoothInv
    BY DEF Init, SmoothInv, Smooth, Busy, Free
  <1>2. SmoothInv => GoodFailsForCause
    BY DEF SmoothInv, Smooth, Undisturbed, GoodFailsForCause
  <1> QED BY <1>1, <1>2, TypeCorrect, SmoothNext, PTL DEF Spec

=============================================================================
