--------------------------- MODULE KnowledgeIngest ---------------------------
(***************************************************************************)
(* Ingestion of documents into the knowledge base: jobs read files, embed  *)
(* them and write the vectors to Qdrant and then the document's row to the *)
(* catalog, one write of each at a time; documents are deleted; the server *)
(* is killed and marks at its start what it had left behind                *)
(* (services/knowledge/service.py, catalog_store.py, vector_store.py,      *)
(* live_registry.py, runtime_owner.py, runtime/knowledge_manager.py).      *)
(*                                                                         *)
(* The paths of a job are ingested concurrently; a lock per path orders    *)
(* the jobs that ingest it.  Every catalog and vector call is a step of    *)
(* its own, run in a thread.                                               *)
(***************************************************************************)
EXTENDS Naturals, FiniteSets

CONSTANTS
    Path,         \* source files
    Job,          \* ingestion jobs
    Requests,     \* Requests[j]: what j may be asked for: paths, and whether it is forced
    NoRow,        \* a path without a row in the catalog
    MaxVersions,  \* bound: contents a file has
    MaxBatches,   \* batches of vectors of a long document
    Disturbances, \* which of the environment's events may happen
    MaxEvents     \* bound: disturbances in one behaviour

ASSUME FiniteAssumption == IsFiniteSet(Path) /\ IsFiniteSet(Job)
ASSUME RequestAssumption ==
    Requests \in [Job -> SUBSET [paths : SUBSET Path \ {{}}, force : BOOLEAN]]
ASSUME BoundAssumption ==
    MaxVersions \in Nat \ {0} /\ MaxBatches \in Nat \ {0} /\ MaxEvents \in Nat
\* overlap: a document is deleted while it is being ingested; reuse: the server
\* starts again under the process id it had; catalog: the write of an outcome fails.
ASSUME DisturbanceAssumption ==
    Disturbances \subseteq {"edit", "fault", "delete", "overlap", "crash", "reuse",
                      "catalog"}

Worker == Job \X Path  \* what a job does with a path
NoWorker == <<>>
Version == 1..MaxVersions
NoHash == 0
MaxIds == Cardinality(Worker)  \* a worker takes at most one

VARIABLES
    file,    \* file[p]: the version on disk
    row,     \* row[p]: id, status and content hash, or NoRow
    vectors, \* points: id of the document, batch, version
    job,     \* job[j]: its row, status none before it exists
    task,    \* task[j]: gathers its workers, excepts, or is over
    nextId,  \* ids given to documents
    lock,    \* lock[p]: the worker in _ingest_one for p
    pc,      \* pc[w]: where worker w is
    doc,     \* doc[w]: the id it uses
    seen,    \* seen[w]: the version it has read
    batch,   \* batch[w]: the next batch it writes
    outcome, \* outcome[w]: in the totals of the job
    doomed,  \* doomed[p]: id whose row is deleted and vectors not yet, or 0
    marker,  \* marker[p]: the job that was the last to mark the row
    unwritten, \* unwritten[j]: a write of an outcome of j has failed
    up,      \* the server runs
    events   \* bound

worker == <<pc, doc, seen, batch, outcome, lock>>
tasks == <<task, marker, unwritten>>
vars == <<file, row, vectors, job, task, nextId, lock, pc, doc, seen, batch, outcome,
          doomed, marker, unwritten, up, events>>

RowStatus == {"parsing", "embedding", "ready", "failed"}
ASSUME NoRowAssumption == NoRow \notin [id : Nat, status : RowStatus, hash : Nat]
JobStatus == {"none", "running", "completed", "failed"}

TypeOK ==
    /\ file \in [Path -> Version]
    /\ \A p \in Path : row[p] = NoRow \/
          row[p] \in [id : 1..MaxIds, status : RowStatus, hash : {NoHash} \cup Version]
    /\ vectors \subseteq [id : 1..MaxIds, batch : 1..MaxBatches, hash : Version]
    /\ job \in [Job -> [status : JobStatus, paths : SUBSET Path, force : BOOLEAN]]
    /\ task \in [Job -> {"none", "gather", "except", "over"}]
    /\ marker \in [Path -> Job \cup {NoRow}] /\ unwritten \in [Job -> BOOLEAN]
    /\ nextId \in 1..(MaxIds + 1)
    /\ \A p \in Path : lock[p] = NoWorker \/ lock[p] \in Worker
    /\ \A w \in Worker : lock[w[2]] = w <=>
          pc[w] \notin {"idle", "queued", "report", "done"}
    /\ pc \in [Worker -> {"idle", "queued", "look", "mark", "parse", "clear",
                          "put", "row", "fail", "report", "done"}]
    /\ doc \in [Worker -> 0..MaxIds] /\ seen \in [Worker -> {NoHash} \cup Version]
    /\ batch \in [Worker -> 0..MaxBatches]
    /\ outcome \in [Worker -> {"none", "skipped", "ingested", "failed"}]
    /\ doomed \in [Path -> 0..MaxIds]
    /\ up \in BOOLEAN /\ events \in 0..MaxEvents

Init ==
    /\ file = [p \in Path |-> 1]
    /\ row = [p \in Path |-> NoRow]
    /\ vectors = {}
    /\ job = [j \in Job |-> [status |-> "none", paths |-> {}, force |-> FALSE]]
    /\ task = [j \in Job |-> "none"]
    /\ marker = [p \in Path |-> NoRow] /\ unwritten = [j \in Job |-> FALSE]
    /\ nextId = 1
    /\ lock = [p \in Path |-> NoWorker]
    /\ pc = [w \in Worker |-> "idle"]
    /\ doc = [w \in Worker |-> 0] /\ seen = [w \in Worker |-> NoHash]
    /\ batch = [w \in Worker |-> 0] /\ outcome = [w \in Worker |-> "none"]
    /\ doomed = [p \in Path |-> 0]
    /\ up = TRUE /\ events = 0

Disturb(kind) ==
    /\ kind \in Disturbances
    /\ events < MaxEvents
    /\ events' = events + 1

\* Documents of odd versions are long: a file shrinks and grows as it is edited.
Size(v) == IF v % 2 = 1 THEN MaxBatches ELSE 1
Point(i, b, v) == [id |-> i, batch |-> b, hash |-> v]
PointsOf(i) == {x \in vectors : x.id = i}

-----------------------------------------------------------------------------
(* Jobs *)

\* The job's row is inserted and its task created; reingest_document forces.
StartIngest(j) ==
    /\ up /\ job[j].status = "none"
    /\ \E r \in Requests[j] :
          /\ job' = [job EXCEPT ![j] =
                        [status |-> "running", paths |-> r.paths, force |-> r.force]]
          /\ pc' = [w \in Worker |-> IF w[1] = j /\ w[2] \in r.paths THEN "queued" ELSE pc[w]]
    /\ task' = [task EXCEPT ![j] = "gather"]
    /\ UNCHANGED <<file, row, vectors, nextId, lock, doc, seen, batch, outcome, doomed,
                   marker, unwritten, up, events>>

\* The totals so far are written with the status running, also when the job is over.
Report(w) ==
    /\ up /\ pc[w] = "report"
    /\ job' = [job EXCEPT ![w[1]].status = "running"]
    /\ pc' = [pc EXCEPT ![w] = "done"]
    /\ UNCHANGED <<file, row, vectors, task, nextId, lock, doc, seen, batch, outcome, doomed,
                   marker, unwritten, up, events>>

\* A write of an outcome of job j fails.
Unwritten(j) ==
    /\ up /\ Disturb("catalog")
    /\ unwritten' = [unwritten EXCEPT ![j] = TRUE]
    /\ UNCHANGED <<file, row, vectors, nextId, doomed, marker, up>>

\* The first worker to raise ends the gather; the others go on.
Raise(j) == task' = [task EXCEPT ![j] = IF @ = "gather" THEN "except" ELSE @]

ReportFails(w) ==
    /\ pc[w] = "report" /\ pc' = [pc EXCEPT ![w] = "done"]
    /\ Unwritten(w[1]) /\ Raise(w[1])
    /\ UNCHANGED <<job, lock, doc, seen, batch, outcome>>

Gathered(j) ==
    task[j] = "gather" /\ \A p \in job[j].paths : pc[<<j, p>>] = "done"

Outcomes(j) == {outcome[<<j, p>>] : p \in job[j].paths}

EndTask(j, status) ==
    /\ job' = [job EXCEPT ![j].status = status]
    /\ task' = [task EXCEPT ![j] = "over"]
    /\ outcome' = [w \in Worker |-> IF w[1] = j THEN "none" ELSE outcome[w]]
    /\ UNCHANGED <<file, row, vectors, nextId, lock, pc, doc, seen, batch, doomed,
                   marker, unwritten, up, events>>

\* All paths have been through: failed when some failed and none was ingested.
FinishJob(j) ==
    /\ up /\ Gathered(j)
    /\ EndTask(j, IF "failed" \in Outcomes(j) /\ "ingested" \notin Outcomes(j)
                  THEN "failed" ELSE "completed")

FinishFails(j) ==
    /\ Gathered(j) /\ Unwritten(j) /\ Raise(j)
    /\ UNCHANGED <<job, worker>>

\* What was raised is caught: the job is written as failed ...
FailJob(j) == up /\ task[j] = "except" /\ EndTask(j, "failed")

\* ... or that cannot be written either.
FailJobFails(j) ==
    /\ task[j] = "except" /\ Unwritten(j)
    /\ task' = [task EXCEPT ![j] = "over"]
    /\ UNCHANGED <<job, worker>>

-----------------------------------------------------------------------------
(* One path of a job *)

Goto(w, l) == pc' = [pc EXCEPT ![w] = l]

\* The worker is over with its path.
Leave(w, result) ==
    /\ Goto(w, "report")
    /\ lock' = [lock EXCEPT ![w[2]] = NoWorker]
    /\ doc' = [doc EXCEPT ![w] = 0] /\ seen' = [seen EXCEPT ![w] = NoHash]
    /\ batch' = [batch EXCEPT ![w] = 0]
    /\ outcome' = [outcome EXCEPT ![w] = result]

\* Under the lock the file is read and hashed.
ReadFile(w) ==
    /\ up /\ pc[w] = "queued" /\ lock[w[2]] = NoWorker
    /\ lock' = [lock EXCEPT ![w[2]] = w]
    /\ seen' = [seen EXCEPT ![w] = file[w[2]]]
    /\ Goto(w, "look")
    /\ UNCHANGED <<file, row, vectors, job, nextId, doc, batch, outcome, doomed, up,
                   events, tasks>>

\* A ready document with this content is left alone, or touched; another keeps
\* its id.
LookUp(w) ==
    /\ up /\ pc[w] = "look"
    /\ LET r == row[w[2]] IN
          \/ /\ r # NoRow /\ r.status = "ready" /\ r.hash = seen[w]
             /\ Leave(w, IF job[w[1]].force THEN "ingested" ELSE "skipped")
             /\ UNCHANGED nextId
          \/ /\ r # NoRow /\ ~(r.status = "ready" /\ r.hash = seen[w])
             /\ doc' = [doc EXCEPT ![w] = r.id]
             /\ Goto(w, "mark")
             /\ UNCHANGED <<nextId, lock, seen, batch, outcome>>
          \/ /\ r = NoRow
             /\ doc' = [doc EXCEPT ![w] = nextId]
             /\ nextId' = nextId + 1
             /\ Goto(w, "mark")
             /\ UNCHANGED <<lock, seen, batch, outcome>>
    /\ UNCHANGED <<file, row, vectors, job, doomed, up, events, tasks>>

\* mark_document_progress reserves the row, or refreshes the one of the path;
\* the hash stays that of the content before.
Mark(w) ==
    /\ up /\ pc[w] = "mark"
    /\ row' = [row EXCEPT ![w[2]] =
           [id |-> doc[w], status |-> "parsing", hash |-> IF @ = NoRow THEN NoHash ELSE @.hash]]
    /\ marker' = [marker EXCEPT ![w[2]] = w[1]]
    /\ Goto(w, "parse")
    /\ UNCHANGED <<file, vectors, job, nextId, doc, seen, batch, outcome, lock, doomed,
                   up, events, task, unwritten>>

\* update_document_status: the row with this id, if it is still there.
SetStatus(w, s) ==
    row' = [p \in Path |->
              IF row[p] # NoRow /\ row[p].id = doc[w] THEN [row[p] EXCEPT !.status = s] ELSE row[p]]

\* The text is loaded and cut in chunks, which are embedded before the writes.
Parse(w) ==
    /\ up /\ pc[w] = "parse"
    /\ SetStatus(w, "embedding")
    /\ Goto(w, "clear")
    /\ UNCHANGED <<file, vectors, job, nextId, doc, seen, batch, outcome, lock, doomed,
                   up, events, tasks>>

\* Mutant: the vectors of the content before stay where they are.
ClearNothing(w) ==
    /\ up /\ pc[w] = "clear"
    /\ batch' = [batch EXCEPT ![w] = 1]
    /\ Goto(w, "put")
    /\ UNCHANGED <<file, row, vectors, job, nextId, doc, seen, outcome, lock, doomed, up,
                   events, tasks>>

\* Old vectors first.
ClearVectors(w) ==
    /\ up /\ pc[w] = "clear"
    /\ vectors' = vectors \ PointsOf(doc[w])
    /\ batch' = [batch EXCEPT ![w] = 1]
    /\ Goto(w, "put")
    /\ UNCHANGED <<file, row, job, nextId, doc, seen, outcome, lock, doomed, up, events, tasks>>

\* Then the new ones batch by batch; a point's id is that of its document and ord.
PutBatch(w) ==
    /\ up /\ pc[w] = "put"
    /\ vectors' = {x \in vectors : x.id # doc[w] \/ x.batch # batch[w]}
                      \cup {Point(doc[w], batch[w], seen[w])}
    /\ IF batch[w] = Size(seen[w])
       THEN Goto(w, "row") /\ UNCHANGED batch
       ELSE batch' = [batch EXCEPT ![w] = @ + 1] /\ UNCHANGED pc
    /\ UNCHANGED <<file, row, job, nextId, doc, seen, outcome, lock, doomed, up, events, tasks>>

\* Mutant: the lock is kept.
PutRowAndHold(w) ==
    /\ up /\ pc[w] = "row"
    /\ row' = [row EXCEPT ![w[2]] = [id |-> doc[w], status |-> "ready", hash |-> seen[w]]]
    /\ Goto(w, "report")
    /\ outcome' = [outcome EXCEPT ![w] = "ingested"]
    /\ UNCHANGED <<file, vectors, job, nextId, doc, seen, batch, lock, doomed, up,
                   events, tasks>>

\* Last the row: upsert_document_row finds it by the path, or inserts it.
PutRow(w) ==
    /\ up /\ pc[w] = "row"
    /\ row' = [row EXCEPT ![w[2]] = [id |-> doc[w], status |-> "ready", hash |-> seen[w]]]
    /\ Leave(w, "ingested")
    /\ UNCHANGED <<file, vectors, job, nextId, doomed, up, events, tasks>>

\* Loading, embedding or a write fails.
Fault(w) ==
    /\ up /\ pc[w] \in {"parse", "clear", "put", "row"}
    /\ Disturb("fault")
    /\ Goto(w, "fail")
    /\ UNCHANGED <<file, row, vectors, job, nextId, doc, seen, batch, outcome, lock,
                   doomed, up, tasks>>

\* The file cannot be read or the catalog fails before the row is marked.
FaultBefore(w) ==
    /\ up /\ pc[w] \in {"look", "mark"}
    /\ Disturb("fault")
    /\ Leave(w, "failed")
    /\ UNCHANGED <<file, row, vectors, job, nextId, doomed, up, tasks>>

MarkFailed(w) ==
    /\ up /\ pc[w] = "fail"
    /\ SetStatus(w, "failed")
    /\ Leave(w, "failed")
    /\ UNCHANGED <<file, vectors, job, nextId, doomed, up, events, tasks>>

\* The row stays as it is.
MarkFails(w) ==
    /\ pc[w] = "fail" /\ Unwritten(w[1])
    /\ Leave(w, "failed")
    /\ UNCHANGED <<job, task>>

-----------------------------------------------------------------------------
(* Deletion, edits, restarts *)

\* The row is deleted, then the vectors.  The lock is not taken.
DeleteRow(p) ==
    /\ up /\ row[p] # NoRow /\ doomed[p] = 0
    /\ Disturb("delete")
    /\ "overlap" \in Disturbances \/ lock[p] = NoWorker
    /\ doomed' = [doomed EXCEPT ![p] = row[p].id]
    /\ row' = [row EXCEPT ![p] = NoRow]
    /\ UNCHANGED <<file, vectors, job, nextId, worker, up, tasks>>

DeleteVectors(p) ==
    /\ up /\ doomed[p] # 0
    /\ vectors' = vectors \ PointsOf(doomed[p])
    /\ doomed' = [doomed EXCEPT ![p] = 0]
    /\ UNCHANGED <<file, row, job, nextId, worker, up, events, tasks>>

Edit(p) ==
    /\ Disturb("edit") /\ file[p] < MaxVersions
    /\ file' = [file EXCEPT ![p] = @ + 1]
    /\ UNCHANGED <<row, vectors, job, nextId, worker, doomed, up, tasks>>

\* Tasks and threads are lost with the process, also at a shutdown: a
\* cancellation is not one of the exceptions that mark a job or a row.
Crash ==
    /\ up /\ Disturb("crash")
    /\ up' = FALSE
    /\ pc' = [w \in Worker |-> "idle"]
    /\ doc' = [w \in Worker |-> 0] /\ seen' = [w \in Worker |-> NoHash]
    /\ batch' = [w \in Worker |-> 0] /\ outcome' = [w \in Worker |-> "none"]
    /\ lock' = [p \in Path |-> NoWorker]
    /\ task' = [j \in Job |-> "none"]
    /\ doomed' = [p \in Path |-> 0]
    /\ UNCHANGED <<file, row, vectors, job, nextId, marker, unwritten>>

Running == {j \in Job : job[j].status = "running"}
Abandoned == UNION {job[j].paths : j \in Running}

FailJobs ==
    job' = [j \in Job |->
              IF j \in Running THEN [job[j] EXCEPT !.status = "failed"] ELSE job[j]]

\* Mutant: the documents are not looked at.
RecoverJobsOnly == FailJobs /\ UNCHANGED row

\* recover_abandoned_work: jobs whose owner is gone have failed, and so have
\* the documents of their paths that are not ready.
Recover ==
    /\ FailJobs
    /\ row' = [p \in Path |->
                 IF p \in Abandoned /\ row[p] # NoRow /\ row[p].status # "ready"
                 THEN [row[p] EXCEPT !.status = "failed"] ELSE row[p]]

\* Mutant: nothing is recovered.
BootOnly ==
    /\ ~up /\ up' = TRUE
    /\ UNCHANGED <<row, job, file, vectors, nextId, worker, doomed, events, tasks>>

\* Only the process id of the owner's token is looked up: when it is this
\* process's own again, the jobs of the one before seem to be at work.
Boot ==
    /\ ~up /\ up' = TRUE
    /\ \/ Recover /\ UNCHANGED events
       \/ Disturb("reuse") /\ UNCHANGED <<row, job>>
    /\ UNCHANGED <<file, vectors, nextId, worker, doomed, tasks>>

-----------------------------------------------------------------------------

WorkerStep(w) ==
    \/ ReadFile(w) \/ LookUp(w) \/ Mark(w) \/ Parse(w) \/ ClearVectors(w)
    \/ PutBatch(w) \/ PutRow(w) \/ MarkFailed(w) \/ Report(w)

WorkerFails(w) == Fault(w) \/ FaultBefore(w) \/ MarkFails(w) \/ ReportFails(w)

JobStep(j) == StartIngest(j) \/ FinishJob(j) \/ FailJob(j)

Next ==
    \/ \E j \in Job : JobStep(j) \/ FinishFails(j) \/ FailJobFails(j)
    \/ \E w \in Worker : WorkerStep(w) \/ WorkerFails(w)
    \/ \E p \in Path : DeleteRow(p) \/ DeleteVectors(p) \/ Edit(p)
    \/ Crash \/ Boot

Spec == Init /\ [][Next]_vars

\* Tasks and threads go on while the server runs, and it is started again.
Fairness ==
    /\ \A w \in Worker : WF_vars(WorkerStep(w))
    /\ \A j \in Job : WF_vars(FinishJob(j)) /\ WF_vars(FailJob(j))
    /\ \A p \in Path : WF_vars(DeleteVectors(p))
    /\ WF_vars(Boot)

FairSpec == Spec /\ Fairness

-----------------------------------------------------------------------------
(* Properties *)

\* A document the catalog says is ready has the vectors of the content its hash
\* names, all of them and no others: over edits, failures in the middle of the
\* writes, jobs on the same file, deletions and restarts.  Only then may the
\* next job skip it as unchanged.
ReadyIsIndexed ==
    \A p \in Path : row[p] # NoRow /\ row[p].status = "ready" =>
        PointsOf(row[p].id) =
            {Point(row[p].id, b, row[p].hash) : b \in 1..Size(row[p].hash)}

Unsettled(p) == row[p] # NoRow /\ row[p].status \in {"parsing", "embedding"}

\* A document in the middle of an ingestion was marked by a job that the catalog
\* knows to run, so that a restart at any moment finds it, or one of whose outcomes
\* could not be written.
UnsettledIsOwned ==
    \A p \in Path : Unsettled(p) => job[marker[p]].status = "running" \/ unwritten[marker[p]]

\* In the end no job runs and no document is in the middle of an ingestion, but for
\* the jobs one of whose outcomes could not be written, and what those marked.
WorkSettles ==
    <>[](/\ \A j \in Running : unwritten[j]
         /\ \A p \in Path : Unsettled(p) => unwritten[marker[p]])

\* Comment of mark_document_progress: it reserves a row "so crash recovery can flip
\* live work to 'failed'", which looks at the paths of running jobs.
RecoveryFindsLiveWork == \A p \in Path : Unsettled(p) => p \in Abandoned
=============================================================================
