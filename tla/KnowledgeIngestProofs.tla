------------------------ MODULE KnowledgeIngestProofs ------------------------
(***************************************************************************)
(* Proofs about KnowledgeIngest, for any files, jobs, versions and         *)
(* batches: its types; and, when no document is deleted while it is being  *)
(* ingested, that a ready document has exactly the vectors of its content  *)
(* and that an unsettled one was marked by a job that says it runs, or by  *)
(* one of whose outcomes could not be written.                             *)
(***************************************************************************)
EXTENDS KnowledgeIngest, FiniteSetTheorems, TLAPS

RowRecord == [id : Nat, status : RowStatus, hash : Nat]

\* Workers that hold the lock of their path, and those that have an id.
Active == {"look", "mark", "parse", "clear", "put", "row", "fail"}
Owning == Active \ {"look"}
Written == Owning \ {"mark"}
Place == Active \cup {"idle", "queued", "report", "done"}

\* What the argument needs of the types.
Types ==
    /\ row \in [Path -> RowRecord \cup {NoRow}]
    /\ vectors \subseteq [id : Nat, batch : Nat, hash : Nat]
    /\ file \in [Path -> Version]
    /\ job \in [Job -> [status : JobStatus, paths : SUBSET Path, force : BOOLEAN]]
    /\ nextId \in Nat \ {0}
    /\ lock \in [Path -> Worker \cup {NoWorker}]
    /\ pc \in [Worker -> Place]
    /\ doc \in [Worker -> Nat] /\ seen \in [Worker -> Nat] /\ batch \in [Worker -> Nat]
    /\ doomed \in [Path -> Nat]
    /\ task \in [Job -> {"none", "gather", "except", "over"}]
    /\ marker \in [Path -> Job \cup {NoRow}]
    /\ unwritten \in [Job -> BOOLEAN]

\* A worker at work is one of its job's; one that holds its lock is alone on
\* its path; one that has looked its document up has an id.
WorkInv ==
    \A w \in Worker :
        /\ pc[w] # "idle" => job[w[1]].status # "none" /\ w[2] \in job[w[1]].paths
        /\ pc[w] \in Active => lock[w[2]] = w
        /\ doc[w] # 0 <=> pc[w] \in Owning

\* Ids in use have been given out.
Given ==
    /\ \A p \in Path : row[p] # NoRow => row[p].id # 0 /\ row[p].id < nextId
    /\ \A p \in Path : doomed[p] < nextId
    /\ \A w \in Worker : doc[w] < nextId

\* An id belongs to one path, as the id of its row or of the worker that uses it,
\* and not at the same time to a deletion that has not reached its vectors.
Apart ==
    /\ \A p, q \in Path :
          p # q /\ row[p] # NoRow /\ row[q] # NoRow => row[p].id # row[q].id
    /\ \A p \in Path, w \in Worker :
          p # w[2] /\ row[p] # NoRow /\ doc[w] # 0 => row[p].id # doc[w]
    /\ \A v, w \in Worker : v # w /\ doc[w] # 0 => doc[v] # doc[w]
    /\ \A p, q \in Path : doomed[p] # 0 /\ row[q] # NoRow => row[q].id # doomed[p]
    /\ \A p \in Path, w \in Worker : doomed[p] # 0 => doc[w] # doomed[p]

IdInv == Given /\ Apart

\* The row a worker writes to says that it is not ready.
RowInv ==
    \A w \in Worker :
        /\ pc[w] = "mark" => row[w[2]] = NoRow \/ row[w[2]].id = doc[w]
        /\ pc[w] \in Written =>
              /\ row[w[2]] # NoRow /\ row[w[2]].id = doc[w]
              /\ row[w[2]].status \in {"parsing", "embedding"}

Points(i, n, v) == {Point(i, b, v) : b \in 1..n}

\* The vectors a worker has written so far, and no others of its document.
PutInv ==
    \A w \in Worker :
        /\ pc[w] = "put" =>
              /\ batch[w] \in 1..Size(seen[w])
              /\ PointsOf(doc[w]) = Points(doc[w], batch[w] - 1, seen[w])
        /\ pc[w] = "row" => PointsOf(doc[w]) = Points(doc[w], Size(seen[w]), seen[w])

\* Nothing is at work while the server is down.
DownInv == ~up => \A w \in Worker : pc[w] = "idle"

IngestInv ==
    /\ Types /\ WorkInv /\ DownInv /\ IdInv
    /\ RowInv /\ PutInv /\ ReadyIsIndexed

-----------------------------------------------------------------------------
(* Workers and sizes *)

LEMMA WorkerParts ==
    ASSUME NEW w \in Worker
    PROVE  w[1] \in Job /\ w[2] \in Path /\ w = <<w[1], w[2]>> /\ w # NoWorker
    BY DEF Worker, NoWorker

LEMMA SizeType == \A v \in Nat : Size(v) \in Nat /\ Size(v) >= 1
    BY BoundAssumption DEF Size

\* On a path at most one worker is active.
LEMMA Alone ==
    ASSUME WorkInv, NEW v \in Worker, NEW w \in Worker,
           v[2] = w[2], pc[v] \in Active, pc[w] \in Active
    PROVE  v = w
    BY DEF WorkInv

LEMMA NoneActive ==
    ASSUME WorkInv, NEW w \in Worker, lock[w[2]] = NoWorker
    PROVE  pc[w] \notin Active
    BY WorkerParts DEF WorkInv

-----------------------------------------------------------------------------
(* What ends a job, and what a worker does last, leave the documents alone *)

Ends(j) == FinishJob(j) \/ FinishFails(j) \/ FailJob(j) \/ FailJobFails(j)

LEMMA EndsFrame ==
    ASSUME Types, NEW j \in Job, Ends(j)
    PROVE  /\ up /\ UNCHANGED <<file, row, vectors, nextId, lock, pc, doc, seen, batch,
                               doomed, marker, up>>
           /\ UNCHANGED events \/ Disturb("catalog")
           /\ \A k \in Job : /\ job'[k].paths = job[k].paths
                             /\ job'[k].status = "none" => job[k].status = "none"
<1> USE DEF Types, Unwritten, worker
<1>1. CASE FinishJob(j) \/ FailJob(j)
    BY <1>1, SMTT(30) DEF FinishJob, FailJob, EndTask
<1>2. CASE FinishFails(j) \/ FailJobFails(j)
    BY <1>2 DEF FinishFails, FailJobFails
<1> QED BY <1>1, <1>2 DEF Ends

Tells(w) == Report(w) \/ ReportFails(w)

LEMMA TellsFrame ==
    ASSUME Types, NEW w \in Worker, Tells(w)
    PROVE  /\ up /\ UNCHANGED <<file, row, vectors, nextId, lock, doc, seen, batch,
                               outcome, doomed, marker, up>>
           /\ UNCHANGED events \/ Disturb("catalog")
           /\ pc[w] = "report" /\ pc' = [pc EXCEPT ![w] = "done"]
           /\ \A k \in Job : /\ job'[k].paths = job[k].paths
                             /\ job'[k].status = "none" => job[k].status = "none"
                             /\ job[k].status = "running" => job'[k].status = "running"
<1> USE DEF Types, Unwritten
<1>1. CASE Report(w)
    BY <1>1 DEF Report
<1>2. CASE ReportFails(w)
    BY <1>2 DEF ReportFails
<1> QED BY <1>1, <1>2 DEF Tells

LEMMA MarkFailsFrame ==
    ASSUME NEW w \in Worker, MarkFails(w)
    PROVE  /\ up /\ UNCHANGED <<file, row, vectors, job, nextId, doomed, marker, task, up>>
           /\ Disturb("catalog") /\ pc[w] = "fail" /\ Leave(w, "failed")
           /\ unwritten' = [unwritten EXCEPT ![w[1]] = TRUE]
    BY DEF MarkFails, Unwritten

-----------------------------------------------------------------------------
(* Types *)

LEMMA RowUpdate ==
    ASSUME NEW r \in RowRecord, NEW s \in RowStatus
    PROVE  /\ [r EXCEPT !.status = s] \in RowRecord
           /\ [r EXCEPT !.status = s].id = r.id
           /\ [r EXCEPT !.status = s].hash = r.hash
           /\ [r EXCEPT !.status = s].status = s
           /\ r # NoRow /\ [r EXCEPT !.status = s] # NoRow
    BY NoRowAssumption DEF RowRecord

LEMMA JobUpdate ==
    ASSUME NEW r \in [status : JobStatus, paths : SUBSET Path, force : BOOLEAN],
           NEW s \in JobStatus
    PROVE  [r EXCEPT !.status = s] \in [status : JobStatus, paths : SUBSET Path, force : BOOLEAN]
    OBVIOUS

LEMMA LeaveTypes ==
    ASSUME Types, NEW w \in Worker, NEW result, Leave(w, result)
    PROVE  /\ pc' \in [Worker -> Place] /\ lock' \in [Path -> Worker \cup {NoWorker}]
           /\ doc' \in [Worker -> Nat] /\ seen' \in [Worker -> Nat]
           /\ batch' \in [Worker -> Nat]
<1>1. w[2] \in Path
    BY WorkerParts
<1> QED BY <1>1 DEF Types, Leave, Goto, NoHash, Place

LEMMA TypesStep == ASSUME Types, [Next]_vars PROVE Types'
<1> USE DEF Types, Disturb, worker, tasks, Goto, Place, Active
<1>1. ASSUME NEW j \in Job, StartIngest(j) PROVE Types'
    <2>1. PICK r \in Requests[j] :
              job' = [job EXCEPT ![j] =
                        [status |-> "running", paths |-> r.paths, force |-> r.force]]
        BY <1>1 DEF StartIngest
    <2>2. r.paths \in SUBSET Path /\ r.force \in BOOLEAN
        <3> HIDE DEF Types
        <3>1. Requests[j] \in SUBSET [paths : SUBSET Path \ {{}}, force : BOOLEAN]
            BY RequestAssumption
        <3>2. r \in [paths : SUBSET Path \ {{}}, force : BOOLEAN]
            BY <2>1, <3>1
        <3> QED BY <3>2
    <2>3. job' \in [Job -> [status : JobStatus, paths : SUBSET Path, force : BOOLEAN]]
        BY <2>1, <2>2 DEF JobStatus
    <2>4. pc' \in [Worker -> Place]
        BY <1>1 DEF StartIngest
    <2>5. task' \in [Job -> {"none", "gather", "except", "over"}]
        BY <1>1 DEF StartIngest
    <2> QED BY <1>1, <2>3, <2>4, <2>5 DEF StartIngest
<1>2. ASSUME NEW j \in Job, Ends(j) PROVE Types'
    <2>1. UNCHANGED <<file, row, vectors, nextId, lock, pc, doc, seen, batch, doomed, marker>>
        BY <1>2, EndsFrame
    <2>2. CASE \E s \in JobStatus : EndTask(j, s)
        <3>1. PICK s \in JobStatus : EndTask(j, s)
            BY <2>2
        <3>e. [job[j] EXCEPT !.status = s] \in [status : JobStatus, paths : SUBSET Path, force : BOOLEAN]
            <4>1. job[j] \in [status : JobStatus, paths : SUBSET Path, force : BOOLEAN]
                OBVIOUS
            <4> QED BY <4>1, JobUpdate
        <3>2. job' \in [Job -> [status : JobStatus, paths : SUBSET Path, force : BOOLEAN]]
            BY <3>1, <3>e DEF EndTask
        <3>3. task' \in [Job -> {"none", "gather", "except", "over"}] /\ UNCHANGED unwritten
            BY <3>1 DEF EndTask
        <3> QED BY <2>1, <3>2, <3>3
    <2>3. CASE FinishFails(j) \/ FailJobFails(j)
        <3>1. /\ job' = job /\ unwritten' \in [Job -> BOOLEAN]
              /\ task' \in [Job -> {"none", "gather", "except", "over"}]
            BY <2>3 DEF FinishFails, FailJobFails, Unwritten, Raise
        <3> QED BY <2>1, <3>1
    <2>4. FinishJob(j) \/ FailJob(j) => \E s \in JobStatus : EndTask(j, s)
        BY DEF FinishJob, FailJob, JobStatus
    <2> QED BY <1>2, <2>2, <2>3, <2>4 DEF Ends
<1>3. ASSUME NEW w \in Worker, ReadFile(w) PROVE Types'
    <2>1. file[w[2]] \in Nat
        BY WorkerParts DEF Version
    <2> QED BY <1>3, <2>1 DEF ReadFile
<1>4. ASSUME NEW w \in Worker, LookUp(w) PROVE Types'
    <2>1. w[2] \in Path
        BY WorkerParts
    <2>2. row[w[2]] # NoRow => row[w[2]].id \in Nat
        BY <2>1 DEF RowRecord
    <2>3. CASE \E result : Leave(w, result) /\ UNCHANGED nextId
        BY <1>4, <2>3, LeaveTypes DEF LookUp
    <2>4. CASE /\ doc' \in [Worker -> Nat] /\ nextId' \in Nat \ {0} /\ Goto(w, "mark")
               /\ UNCHANGED <<lock, seen, batch>>
        BY <1>4, <2>4 DEF LookUp
    <2>5. \/ \E result : Leave(w, result) /\ UNCHANGED nextId
          \/ /\ doc' \in [Worker -> Nat] /\ nextId' \in Nat \ {0} /\ Goto(w, "mark")
             /\ UNCHANGED <<lock, seen, batch>>
        BY <1>4, <2>1, <2>2 DEF LookUp
    <2> QED BY <2>3, <2>4, <2>5
<1>5. ASSUME NEW w \in Worker, Mark(w) PROVE Types'
    <2>1. w[2] \in Path
        BY WorkerParts
    <2>2. row' \in [Path -> RowRecord \cup {NoRow}]
        BY <1>5, <2>1 DEF Mark, RowRecord, RowStatus, NoHash
    <2>3. marker' \in [Path -> Job \cup {NoRow}]
        BY <1>5, <2>1, WorkerParts DEF Mark
    <2> QED BY <1>5, <2>2, <2>3 DEF Mark
<1>6. ASSUME NEW w \in Worker, Parse(w) PROVE Types'
    <2>1. row' \in [Path -> RowRecord \cup {NoRow}]
        BY <1>6, RowUpdate DEF Parse, SetStatus, RowStatus
    <2> QED BY <1>6, <2>1 DEF Parse
<1>7. ASSUME NEW w \in Worker, ClearVectors(w) PROVE Types'
    BY <1>7 DEF ClearVectors
<1>8. ASSUME NEW w \in Worker, PutBatch(w) PROVE Types'
    <2>1. Point(doc[w], batch[w], seen[w]) \in [id : Nat, batch : Nat, hash : Nat]
        BY DEF Point
    <2> QED BY <1>8, <2>1 DEF PutBatch
<1>9. ASSUME NEW w \in Worker, PutRow(w) PROVE Types'
    <2>1. w[2] \in Path
        BY WorkerParts
    <2>2. row' \in [Path -> RowRecord \cup {NoRow}]
        BY <1>9, <2>1 DEF PutRow, RowRecord, RowStatus
    <2> QED BY <1>9, <2>2, LeaveTypes DEF PutRow
<1>10. ASSUME NEW w \in Worker, MarkFailed(w) PROVE Types'
    <2>1. row' \in [Path -> RowRecord \cup {NoRow}]
        BY <1>10, RowUpdate DEF MarkFailed, SetStatus, RowStatus
    <2> QED BY <1>10, <2>1, LeaveTypes DEF MarkFailed
<1>11. ASSUME NEW w \in Worker, Tells(w) PROVE Types'
    <2>1. w[1] \in Job
        BY WorkerParts
    <2>2. job' \in [Job -> [status : JobStatus, paths : SUBSET Path, force : BOOLEAN]]
        <3>1. CASE Report(w)
            BY <2>1, <3>1, SMTT(30) DEF Report, JobStatus
        <3>2. CASE ReportFails(w)
            BY <3>2 DEF ReportFails
        <3> QED BY <1>11, <3>1, <3>2 DEF Tells
    <2>3. /\ unwritten' \in [Job -> BOOLEAN]
          /\ task' \in [Job -> {"none", "gather", "except", "over"}]
        <3>1. CASE Report(w)
            BY <3>1 DEF Report
        <3>2. CASE ReportFails(w)
            <4>1. unwritten' = [unwritten EXCEPT ![w[1]] = TRUE]
                BY <3>2 DEF ReportFails, Unwritten
            <4>2. task' = [task EXCEPT ![w[1]] = IF @ = "gather" THEN "except" ELSE @]
                BY <3>2 DEF ReportFails, Raise
            <4> QED BY <4>1, <4>2
        <3> QED BY <1>11, <3>1, <3>2 DEF Tells
    <2>4. pc' \in [Worker -> Place] /\ UNCHANGED <<file, row, vectors, nextId, lock, doc, seen,
                                                batch, doomed, marker>>
        BY <1>11, TellsFrame
    <2> QED BY <2>2, <2>3, <2>4
<1>12. ASSUME NEW w \in Worker, Fault(w) \/ FaultBefore(w) \/ MarkFails(w) PROVE Types'
    <2>1. CASE Fault(w)
        BY <2>1 DEF Fault
    <2>2. CASE FaultBefore(w)
        BY <2>2, LeaveTypes DEF FaultBefore
    <2>3. CASE MarkFails(w)
        <3>1. unwritten' \in [Job -> BOOLEAN]
            BY <2>3, MarkFailsFrame
        <3> QED BY <2>3, <3>1, LeaveTypes, MarkFailsFrame
    <2> QED BY <1>12, <2>1, <2>2, <2>3
<1>13. ASSUME NEW p \in Path, DeleteRow(p) PROVE Types'
    BY <1>13 DEF DeleteRow, RowRecord
<1>14. ASSUME NEW p \in Path, DeleteVectors(p) PROVE Types'
    BY <1>14 DEF DeleteVectors
<1>15. ASSUME NEW p \in Path, Edit(p) PROVE Types'
    BY <1>15, BoundAssumption DEF Edit, Version
<1>16. CASE Crash
    BY <1>16 DEF Crash, NoHash
<1>17. CASE Boot
    <2>1. CASE Recover
        <3>0. ASSUME NEW p \in Path, row[p] # NoRow
              PROVE  [row[p] EXCEPT !.status = "failed"] \in RowRecord
            <4>1. row[p] \in RowRecord
                BY <3>0
            <4>2. "failed" \in RowStatus
                BY DEF RowStatus
            <4> QED BY <4>1, <4>2, RowUpdate
        <3>1. row' \in [Path -> RowRecord \cup {NoRow}]
            BY <2>1, <3>0 DEF Recover
        <3>2. job' \in [Job -> [status : JobStatus, paths : SUBSET Path, force : BOOLEAN]]
            BY <2>1, SMTT(30) DEF Recover, FailJobs, JobStatus
        <3> QED BY <1>17, <3>1, <3>2 DEF Boot
    <2>2. CASE UNCHANGED <<row, job>>
        BY <1>17, <2>2 DEF Boot
    <2> QED BY <1>17, <2>1, <2>2 DEF Boot
<1>18. CASE UNCHANGED vars
    BY <1>18 DEF vars
<1> QED BY <1>1, <1>2, <1>3, <1>4, <1>5, <1>6, <1>7, <1>8, <1>9, <1>10, <1>11,
           <1>12, <1>13, <1>14, <1>15, <1>16, <1>17, <1>18
        DEF Next, WorkerStep, WorkerFails, JobStep, Ends, Tells

-----------------------------------------------------------------------------
(* Locks and ids of workers *)

LEMMA LeaveWork ==
    ASSUME Types, WorkInv, NEW w \in Worker, pc[w] \in Active, NEW result,
           Leave(w, result), UNCHANGED job
    PROVE  WorkInv'
<1>1. \A v \in Worker : v # w =>
         /\ pc'[v] = pc[v] /\ doc'[v] = doc[v]
         /\ pc[v] \in Active => lock'[v[2]] = lock[v[2]]
    BY Alone, WorkerParts DEF Leave, Goto, Types
<1>2. pc'[w] = "report" /\ doc'[w] = 0
    BY DEF Leave, Goto, Types
<1> QED BY <1>1, <1>2 DEF WorkInv, Active, Owning, Place

\* A worker that holds its lock goes on to a place that has an id.
LEMMA GoWork ==
    ASSUME Types, WorkInv, NEW w \in Worker, NEW l \in Owning,
           Goto(w, l), pc[w] \in Active, UNCHANGED <<job, lock>>,
           doc'[w] # 0, \A v \in Worker : v # w => doc'[v] = doc[v]
    PROVE  WorkInv'
    BY DEF WorkInv, Goto, Types, Active, Owning, Place

LEMMA WorkStep ==
    ASSUME Types, WorkInv, Given, [Next]_vars PROVE WorkInv'
<1> USE DEF Disturb, worker, tasks
<1>1. ASSUME NEW j \in Job, StartIngest(j) PROVE WorkInv'
    <2>1. PICK r \in Requests[j] :
              /\ job' = [job EXCEPT ![j] =
                        [status |-> "running", paths |-> r.paths, force |-> r.force]]
              /\ pc' = [w \in Worker |->
                        IF w[1] = j /\ w[2] \in r.paths THEN "queued" ELSE pc[w]]
        BY <1>1 DEF StartIngest
    <2>2. \A w \in Worker : w[1] = j => pc[w] = "idle"
        BY <1>1 DEF StartIngest, WorkInv
    <2> QED BY <1>1, <2>1, <2>2 DEF StartIngest, WorkInv, Types, Active, Owning
<1>2. ASSUME NEW j \in Job, Ends(j) PROVE WorkInv'
    BY <1>2, EndsFrame, WorkerParts DEF WorkInv
<1>3. ASSUME NEW w \in Worker, ReadFile(w) PROVE WorkInv'
    <2>1. \A v \in Worker : v[2] = w[2] => pc[v] \notin Active
        BY <1>3, NoneActive DEF ReadFile
    <2>2. w[2] \in Path
        BY WorkerParts
    <2> QED BY <1>3, <2>1, <2>2 DEF ReadFile, Goto, WorkInv, Types, Active, Owning, Place
<1>4. ASSUME NEW w \in Worker, LookUp(w) PROVE WorkInv'
    <2>1. pc[w] \in Active /\ w[2] \in Path /\ UNCHANGED job
        BY <1>4, WorkerParts DEF LookUp, Active
    <2>2. CASE \E result : Leave(w, result)
        BY <2>1, <2>2, LeaveWork
    <2>3. CASE /\ doc' = [doc EXCEPT ![w] = row[w[2]].id] /\ row[w[2]] # NoRow
               /\ Goto(w, "mark") /\ UNCHANGED lock
        <3>1. doc'[w] # 0 /\ \A v \in Worker : v # w => doc'[v] = doc[v]
            BY <2>1, <2>3 DEF Types, Given
        <3> QED BY <2>1, <2>3, <3>1, GoWork DEF Active, Owning
    <2>4. CASE /\ doc' = [doc EXCEPT ![w] = nextId] /\ Goto(w, "mark") /\ UNCHANGED lock
        <3>1. doc'[w] # 0 /\ \A v \in Worker : v # w => doc'[v] = doc[v]
            BY <2>4 DEF Types
        <3> QED BY <2>1, <2>4, <3>1, GoWork DEF Active, Owning
    <2> QED BY <1>4, <2>2, <2>3, <2>4 DEF LookUp
<1>5. ASSUME NEW w \in Worker,
             Mark(w) \/ Parse(w) \/ ClearVectors(w) \/ PutBatch(w) \/ Fault(w)
      PROVE  WorkInv'
    <2>1. pc[w] \in Owning /\ UNCHANGED <<job, lock, doc>>
        BY <1>5 DEF Mark, Parse, ClearVectors, PutBatch, Fault, Active, Owning
    <2>2. (\E l \in Owning : Goto(w, l)) \/ UNCHANGED pc
        BY <1>5 DEF Mark, Parse, ClearVectors, PutBatch, Fault, Active, Owning
    <2>3. doc[w] # 0
        BY <2>1 DEF WorkInv
    <2>4. CASE UNCHANGED pc
        BY <2>1, <2>4 DEF WorkInv
    <2>5. CASE \E l \in Owning : Goto(w, l)
        BY <2>1, <2>3, <2>5, GoWork DEF Owning
    <2> QED BY <2>2, <2>4, <2>5
<1>6. ASSUME NEW w \in Worker,
             PutRow(w) \/ MarkFailed(w) \/ FaultBefore(w) \/ MarkFails(w)
      PROVE  WorkInv'
    <2>1. pc[w] \in Active /\ UNCHANGED job /\ \E result : Leave(w, result)
        BY <1>6, MarkFailsFrame DEF PutRow, MarkFailed, FaultBefore, Active
    <2> QED BY <2>1, LeaveWork
<1>7. ASSUME NEW w \in Worker, Tells(w) PROVE WorkInv'
    <2>1. /\ pc[w] = "report" /\ pc'[w] = "done" /\ UNCHANGED <<lock, doc>>
          /\ \A v \in Worker : v # w => pc'[v] = pc[v]
        BY <1>7, TellsFrame DEF Types
    <2>2. \A k \in Job : /\ job'[k].paths = job[k].paths
                         /\ job'[k].status = "none" => job[k].status = "none"
        BY <1>7, TellsFrame
    <2>3. \A v \in Worker : pc'[v] = pc[v] \/ (pc[v] = "report" /\ pc'[v] = "done")
        BY <2>1
    <2> QED BY <2>1, <2>2, <2>3, WorkerParts DEF WorkInv, Active, Owning
<1>8. ASSUME NEW p \in Path, DeleteRow(p) \/ DeleteVectors(p) \/ Edit(p) PROVE WorkInv'
    BY <1>8 DEF DeleteRow, DeleteVectors, Edit, WorkInv
<1>9. CASE Crash
    BY <1>9 DEF Crash, WorkInv, Active, Owning
<1>10. CASE Boot
    <2>1. \A k \in Job : job'[k].paths = job[k].paths
              /\ (job[k].status # "none" => job'[k].status # "none")
        BY <1>10 DEF Boot, Recover, FailJobs, Types
    <2> QED BY <1>10, <2>1, WorkerParts DEF Boot, WorkInv
<1>11. CASE UNCHANGED vars
    BY <1>11 DEF vars, WorkInv
<1> QED BY <1>1, <1>2, <1>3, <1>4, <1>5, <1>6, <1>7, <1>8, <1>9, <1>10, <1>11
        DEF Next, WorkerStep, WorkerFails, JobStep, Ends, Tells

-----------------------------------------------------------------------------
(* Ids *)

\* Rows may change their status, documents and deletions may end.
LEMMA FewerIds ==
    ASSUME IdInv, UNCHANGED nextId,
           \A p \in Path : row'[p] # NoRow => row[p] # NoRow /\ row'[p].id = row[p].id,
           \A w \in Worker : doc'[w] = doc[w] \/ doc'[w] = 0,
           \A p \in Path : doomed'[p] = doomed[p] \/ doomed'[p] = 0,
           Types
    PROVE  IdInv'
<1>1. Given'
    BY SMTT(30) DEF IdInv, Given, Types
<1>2. Apart'
    BY DEF IdInv, Apart
<1> QED BY <1>1, <1>2 DEF IdInv

\* A row written for the document of the worker at its path.
LEMMA RowOfWorker ==
    ASSUME Types, WorkInv, IdInv, NEW w \in Worker, pc[w] \in Owning,
           UNCHANGED <<nextId, doomed>>,
           row'[w[2]].id = doc[w],
           \A p \in Path : p # w[2] => row'[p] = row[p],
           \A v \in Worker : doc'[v] = doc[v] \/ doc'[v] = 0
    PROVE  IdInv'
<1>1. w[2] \in Path /\ doc[w] # 0 /\ doc[w] < nextId
    BY WorkerParts DEF WorkInv, IdInv, Given
<1>2. \A v \in Worker : doc[v] # 0 /\ v # w => doc[v] # doc[w] /\ v[2] # w[2]
    BY Alone DEF WorkInv, IdInv, Apart, Owning
<1>3. Given'
    BY <1>1, SMTT(30) DEF IdInv, Given, Types
<1>4. Apart'
    <2>1. \A p, q \in Path :
              p # q /\ row'[p] # NoRow /\ row'[q] # NoRow => row'[p].id # row'[q].id
        BY <1>1 DEF IdInv, Apart
    <2>2. \A p \in Path, v \in Worker :
              p # v[2] /\ row'[p] # NoRow /\ doc'[v] # 0 => row'[p].id # doc'[v]
        BY <1>1, <1>2 DEF IdInv, Apart
    <2>3. \A u, v \in Worker : u # v /\ doc'[v] # 0 => doc'[u] # doc'[v]
        BY DEF IdInv, Apart
    <2>4. \A p, q \in Path : doomed'[p] # 0 /\ row'[q] # NoRow => row'[q].id # doomed'[p]
        BY <1>1 DEF IdInv, Apart
    <2>5. \A p \in Path, v \in Worker : doomed'[p] # 0 => doc'[v] # doomed'[p]
        BY DEF IdInv, Apart
    <2> QED BY <2>1, <2>2, <2>3, <2>4, <2>5 DEF Apart
<1> QED BY <1>3, <1>4 DEF IdInv

LEMMA IdStep ==
    ASSUME "overlap" \notin Disturbances, Types, WorkInv, IdInv, [Next]_vars
    PROVE  IdInv'
<1> USE DEF Disturb, worker, tasks
<1>1. ASSUME NEW j \in Job, StartIngest(j) \/ Ends(j) PROVE IdInv'
    BY <1>1, EndsFrame DEF StartIngest, IdInv, Given, Apart
<1>2. ASSUME NEW w \in Worker, ReadFile(w) \/ Tells(w) \/ ClearVectors(w)
                                 \/ PutBatch(w) \/ Fault(w)
      PROVE  IdInv'
    <2>1. UNCHANGED <<row, nextId, doc, doomed>>
        BY <1>2, TellsFrame DEF ReadFile, ClearVectors, PutBatch, Fault
    <2> QED BY <2>1 DEF IdInv, Given, Apart
<1>3. ASSUME NEW w \in Worker, LookUp(w) PROVE IdInv'
    <2>1. w[2] \in Path /\ pc[w] = "look" /\ UNCHANGED <<row, doomed>>
        BY <1>3, WorkerParts DEF LookUp
    <2>2. CASE (\E result : Leave(w, result)) /\ UNCHANGED nextId
        <3>1. \A v \in Worker : doc'[v] = doc[v] \/ doc'[v] = 0
            BY <2>2 DEF Leave, Types
        <3> QED BY <2>1, <2>2, <3>1, FewerIds
    <2>3. CASE /\ doc' = [doc EXCEPT ![w] = row[w[2]].id] /\ row[w[2]] # NoRow
               /\ UNCHANGED nextId
        <3>1. \A v \in Worker : v # w /\ doc[v] # 0 => v[2] # w[2]
            BY <2>1, Alone DEF WorkInv, Owning, Active
        <3>2. \A v \in Worker : v # w => doc'[v] = doc[v]
            BY <2>3
        <3>3. doc'[w] = row[w[2]].id
            BY <2>3 DEF Types
        <3>4. Given'
            BY <2>1, <2>3, <3>2, <3>3 DEF IdInv, Given
        <3>5. Apart'
            BY <2>1, <2>3, <3>1, <3>2, <3>3 DEF IdInv, Given, Apart
        <3> QED BY <3>4, <3>5 DEF IdInv
    <2>4. CASE doc' = [doc EXCEPT ![w] = nextId] /\ nextId' = nextId + 1
        <3>1. /\ doc'[w] = nextId
              /\ \A v \in Worker : v # w => doc'[v] = doc[v]
            BY <2>4 DEF Types
        <3>2. \A p \in Path : row[p] # NoRow => row[p].id \in Nat
            BY DEF Types, RowRecord
        <3> QED BY <2>1, <2>4, <3>1, <3>2 DEF IdInv, Given, Apart, Types
    <2> QED BY <1>3, <2>2, <2>3, <2>4 DEF LookUp
<1>4. ASSUME NEW w \in Worker, Mark(w) PROVE IdInv'
    <2>1. row'[w[2]].id = doc[w] /\ \A p \in Path : p # w[2] => row'[p] = row[p]
        BY <1>4, WorkerParts DEF Mark, Types
    <2>2. pc[w] \in Owning
        BY <1>4 DEF Mark, Owning, Active
    <2> QED BY <1>4, <2>1, <2>2, RowOfWorker DEF Mark
<1>5. ASSUME NEW w \in Worker, PutRow(w) PROVE IdInv'
    <2>1. row'[w[2]].id = doc[w] /\ \A p \in Path : p # w[2] => row'[p] = row[p]
        BY <1>5, WorkerParts DEF PutRow, Types
    <2>2. pc[w] \in Owning /\ \A v \in Worker : doc'[v] = doc[v] \/ doc'[v] = 0
        BY <1>5 DEF PutRow, Leave, Owning, Active, Types
    <2> QED BY <1>5, <2>1, <2>2, RowOfWorker DEF PutRow
<1>6. ASSUME NEW w \in Worker, Parse(w) \/ MarkFailed(w) PROVE IdInv'
    <2>1. \A p \in Path : row'[p] # NoRow => row[p] # NoRow /\ row'[p].id = row[p].id
        <3>1. PICK s \in RowStatus : SetStatus(w, s)
            BY <1>6 DEF Parse, MarkFailed, RowStatus
        <3> QED BY <3>1, RowUpdate DEF SetStatus, Types
    <2>2. \A v \in Worker : doc'[v] = doc[v] \/ doc'[v] = 0
        BY <1>6 DEF Parse, MarkFailed, Leave, Types
    <2> QED BY <1>6, <2>1, <2>2, FewerIds DEF Parse, MarkFailed
<1>7. ASSUME NEW w \in Worker, FaultBefore(w) \/ MarkFails(w) PROVE IdInv'
    <2>1. \A v \in Worker : doc'[v] = doc[v] \/ doc'[v] = 0
        BY <1>7, MarkFailsFrame DEF FaultBefore, Leave, Types
    <2>2. UNCHANGED <<row, nextId, doomed>>
        BY <1>7, MarkFailsFrame DEF FaultBefore
    <2> QED BY <2>1, <2>2, FewerIds
<1>8. ASSUME NEW p \in Path, DeleteRow(p) PROVE IdInv'
    <2>1. row[p] # NoRow /\ lock[p] = NoWorker
        BY <1>8 DEF DeleteRow
    <2>2. \A w \in Worker : doc[w] # 0 => w[2] # p
        BY <2>1, NoneActive DEF WorkInv, Owning
    <2>3. row'[p] = NoRow /\ \A q \in Path : q # p => row'[q] = row[q]
        BY <1>8 DEF DeleteRow, Types
    <2>4. doomed'[p] = row[p].id /\ \A q \in Path : q # p => doomed'[q] = doomed[q]
        BY <1>8 DEF DeleteRow, Types
    <2>5. UNCHANGED <<doc, nextId>>
        BY <1>8 DEF DeleteRow
    <2>6. Given'
        BY <2>1, <2>3, <2>4, <2>5 DEF IdInv, Given
    <2>7. Apart'
        <3>1. \A q, r \in Path :
                  doomed'[q] # 0 /\ row'[r] # NoRow => row'[r].id # doomed'[q]
            BY <2>1, <2>3, <2>4 DEF IdInv, Apart
        <3>2. \A q \in Path, w \in Worker : doomed'[q] # 0 => doc'[w] # doomed'[q]
            BY <2>1, <2>2, <2>4, <2>5 DEF IdInv, Given, Apart
        <3> QED BY <2>3, <2>5, <3>1, <3>2 DEF IdInv, Apart
    <2> QED BY <2>6, <2>7 DEF IdInv
<1>9. ASSUME NEW p \in Path, DeleteVectors(p) PROVE IdInv'
    <2>1. \A q \in Path : doomed'[q] = doomed[q] \/ doomed'[q] = 0
        BY <1>9 DEF DeleteVectors, Types
    <2> QED BY <1>9, <2>1, FewerIds DEF DeleteVectors
<1>10. ASSUME NEW p \in Path, Edit(p) PROVE IdInv'
    BY <1>10 DEF Edit, IdInv, Given, Apart
<1>11. CASE Crash
    <2>1. /\ \A w \in Worker : doc'[w] = 0
          /\ \A p \in Path : doomed'[p] = 0
        BY <1>11 DEF Crash
    <2> QED BY <1>11, <2>1, FewerIds DEF Crash
<1>12. CASE Boot
    <2>1. \A p \in Path : row'[p] # NoRow => row[p] # NoRow /\ row'[p].id = row[p].id
        <3>1. CASE Recover
            BY <3>1, RowUpdate DEF Recover, Types, RowStatus
        <3>2. CASE UNCHANGED row
            BY <3>2
        <3> QED BY <1>12, <3>1, <3>2 DEF Boot
    <2> QED BY <1>12, <2>1, FewerIds DEF Boot
<1>13. CASE UNCHANGED vars
    BY <1>13 DEF vars, IdInv, Given, Apart
<1> QED BY <1>1, <1>2, <1>3, <1>4, <1>5, <1>6, <1>7, <1>8, <1>9, <1>10, <1>11,
           <1>12, <1>13 DEF Next, WorkerStep, WorkerFails, JobStep, Ends, Tells

-----------------------------------------------------------------------------
(* Rows of workers *)

LEMMA DownStep == ASSUME Types, DownInv, [Next]_vars PROVE DownInv'
<1>1. ASSUME NEW w \in Worker, WorkerStep(w) \/ WorkerFails(w)
      PROVE  up /\ up' = up
    BY <1>1, TellsFrame, MarkFailsFrame
    DEF WorkerStep, WorkerFails, ReadFile, LookUp, Mark, Parse, ClearVectors, PutBatch, PutRow,
        MarkFailed, Tells, Fault, FaultBefore
<1>2. ASSUME NEW j \in Job, StartIngest(j) \/ Ends(j) PROVE up /\ up' = up
    BY <1>2, EndsFrame DEF StartIngest
<1>3. ASSUME NEW p \in Path, DeleteRow(p) \/ DeleteVectors(p) \/ Edit(p) PROVE DownInv'
    BY <1>3 DEF DeleteRow, DeleteVectors, Edit, worker, DownInv
<1>4. CASE Crash \/ Boot
    BY <1>4 DEF Crash, Boot, DownInv
<1>5. CASE UNCHANGED vars
    BY <1>5 DEF vars, DownInv
<1> QED BY <1>1, <1>2, <1>3, <1>4, <1>5 DEF Next, JobStep, Ends, DownInv

\* Workers that have an id are on different paths and have different ids.
LEMMA Others ==
    ASSUME WorkInv, IdInv, NEW v \in Worker, NEW w \in Worker, v # w,
           pc[v] \in Owning, pc[w] \in Owning
    PROVE  v[2] # w[2] /\ doc[v] # doc[w] /\ doc[v] # 0 /\ doc[w] # 0
    BY Alone DEF WorkInv, IdInv, Apart, Owning

\* The status of a worker's document is that of the row of its path.
LEMMA StatusOfOne ==
    ASSUME Types, WorkInv, IdInv, RowInv, NEW w \in Worker, pc[w] \in Written,
           NEW s \in RowStatus, SetStatus(w, s)
    PROVE  /\ row'[w[2]] # NoRow /\ row'[w[2]].id = doc[w] /\ row'[w[2]].status = s
           /\ \A p \in Path : p # w[2] => row'[p] = row[p]
<1>1. w[2] \in Path /\ doc[w] # 0
    BY WorkerParts DEF WorkInv, Written
<1>2. row[w[2]] \in RowRecord /\ row[w[2]] # NoRow /\ row[w[2]].id = doc[w]
    BY <1>1 DEF RowInv, Types
<1>3. \A p \in Path : p # w[2] /\ row[p] # NoRow => row[p].id # doc[w]
    BY <1>1 DEF IdInv, Apart
<1>4. row'[w[2]] = [row[w[2]] EXCEPT !.status = s]
    BY <1>1, <1>2 DEF SetStatus
<1>5. /\ row'[w[2]] # NoRow /\ row'[w[2]].id = doc[w] /\ row'[w[2]].status = s
    BY <1>2, <1>4, RowUpdate
<1>6. \A p \in Path : p # w[2] => row'[p] = row[p]
    BY <1>3 DEF SetStatus
<1> QED BY <1>5, <1>6

\* A step of worker w: the others and their rows stay as they are.
LEMMA RowOthers ==
    ASSUME Types, WorkInv, IdInv, RowInv, NEW w \in Worker, pc[w] \in Owning \cup {"look"},
           \A v \in Worker : v # w => pc'[v] = pc[v] /\ doc'[v] = doc[v],
           \A p \in Path : p # w[2] => row'[p] = row[p],
           pc'[w] = "mark" => row'[w[2]] = NoRow \/ row'[w[2]].id = doc'[w],
           pc'[w] \in Written =>
              /\ row'[w[2]] # NoRow /\ row'[w[2]].id = doc'[w]
              /\ row'[w[2]].status \in {"parsing", "embedding"}
    PROVE  RowInv'
<1>1. \A v \in Worker : v # w /\ pc[v] \in Owning => v[2] # w[2]
    BY Alone DEF Owning, Active
<1> QED BY <1>1, WorkerParts DEF RowInv, Written, Owning, Active

LEMMA RowStep ==
    ASSUME "overlap" \notin Disturbances, Types, WorkInv, DownInv, IdInv, RowInv, [Next]_vars
    PROVE  RowInv'
<1> USE DEF Disturb, worker, tasks, Goto
<1>1. ASSUME NEW j \in Job, StartIngest(j) \/ Ends(j) PROVE RowInv'
    <2>1. /\ \A w \in Worker : pc'[w] \in {"queued", "idle"} \/ pc'[w] = pc[w]
          /\ UNCHANGED <<row, doc>>
        BY <1>1, EndsFrame DEF StartIngest
    <2> QED BY <2>1 DEF RowInv, Written, Owning, Active
<1>2. ASSUME NEW w \in Worker, ReadFile(w) \/ Tells(w) PROVE RowInv'
    <2>1. /\ pc'[w] \in {"look", "done"} /\ \A v \in Worker : v # w => pc'[v] = pc[v]
          /\ UNCHANGED <<row, doc>>
        BY <1>2, TellsFrame DEF ReadFile, Types
    <2> QED BY <2>1 DEF RowInv, Written, Owning, Active
<1>3. ASSUME NEW w \in Worker, LookUp(w) PROVE RowInv'
    <2>1. /\ \A v \in Worker : v # w => pc'[v] = pc[v] /\ doc'[v] = doc[v]
          /\ pc[w] = "look" /\ UNCHANGED row
        BY <1>3 DEF LookUp, Leave, Types
    <2>2. \/ pc'[w] = "report"
          \/ pc'[w] = "mark" /\ (row[w[2]] = NoRow \/ row[w[2]].id = doc'[w])
        BY <1>3 DEF LookUp, Leave, Types
    <2> QED BY <2>1, <2>2, RowOthers DEF Written, Owning, Active
<1>4. ASSUME NEW w \in Worker, Mark(w) PROVE RowInv'
    <2>1. /\ \A v \in Worker : v # w => pc'[v] = pc[v] /\ doc'[v] = doc[v]
          /\ \A p \in Path : p # w[2] => row'[p] = row[p]
          /\ pc[w] = "mark" /\ pc'[w] = "parse" /\ doc'[w] = doc[w]
        BY <1>4 DEF Mark, Types
    <2>2. row'[w[2]].id = doc[w] /\ row'[w[2]].status = "parsing"
        BY <1>4, WorkerParts DEF Mark, Types
    <2>3. row'[w[2]] \in RowRecord
        BY <1>4, WorkerParts DEF Mark, Types, RowRecord, RowStatus, NoHash
    <2> QED BY <2>1, <2>2, <2>3, RowOthers, NoRowAssumption DEF RowRecord, Owning, Active
<1>5. ASSUME NEW w \in Worker, Parse(w) PROVE RowInv'
    <2>1. /\ \A v \in Worker : v # w => pc'[v] = pc[v] /\ doc'[v] = doc[v]
          /\ pc[w] = "parse" /\ pc'[w] = "clear" /\ doc'[w] = doc[w]
          /\ SetStatus(w, "embedding")
        BY <1>5 DEF Parse, Types
    <2>2. pc[w] \in Written /\ pc[w] \in Owning /\ "embedding" \in RowStatus
        BY <2>1 DEF Written, Owning, Active, RowStatus
    <2> QED BY <2>1, <2>2, StatusOfOne, RowOthers
<1>6. ASSUME NEW w \in Worker, ClearVectors(w) \/ PutBatch(w) \/ Fault(w) PROVE RowInv'
    <2>1. /\ \A v \in Worker : v # w => pc'[v] = pc[v]
          /\ pc[w] \in Written /\ pc'[w] \in Written /\ UNCHANGED <<row, doc>>
        BY <1>6 DEF ClearVectors, PutBatch, Fault, Types, Written, Owning, Active
    <2> QED BY <2>1 DEF RowInv, Written
<1>7. ASSUME NEW w \in Worker,
             PutRow(w) \/ MarkFailed(w) \/ FaultBefore(w) \/ MarkFails(w)
      PROVE  RowInv'
    <2>1. /\ \A v \in Worker : v # w => pc'[v] = pc[v] /\ doc'[v] = doc[v]
          /\ pc[w] \in Owning \cup {"look"} /\ pc'[w] = "report"
        BY <1>7, MarkFailsFrame
        DEF PutRow, MarkFailed, FaultBefore, Leave, Types, Owning, Active
    <2>2. CASE PutRow(w) \/ FaultBefore(w) \/ MarkFails(w)
        <3>1. \A p \in Path : p # w[2] => row'[p] = row[p]
            BY <2>2, MarkFailsFrame DEF PutRow, FaultBefore, Types
        <3> QED BY <2>1, <3>1, RowOthers DEF Written, Owning, Active
    <2>3. CASE MarkFailed(w)
        <3>1. pc[w] \in Written /\ "failed" \in RowStatus /\ SetStatus(w, "failed")
            BY <2>3 DEF MarkFailed, Written, Owning, Active, RowStatus
        <3>2. \A p \in Path : p # w[2] => row'[p] = row[p]
            BY <3>1, StatusOfOne
        <3> QED BY <2>1, <3>2, RowOthers DEF Written, Owning, Active
    <2> QED BY <1>7, <2>2, <2>3
<1>8. ASSUME NEW p \in Path, DeleteRow(p) PROVE RowInv'
    <2>1. lock[p] = NoWorker /\ UNCHANGED <<pc, doc>>
          /\ \A q \in Path : q # p => row'[q] = row[q]
        BY <1>8 DEF DeleteRow, Types
    <2>2. \A w \in Worker : pc[w] \in Owning => w[2] # p
        BY <2>1, NoneActive DEF Owning
    <2> QED BY <2>1, <2>2, WorkerParts DEF RowInv, Written, Owning, Active
<1>9. ASSUME NEW p \in Path, DeleteVectors(p) \/ Edit(p) PROVE RowInv'
    BY <1>9 DEF DeleteVectors, Edit, RowInv
<1>10. CASE Crash
    BY <1>10 DEF Crash, RowInv, Written, Owning, Active
<1>11. CASE Boot
    BY <1>11 DEF Boot, DownInv, RowInv, Written, Owning, Active
<1>12. CASE UNCHANGED vars
    BY <1>12 DEF vars, RowInv
<1> QED BY <1>1, <1>2, <1>3, <1>4, <1>5, <1>6, <1>7, <1>8, <1>9, <1>10, <1>11, <1>12
        DEF Next, WorkerStep, WorkerFails, JobStep, Ends, Tells

-----------------------------------------------------------------------------
(* Vectors *)

\* The vectors of document i among those in V.
PointsIn(V, i) == {x \in V : x.id = i}

LEMMA RemovePoints ==
    ASSUME NEW V, NEW d, NEW i
    PROVE  PointsIn(V \ PointsIn(V, d), i) = IF i = d THEN {} ELSE PointsIn(V, i)
    BY DEF PointsIn

LEMMA AddPoint ==
    ASSUME NEW V, NEW d, NEW b, NEW h, NEW i
    PROVE  LET W == {x \in V : x.id # d \/ x.batch # b} \cup {Point(d, b, h)}
           IN  /\ i # d => PointsIn(W, i) = PointsIn(V, i)
               /\ PointsIn(W, d) = {x \in PointsIn(V, d) : x.batch # b} \cup {Point(d, b, h)}
    BY DEF PointsIn, Point

LEMMA NextPoint ==
    ASSUME NEW d, NEW h, NEW b \in Nat \ {0}
    PROVE  {x \in Points(d, b - 1, h) : x.batch # b} \cup {Point(d, b, h)} = Points(d, b, h)
<1>1. \A c \in 1..(b - 1) : c # b
    OBVIOUS
<1>2. 1..b = 1..(b - 1) \cup {b}
    OBVIOUS
<1> QED BY <1>1, <1>2 DEF Points, Point

LEMMA NoPoints == \A d, h : Points(d, 0, h) = {}
    BY DEF Points

\* A step that leaves the documents of ready rows and of other workers alone.
LEMMA PutOthers ==
    ASSUME Types, WorkInv, IdInv, PutInv, NEW w \in Worker,
           pc[w] \in Owning \cup {"look"},
           \A v \in Worker : v # w =>
              /\ pc'[v] = pc[v] /\ doc'[v] = doc[v]
              /\ seen'[v] = seen[v] /\ batch'[v] = batch[v],
           pc[w] \in Owning => \A i : i # doc[w] => PointsIn(vectors', i) = PointsIn(vectors, i),
           pc[w] = "look" => UNCHANGED vectors,
           pc'[w] = "put" =>
              /\ batch'[w] \in 1..Size(seen'[w])
              /\ PointsIn(vectors', doc'[w]) = Points(doc'[w], batch'[w] - 1, seen'[w]),
           pc'[w] = "row" =>
              PointsIn(vectors', doc'[w]) = Points(doc'[w], Size(seen'[w]), seen'[w])
    PROVE  PutInv'
<1>1. \A v \in Worker : v # w /\ pc[v] \in Owning => PointsIn(vectors', doc[v]) = PointsIn(vectors, doc[v])
    BY Others
<1> QED BY <1>1 DEF PutInv, PointsOf, PointsIn, Owning, Active

LEMMA PutStep ==
    ASSUME Types, WorkInv, IdInv, PutInv, [Next]_vars PROVE PutInv'
<1> USE DEF Disturb, worker, tasks, Goto
<1>1. ASSUME NEW j \in Job, StartIngest(j) \/ Ends(j) PROVE PutInv'
    <2>1. /\ \A w \in Worker : pc'[w] \in {"queued", "idle"} \/ pc'[w] = pc[w]
          /\ UNCHANGED <<vectors, doc, seen, batch>>
        BY <1>1, EndsFrame DEF StartIngest
    <2> QED BY <2>1 DEF PutInv, PointsOf
<1>2. ASSUME NEW w \in Worker, ReadFile(w) \/ Tells(w) PROVE PutInv'
    <2>1. /\ pc'[w] \in {"look", "done"} /\ UNCHANGED <<vectors, doc, batch>>
          /\ \A v \in Worker : v # w => pc'[v] = pc[v] /\ seen'[v] = seen[v]
        BY <1>2, TellsFrame DEF ReadFile, Types
    <2> QED BY <2>1 DEF PutInv, PointsOf
<1>3. ASSUME NEW w \in Worker, LookUp(w) \/ Mark(w) \/ Parse(w) \/ Fault(w) PROVE PutInv'
    <2>1. /\ pc'[w] \notin {"put", "row"} /\ UNCHANGED vectors
          /\ \A v \in Worker : v # w =>
              /\ pc'[v] = pc[v] /\ doc'[v] = doc[v]
              /\ seen'[v] = seen[v] /\ batch'[v] = batch[v]
        BY <1>3 DEF LookUp, Mark, Parse, Fault, Leave, Types
    <2> QED BY <2>1 DEF PutInv, PointsOf
<1>4. ASSUME NEW w \in Worker,
             PutRow(w) \/ MarkFailed(w) \/ FaultBefore(w) \/ MarkFails(w)
      PROVE  PutInv'
    <2>1. /\ pc'[w] \notin {"put", "row"} /\ UNCHANGED vectors
          /\ \A v \in Worker : v # w =>
              /\ pc'[v] = pc[v] /\ doc'[v] = doc[v]
              /\ seen'[v] = seen[v] /\ batch'[v] = batch[v]
        BY <1>4, MarkFailsFrame DEF PutRow, MarkFailed, FaultBefore, Leave, Types
    <2> QED BY <2>1 DEF PutInv, PointsOf
<1>5. ASSUME NEW w \in Worker, ClearVectors(w) PROVE PutInv'
    <2>1. /\ vectors' = vectors \ PointsIn(vectors, doc[w])
          /\ pc[w] = "clear" /\ pc'[w] = "put" /\ batch'[w] = 1
          /\ UNCHANGED <<doc, seen>>
          /\ \A v \in Worker : v # w => pc'[v] = pc[v] /\ batch'[v] = batch[v]
        BY <1>5 DEF ClearVectors, PointsOf, PointsIn, Types
    <2>2. PointsIn(vectors', doc[w]) = {}
          /\ \A i : i # doc[w] => PointsIn(vectors', i) = PointsIn(vectors, i)
        BY <2>1, RemovePoints
    <2>3. 1 \in 1..Size(seen[w])
        BY SizeType DEF Types
    <2>4. Points(doc[w], 1 - 1, seen[w]) = {}
        BY NoPoints
    <2> QED BY <2>1, <2>2, <2>3, <2>4, PutOthers DEF Owning, Active
<1>6. ASSUME NEW w \in Worker, PutBatch(w) PROVE PutInv'
    <2>1. /\ vectors' = {x \in vectors : x.id # doc[w] \/ x.batch # batch[w]}
                           \cup {Point(doc[w], batch[w], seen[w])}
          /\ pc[w] = "put" /\ UNCHANGED <<doc, seen>>
          /\ \A v \in Worker : v # w => pc'[v] = pc[v] /\ batch'[v] = batch[v]
          /\ \/ batch[w] = Size(seen[w]) /\ pc'[w] = "row"
             \/ batch[w] # Size(seen[w]) /\ pc'[w] = "put" /\ batch'[w] = batch[w] + 1
        BY <1>6 DEF PutBatch, Types
    <2>2. /\ batch[w] \in 1..Size(seen[w]) /\ Size(seen[w]) \in Nat
          /\ PointsIn(vectors, doc[w]) = Points(doc[w], batch[w] - 1, seen[w])
        BY <2>1, SizeType DEF PutInv, PointsOf, PointsIn, Types
    <2>3. PointsIn(vectors', doc[w]) = Points(doc[w], batch[w], seen[w])
        <3>1. PointsIn(vectors', doc[w]) =
                 {x \in PointsIn(vectors, doc[w]) : x.batch # batch[w]}
                     \cup {Point(doc[w], batch[w], seen[w])}
            BY <2>1, AddPoint
        <3>2. batch[w] \in Nat \ {0}
            BY <2>2
        <3>3. {x \in Points(doc[w], batch[w] - 1, seen[w]) : x.batch # batch[w]}
                     \cup {Point(doc[w], batch[w], seen[w])} = Points(doc[w], batch[w], seen[w])
            BY <3>2, NextPoint
        <3> QED BY <2>2, <3>1, <3>3
    <2>4. \A i : i # doc[w] => PointsIn(vectors', i) = PointsIn(vectors, i)
        BY <2>1, AddPoint
    <2>5. pc'[w] = "put" =>
             batch'[w] \in 1..Size(seen[w]) /\ batch'[w] - 1 = batch[w]
        BY <2>1, <2>2
    <2> QED BY <2>1, <2>3, <2>4, <2>5, PutOthers DEF Owning, Active
<1>7. ASSUME NEW p \in Path, DeleteVectors(p) PROVE PutInv'
    <2>1. /\ vectors' = vectors \ PointsIn(vectors, doomed[p]) /\ doomed[p] # 0
          /\ UNCHANGED <<pc, doc, seen, batch>>
        BY <1>7 DEF DeleteVectors, PointsOf, PointsIn
    <2>2. \A w \in Worker : PointsIn(vectors', doc[w]) = PointsIn(vectors, doc[w])
        BY <2>1, RemovePoints DEF IdInv, Apart
    <2> QED BY <2>1, <2>2 DEF PutInv, PointsOf, PointsIn
<1>8. ASSUME NEW p \in Path, DeleteRow(p) \/ Edit(p) PROVE PutInv'
    BY <1>8 DEF DeleteRow, Edit, PutInv, PointsOf
<1>9. CASE Crash \/ Boot
    BY <1>9 DEF Crash, Boot, PutInv, PointsOf
<1>10. CASE UNCHANGED vars
    BY <1>10 DEF vars, PutInv, PointsOf
<1> QED BY <1>1, <1>2, <1>3, <1>4, <1>5, <1>6, <1>7, <1>8, <1>9, <1>10
        DEF Next, WorkerStep, WorkerFails, JobStep, Ends, Tells

-----------------------------------------------------------------------------
(* Ready documents *)

Indexed(r, V) == PointsIn(V, r.id) = Points(r.id, Size(r.hash), r.hash)

\* ReadyIsIndexed, path by path.
LEMMA ReadyByPath ==
    /\ ReadyIsIndexed <=>
          \A p \in Path : row[p] # NoRow /\ row[p].status = "ready" => Indexed(row[p], vectors)
    /\ ReadyIsIndexed' <=>
          \A p \in Path : row'[p] # NoRow /\ row'[p].status = "ready" => Indexed(row'[p], vectors')
    BY DEF ReadyIsIndexed, Indexed, PointsIn, PointsOf, Points

\* Rows that are ready afterwards were so before, and the vectors stay.
LEMMA FewerReady ==
    ASSUME ReadyIsIndexed, UNCHANGED vectors,
           \A p \in Path : row'[p] # NoRow /\ row'[p].status = "ready" => row'[p] = row[p]
    PROVE  ReadyIsIndexed'
    BY ReadyByPath

\* Vectors of a document that no ready row has come and go.
LEMMA OtherVectors ==
    ASSUME ReadyIsIndexed, UNCHANGED row, NEW d,
           \A i : i # d => PointsIn(vectors', i) = PointsIn(vectors, i),
           \A p \in Path : row[p] # NoRow /\ row[p].status = "ready" => row[p].id # d
    PROVE  ReadyIsIndexed'
    BY ReadyByPath DEF Indexed

\* No ready row has the id of a document that is being written.
LEMMA WrittenIsNotReady ==
    ASSUME Types, WorkInv, IdInv, RowInv, NEW w \in Worker, pc[w] \in Written
    PROVE  \A p \in Path : row[p] # NoRow /\ row[p].status = "ready" => row[p].id # doc[w]
<1>1. row[w[2]].status # "ready" /\ doc[w] # 0
    BY DEF RowInv, WorkInv, Written
<1> QED BY <1>1 DEF IdInv, Apart

LEMMA ReadyStep ==
    ASSUME "overlap" \notin Disturbances, Types, WorkInv, IdInv, RowInv, PutInv,
           ReadyIsIndexed, [Next]_vars
    PROVE  ReadyIsIndexed'
<1> USE DEF Disturb, worker, tasks
<1>1. ASSUME NEW j \in Job, StartIngest(j) \/ Ends(j) PROVE ReadyIsIndexed'
    BY <1>1, FewerReady, EndsFrame DEF StartIngest
<1>2. ASSUME NEW w \in Worker, ReadFile(w) \/ Tells(w) \/ LookUp(w) \/ Fault(w)
                                 \/ FaultBefore(w) \/ MarkFails(w)
      PROVE  ReadyIsIndexed'
    BY <1>2, FewerReady, TellsFrame, MarkFailsFrame DEF ReadFile, LookUp, Fault, FaultBefore
<1>3. ASSUME NEW w \in Worker, Mark(w) PROVE ReadyIsIndexed'
    <2>1. /\ UNCHANGED vectors /\ row'[w[2]].status = "parsing"
          /\ \A p \in Path : p # w[2] => row'[p] = row[p]
        BY <1>3, WorkerParts DEF Mark, Types
    <2> QED BY <2>1, FewerReady
<1>4. ASSUME NEW w \in Worker, Parse(w) \/ MarkFailed(w) PROVE ReadyIsIndexed'
    <2>1. PICK s \in {"embedding", "failed"} : SetStatus(w, s)
        BY <1>4 DEF Parse, MarkFailed
    <2>2. UNCHANGED vectors /\ pc[w] \in Written
        BY <1>4 DEF Parse, MarkFailed, Written, Owning, Active
    <2>3. s \in RowStatus /\ s # "ready"
        BY DEF RowStatus
    <2>4. \A p \in Path : row'[p] # NoRow /\ row'[p].status = "ready" => row'[p] = row[p]
        BY <2>1, <2>2, <2>3, StatusOfOne
    <2> QED BY <2>2, <2>4, FewerReady
<1>5. ASSUME NEW w \in Worker, ClearVectors(w) \/ PutBatch(w) PROVE ReadyIsIndexed'
    <2>1. pc[w] \in Written /\ UNCHANGED row
        BY <1>5 DEF ClearVectors, PutBatch, Written, Owning, Active
    <2>2. \A i : i # doc[w] => PointsIn(vectors', i) = PointsIn(vectors, i)
        <3>1. CASE ClearVectors(w)
            <4>1. vectors' = vectors \ PointsIn(vectors, doc[w])
                BY <3>1 DEF ClearVectors, PointsOf, PointsIn
            <4> QED BY <4>1, RemovePoints
        <3>2. CASE PutBatch(w)
            BY <3>2, AddPoint DEF PutBatch
        <3> QED BY <1>5, <3>1, <3>2
    <2> QED BY <2>1, <2>2, WrittenIsNotReady, OtherVectors
<1>6. ASSUME NEW w \in Worker, PutRow(w) PROVE ReadyIsIndexed'
    <2>1. /\ UNCHANGED vectors /\ pc[w] = "row"
          /\ row'[w[2]] = [id |-> doc[w], status |-> "ready", hash |-> seen[w]]
          /\ \A p \in Path : p # w[2] => row'[p] = row[p]
        BY <1>6, WorkerParts DEF PutRow, Types
    <2>2. Indexed(row'[w[2]], vectors')
        BY <2>1 DEF PutInv, Indexed, PointsIn, PointsOf
    <2> QED BY <2>1, <2>2, ReadyByPath
<1>7. ASSUME NEW p \in Path, DeleteVectors(p) PROVE ReadyIsIndexed'
    <2>1. /\ vectors' = vectors \ PointsIn(vectors, doomed[p]) /\ doomed[p] # 0
          /\ UNCHANGED row
        BY <1>7 DEF DeleteVectors, PointsOf, PointsIn
    <2>2. \A i : i # doomed[p] => PointsIn(vectors', i) = PointsIn(vectors, i)
        BY <2>1, RemovePoints
    <2>3. \A q \in Path : row[q] # NoRow => row[q].id # doomed[p]
        BY <2>1 DEF IdInv, Apart
    <2> QED BY <2>1, <2>2, <2>3, OtherVectors
<1>8. ASSUME NEW p \in Path, DeleteRow(p) PROVE ReadyIsIndexed'
    <2>1. UNCHANGED vectors /\ row'[p] = NoRow /\ \A q \in Path : q # p => row'[q] = row[q]
        BY <1>8 DEF DeleteRow, Types
    <2> QED BY <2>1, FewerReady
<1>9. ASSUME NEW p \in Path, Edit(p) PROVE ReadyIsIndexed'
    BY <1>9, FewerReady DEF Edit
<1>10. CASE Crash
    BY <1>10, FewerReady DEF Crash
<1>11. CASE Boot
    <2>1. \A p \in Path : row'[p] # NoRow /\ row'[p].status = "ready" => row'[p] = row[p]
        <3>1. CASE Recover
            BY <3>1, RowUpdate DEF Recover, Types, RowStatus
        <3>2. CASE UNCHANGED row
            BY <3>2
        <3> QED BY <1>11, <3>1, <3>2 DEF Boot
    <2> QED BY <1>11, <2>1, FewerReady DEF Boot
<1>12. CASE UNCHANGED vars
    BY <1>12, FewerReady DEF vars
<1> QED BY <1>1, <1>2, <1>3, <1>4, <1>5, <1>6, <1>7, <1>8, <1>9, <1>10, <1>11, <1>12
        DEF Next, WorkerStep, WorkerFails, JobStep, Ends, Tells

-----------------------------------------------------------------------------

LEMMA IngestInit == Init => IngestInv
<1> SUFFICES ASSUME Init PROVE IngestInv
    OBVIOUS
<1>1. Types
    BY BoundAssumption DEF Init, Types, Version, JobStatus, Place, NoHash
<1>2. WorkInv /\ DownInv /\ RowInv /\ PutInv
    BY DEF Init, WorkInv, DownInv, RowInv, PutInv, Written, Owning, Active
<1>3. IdInv
    BY DEF Init, IdInv, Given, Apart
<1>4. ReadyIsIndexed
    BY DEF Init, ReadyIsIndexed
<1> QED BY <1>1, <1>2, <1>3, <1>4 DEF IngestInv

\* When no document is deleted while it is ingested, a document the catalog
\* says is ready always has exactly the vectors of the content its hash names:
\* for any files, jobs, versions and batches, over failures in the middle of the
\* writes and restarts, also of a server that recovers nothing because its
\* process id came back (service.py _ingest_one, _upsert_document_and_vectors).
THEOREM ReadyDocumentsAreIndexed ==
    ASSUME "overlap" \notin Disturbances PROVE Spec => []ReadyIsIndexed
<1>1. Init => IngestInv
    BY IngestInit
<1>2. IngestInv /\ [Next]_vars => IngestInv'
    BY TypesStep, WorkStep, DownStep, IdStep, RowStep, PutStep, ReadyStep
    DEF IngestInv, IdInv
<1>3. IngestInv => ReadyIsIndexed
    BY DEF IngestInv
<1> QED BY <1>1, <1>2, <1>3, PTL DEF Spec

-----------------------------------------------------------------------------
(* Owners of unsettled documents *)

\* The task of a job goes on as long as the job says that it runs; when it ends
\* before its workers, an outcome of the job could not be written.
TaskInv ==
    /\ ~up => \A j \in Job : task[j] = "none"
    /\ \A j \in Job : task[j] = "gather" => job[j].status = "running"
    /\ \A j \in Job : task[j] = "except" => unwritten[j]
    /\ \A w \in Worker :
          pc[w] \notin {"idle", "done"} => task[w[1]] = "gather" \/ unwritten[w[1]]

\* Job j answers for the row of p: it says that it runs and, while its workers are
\* gathered, the one at p is writing the row.
Answers(j, p) ==
    /\ p \in job[j].paths /\ job[j].status = "running"
    /\ task[j] = "gather" => pc[<<j, p>>] \in Written

MarkInv ==
    \A p \in Path : Unsettled(p) =>
        marker[p] \in Job /\ (unwritten[marker[p]] \/ Answers(marker[p], p))

LEMMA TaskStep == ASSUME Types, WorkInv, DownInv, TaskInv, [Next]_vars PROVE TaskInv'
<1> USE DEF Disturb, worker, tasks, Goto
<1>1. \A w \in Worker : w[1] \in Job /\ w[2] \in Path /\ w = <<w[1], w[2]>>
    BY WorkerParts
<1>2. ASSUME NEW j \in Job, StartIngest(j) PROVE TaskInv'
    <2>1. PICK r \in Requests[j] :
              /\ job' = [job EXCEPT ![j] =
                        [status |-> "running", paths |-> r.paths, force |-> r.force]]
              /\ pc' = [w \in Worker |->
                        IF w[1] = j /\ w[2] \in r.paths THEN "queued" ELSE pc[w]]
        BY <1>2 DEF StartIngest
    <2>2. /\ task'[j] = "gather" /\ job'[j].status = "running"
          /\ up /\ UNCHANGED <<unwritten, up>>
        BY <1>2, <2>1 DEF StartIngest, Types
    <2>3. \A k \in Job : k # j => task'[k] = task[k] /\ job'[k] = job[k]
        BY <1>2, <2>1 DEF StartIngest, Types
    <2>4. \A w \in Worker : w[1] # j => pc'[w] = pc[w]
        BY <2>1
    <2> QED BY <1>1, <2>2, <2>3, <2>4 DEF TaskInv
<1>3. ASSUME NEW j \in Job, NEW s, EndTask(j, s), up,
             \A w \in Worker : w[1] = j => pc[w] \in {"idle", "done"} \/ unwritten[j]
      PROVE  TaskInv'
    <2>1. /\ task'[j] = "over" /\ UNCHANGED <<pc, unwritten, up>>
          /\ \A k \in Job : k # j => task'[k] = task[k] /\ job'[k] = job[k]
        BY <1>3 DEF EndTask, Types
    <2> QED BY <1>1, <1>3, <2>1 DEF TaskInv
<1>4. ASSUME NEW j \in Job, FinishJob(j) PROVE TaskInv'
    <2>1. up /\ \E s : EndTask(j, s)
        BY <1>4 DEF FinishJob
    <2>2. \A w \in Worker : w[1] = j => pc[w] \in {"idle", "done"}
        BY <1>1, <1>4 DEF FinishJob, Gathered, WorkInv
    <2> QED BY <1>3, <2>1, <2>2
<1>5. ASSUME NEW j \in Job, FailJob(j) PROVE TaskInv'
    BY <1>3, <1>5 DEF FailJob, TaskInv
<1>6. ASSUME NEW j \in Job, task' = [task EXCEPT ![j] = "over"] \/ Raise(j),
             Unwritten(j), UNCHANGED job,
             \A w \in Worker : pc'[w] = pc[w] \/ pc'[w] = "done" \/ w[1] = j
      PROVE  TaskInv'
    <2>1. /\ up /\ UNCHANGED up /\ unwritten'[j]
          /\ \A k \in Job : k # j => unwritten'[k] = unwritten[k]
        BY <1>6 DEF Unwritten, Types
    <2>2. /\ task'[j] # "gather"
          /\ \A k \in Job : k # j => task'[k] = task[k]
        BY <1>6 DEF Raise, Types
    <2> QED BY <1>1, <1>6, <2>1, <2>2 DEF TaskInv
<1>7. ASSUME NEW j \in Job, FinishFails(j) \/ FailJobFails(j) PROVE TaskInv'
    BY <1>6, <1>7 DEF FinishFails, FailJobFails
<1>8. ASSUME NEW w \in Worker, ReportFails(w) PROVE TaskInv'
    <2>1. \A v \in Worker : pc'[v] = pc[v] \/ pc'[v] = "done"
        BY <1>8 DEF ReportFails, Types
    <2> QED BY <1>1, <1>6, <1>8, <2>1 DEF ReportFails
<1>9. ASSUME NEW w \in Worker, Report(w) PROVE TaskInv'
    <2>1. /\ \A v \in Worker : pc'[v] = pc[v] \/ pc'[v] = "done"
          /\ \A k \in Job : job[k].status = "running" => job'[k].status = "running"
          /\ UNCHANGED <<task, unwritten, up>>
        BY <1>9 DEF Report, Types
    <2> QED BY <1>1, <2>1 DEF TaskInv
<1>10. ASSUME NEW w \in Worker, MarkFails(w) PROVE TaskInv'
    <2>1. /\ UNCHANGED <<job, task, up>> /\ up
          /\ unwritten'[w[1]] /\ \A k \in Job : k # w[1] => unwritten'[k] = unwritten[k]
        BY <1>1, <1>10, MarkFailsFrame DEF Types
    <2>2. \A v \in Worker : v # w => pc'[v] = pc[v]
        BY <1>10, MarkFailsFrame DEF Leave, Types
    <2> QED BY <1>1, <2>1, <2>2 DEF TaskInv
<1>11. ASSUME NEW w \in Worker,
              \/ WorkerStep(w) /\ ~Report(w)
              \/ Fault(w) \/ FaultBefore(w)
       PROVE  TaskInv'
    <2>1. /\ pc[w] \notin {"idle", "done"} /\ UNCHANGED <<job, task, unwritten, up>>
        BY <1>11 DEF WorkerStep, ReadFile, LookUp, Mark, Parse, ClearVectors, PutBatch, PutRow,
                     MarkFailed, Fault, FaultBefore
    <2>2. \A v \in Worker : v # w => pc'[v] = pc[v]
        BY <1>11 DEF WorkerStep, ReadFile, LookUp, Mark, Parse, ClearVectors, PutBatch, PutRow,
                     MarkFailed, Fault, FaultBefore, Leave, Types
    <2> QED BY <1>1, <2>1, <2>2 DEF TaskInv
<1>12. ASSUME NEW p \in Path, DeleteRow(p) \/ DeleteVectors(p) \/ Edit(p) PROVE TaskInv'
    BY <1>12 DEF DeleteRow, DeleteVectors, Edit, TaskInv
<1>13. CASE Crash
    BY <1>13 DEF Crash, TaskInv
<1>14. CASE Boot
    <2>1. UNCHANGED <<pc, task, unwritten>> /\ up' = TRUE /\ \A j \in Job : task[j] = "none"
        BY <1>14 DEF Boot, TaskInv
    <2>2. \A w \in Worker : pc[w] = "idle"
        BY <1>14 DEF Boot, DownInv
    <2> QED BY <2>1, <2>2 DEF TaskInv
<1>15. CASE UNCHANGED vars
    BY <1>15 DEF vars, TaskInv
<1>16. ASSUME NEW w \in Worker, WorkerStep(w) \/ WorkerFails(w) PROVE TaskInv'
    BY <1>8, <1>9, <1>10, <1>11, <1>16, Zenon DEF WorkerFails
<1>17. CASE Next
    BY <1>2, <1>4, <1>5, <1>7, <1>12, <1>13, <1>14, <1>16, <1>17, Zenon DEF Next, JobStep
<1> QED BY <1>15, <1>17

\* A step that changes neither the markers nor, in the job that answers for the row
\* of a document, anything that matters.
LEMMA MarkOthers ==
    ASSUME MarkInv, UNCHANGED marker,
           \A p \in Path : Unsettled(p)' => Unsettled(p),
           \A j \in Job : unwritten[j] => unwritten'[j],
           \A j \in Job, p \in Path :
              Answers(j, p) /\ Unsettled(p)' /\ ~unwritten[j] =>
                  unwritten'[j] \/ Answers(j, p)'
    PROVE  MarkInv'
    BY DEF MarkInv

\* Rows of other documents, and those that cease to be written, are not the worker's.
LEMMA MarkStep ==
    ASSUME "overlap" \notin Disturbances, Types, WorkInv, DownInv, IdInv, RowInv, TaskInv,
           MarkInv, [Next]_vars
    PROVE  MarkInv'
<1> USE DEF Disturb, worker, tasks, Goto
<1>1. \A w \in Worker : w[1] \in Job /\ w[2] \in Path /\ w = <<w[1], w[2]>>
    BY WorkerParts
<1>2. \A j \in Job, p \in Path : <<j, p>> \in Worker
    BY DEF Worker
<1>3. ASSUME NEW j \in Job, StartIngest(j) PROVE MarkInv'
    <2>1. PICK r \in Requests[j] :
              /\ job' = [job EXCEPT ![j] =
                        [status |-> "running", paths |-> r.paths, force |-> r.force]]
              /\ pc' = [w \in Worker |->
                        IF w[1] = j /\ w[2] \in r.paths THEN "queued" ELSE pc[w]]
        BY <1>3 DEF StartIngest
    <2>2. job[j].status # "running" /\ UNCHANGED <<row, marker, unwritten>>
        BY <1>3 DEF StartIngest
    <2>3. \A k \in Job : k # j => job'[k] = job[k] /\ task'[k] = task[k]
        BY <1>3, <2>1 DEF StartIngest, Types
    <2>4. \A k \in Job, p \in Path : k # j => pc'[<<k, p>>] = pc[<<k, p>>]
        BY <1>2, <2>1
    <2>5. \A k \in Job, p \in Path : Answers(k, p) => Answers(k, p)'
        BY <2>2, <2>3, <2>4 DEF Answers
    <2> QED BY <2>2, <2>5, MarkOthers DEF Unsettled
<1>4. ASSUME NEW j \in Job, Ends(j) PROVE MarkInv'
    <2>1. UNCHANGED <<row, pc, marker>>
        BY <1>4, EndsFrame
    <2>2. /\ \A k \in Job : k # j =>
                 job'[k] = job[k] /\ task'[k] = task[k] /\ unwritten'[k] = unwritten[k]
          /\ unwritten[j] => unwritten'[j]
        BY <1>4 DEF Ends, FinishJob, FinishFails, FailJob, FailJobFails, EndTask, Unwritten,
                    Raise, Types
    <2>3. \A p \in Path : Answers(j, p) /\ ~unwritten[j] => unwritten'[j]
        <3>1. CASE FinishJob(j)
            BY <3>1 DEF FinishJob, Gathered, Answers, Written, Owning, Active
        <3>2. CASE FailJob(j)
            BY <3>2 DEF FailJob, TaskInv
        <3>3. CASE FinishFails(j) \/ FailJobFails(j)
            BY <3>3 DEF FinishFails, FailJobFails, Unwritten, Types
        <3> QED BY <1>4, <3>1, <3>2, <3>3 DEF Ends
    <2>4. \A k \in Job, p \in Path : k # j /\ Answers(k, p) => Answers(k, p)'
        BY <2>1, <2>2 DEF Answers
    <2> QED BY <2>1, <2>2, <2>3, <2>4, MarkOthers DEF Unsettled
<1>5. ASSUME NEW v \in Worker, ReadFile(v) \/ LookUp(v) \/ FaultBefore(v) \/ Report(v)
      PROVE  MarkInv'
    <2>1. /\ pc[v] \notin Written /\ UNCHANGED <<row, task, marker, unwritten>>
          /\ \A w \in Worker : w # v => pc'[w] = pc[w]
        BY <1>5 DEF ReadFile, LookUp, FaultBefore, Report, Leave, Types, Written, Owning, Active
    <2>2. \A k \in Job : job'[k].paths = job[k].paths
              /\ (job[k].status = "running" => job'[k].status = "running")
        BY <1>5 DEF ReadFile, LookUp, FaultBefore, Report, Types
    <2>3. \A k \in Job, p \in Path : Answers(k, p) => Answers(k, p)'
        BY <1>2, <2>1, <2>2 DEF Answers
    <2> QED BY <2>1, <2>3, MarkOthers DEF Unsettled
<1>6. ASSUME NEW v \in Worker, MarkFails(v) \/ ReportFails(v) PROVE MarkInv'
    <2>1. /\ UNCHANGED <<row, job, marker>>
          /\ unwritten'[v[1]] /\ \A k \in Job : k # v[1] => unwritten'[k] = unwritten[k]
          /\ \A k \in Job : k # v[1] => task'[k] = task[k]
        BY <1>1, <1>6, MarkFailsFrame DEF ReportFails, Unwritten, Raise, Types
    <2>2. \A w \in Worker : w # v => pc'[w] = pc[w]
        BY <1>6, MarkFailsFrame DEF ReportFails, Leave, Types
    <2>3. \A k \in Job, p \in Path : k # v[1] => pc'[<<k, p>>] = pc[<<k, p>>]
        BY <1>1, <1>2, <2>2
    <2>4. \A k \in Job, p \in Path : k # v[1] /\ Answers(k, p) => Answers(k, p)'
        BY <2>1, <2>3 DEF Answers
    <2> QED BY <2>1, <2>4, MarkOthers DEF Unsettled
<1>7. ASSUME NEW v \in Worker, Mark(v) PROVE MarkInv'
    <2>1. /\ pc[v] = "mark" /\ pc'[v] = "parse" /\ UNCHANGED <<job, task, unwritten>>
          /\ \A w \in Worker : w # v => pc'[w] = pc[w]
          /\ \A p \in Path : p # v[2] => row'[p] = row[p] /\ marker'[p] = marker[p]
          /\ marker'[v[2]] = v[1]
        BY <1>1, <1>7 DEF Mark, Types
    <2>2. unwritten'[v[1]] \/ Answers(v[1], v[2])'
        <3>1. v[2] \in job[v[1]].paths
            BY <2>1 DEF WorkInv
        <3>2. unwritten[v[1]] \/ job[v[1]].status = "running"
            BY <1>1, <2>1 DEF TaskInv
        <3>3. pc'[<<v[1], v[2]>>] \in Written
            BY <1>1, <2>1 DEF Written, Owning, Active
        <3> QED BY <2>1, <3>1, <3>2, <3>3 DEF Answers
    <2>3. \A k \in Job, p \in Path : p # v[2] /\ Answers(k, p) => Answers(k, p)'
        <3>1. \A k \in Job, p \in Path : p # v[2] => pc'[<<k, p>>] = pc[<<k, p>>]
            BY <1>1, <1>2, <2>1
        <3> QED BY <2>1, <3>1 DEF Answers
    <2>4. \A p \in Path : p # v[2] => (Unsettled(p)' <=> Unsettled(p))
        BY <2>1 DEF Unsettled
    <2> QED BY <1>1, <2>1, <2>2, <2>3, <2>4 DEF MarkInv
<1>8. ASSUME NEW v \in Worker, Parse(v) \/ ClearVectors(v) \/ PutBatch(v) \/ Fault(v)
      PROVE  MarkInv'
    <2>1. /\ pc[v] \in Written /\ pc'[v] \in Written
          /\ UNCHANGED <<job, task, marker, unwritten>>
          /\ \A w \in Worker : w # v => pc'[w] = pc[w]
        BY <1>8 DEF Parse, ClearVectors, PutBatch, Fault, Types, Written, Owning, Active
    <2>2. \A p \in Path : p # v[2] => row'[p] = row[p]
        <3>1. CASE Parse(v)
            <4>1. SetStatus(v, "embedding") /\ "embedding" \in RowStatus
                BY <3>1 DEF Parse, RowStatus
            <4> QED BY <2>1, <4>1, StatusOfOne
        <3>2. CASE UNCHANGED row
            BY <3>2
        <3> QED BY <1>8, <3>1, <3>2 DEF ClearVectors, PutBatch, Fault
    <2>3. Unsettled(v[2])
        BY <2>1 DEF RowInv, Unsettled
    <2>4. \A p \in Path : Unsettled(p)' => Unsettled(p)
        BY <2>2, <2>3 DEF Unsettled
    <2>5. \A k \in Job, p \in Path : Answers(k, p) => Answers(k, p)'
        BY <1>2, <2>1 DEF Answers
    <2> QED BY <2>1, <2>4, <2>5, MarkOthers
<1>9. ASSUME NEW v \in Worker, PutRow(v) \/ MarkFailed(v) PROVE MarkInv'
    <2>1. /\ pc[v] \in Written /\ UNCHANGED <<job, task, marker, unwritten>>
          /\ \A w \in Worker : w # v => pc'[w] = pc[w]
        BY <1>9 DEF PutRow, MarkFailed, Leave, Types, Written, Owning, Active
    <2>2. /\ \A p \in Path : p # v[2] => row'[p] = row[p]
          /\ row'[v[2]].status \in {"ready", "failed"}
        <3>1. CASE PutRow(v)
            BY <1>1, <3>1 DEF PutRow, Types
        <3>2. CASE MarkFailed(v)
            <4>1. SetStatus(v, "failed") /\ "failed" \in RowStatus
                BY <3>2 DEF MarkFailed, RowStatus
            <4> QED BY <2>1, <4>1, StatusOfOne
        <3> QED BY <1>9, <3>1, <3>2
    <2>3. \A p \in Path : Unsettled(p)' => p # v[2] /\ Unsettled(p)
        BY <2>2 DEF Unsettled
    <2>4. \A k \in Job, p \in Path : p # v[2] /\ Answers(k, p) => Answers(k, p)'
        <3>1. \A k \in Job, p \in Path : p # v[2] => pc'[<<k, p>>] = pc[<<k, p>>]
            BY <1>1, <1>2, <2>1
        <3> QED BY <2>1, <3>1 DEF Answers
    <2> QED BY <2>1, <2>3, <2>4, MarkOthers
<1>10. ASSUME NEW p \in Path, DeleteRow(p) \/ DeleteVectors(p) \/ Edit(p) PROVE MarkInv'
    <2>1. /\ UNCHANGED <<job, pc, task, marker, unwritten>>
          /\ \A q \in Path : row'[q] = NoRow \/ row'[q] = row[q]
        BY <1>10 DEF DeleteRow, DeleteVectors, Edit, Types
    <2> QED BY <2>1, MarkOthers DEF Unsettled, Answers
<1>11. CASE Crash
    <2>1. UNCHANGED <<job, row, marker, unwritten>> /\ \A j \in Job : task'[j] = "none"
        BY <1>11 DEF Crash
    <2> QED BY <2>1, MarkOthers DEF Unsettled, Answers
<1>12. CASE Boot
    <2>1. CASE Recover
        <3>1. UNCHANGED <<marker, unwritten>>
            BY <1>12 DEF Boot
        <3>2. \A j \in Job, p \in Path : Answers(j, p) => p \in Abandoned
            BY DEF Answers, Abandoned, Running
        <3>3. \A p \in Path : row'[p] = row[p] \/ row'[p].status = "failed"
            BY <2>1, RowUpdate DEF Recover, Types, RowStatus
        <3>4. ASSUME NEW p \in Path, Unsettled(p), p \in Abandoned
              PROVE  row'[p].status = "failed"
            <4>1. row'[p] = [row[p] EXCEPT !.status = "failed"]
                BY <2>1, <3>4 DEF Recover, Unsettled
            <4>2. row[p] \in RowRecord /\ "failed" \in RowStatus
                BY <3>4 DEF Unsettled, Types, RowStatus
            <4> QED BY <4>1, <4>2, RowUpdate
        <3>5. \A p \in Path : Unsettled(p)' => Unsettled(p) /\ p \notin Abandoned
            BY <3>3, <3>4 DEF Unsettled
        <3> QED BY <3>1, <3>2, <3>5, MarkOthers
    <2>2. CASE UNCHANGED <<row, job>>
        BY <1>12, <2>2, MarkOthers DEF Boot, Unsettled, Answers
    <2> QED BY <1>12, <2>1, <2>2 DEF Boot
<1>13. CASE UNCHANGED vars
    BY <1>13, MarkOthers DEF vars, Unsettled, Answers
<1>14. ASSUME NEW w \in Worker, WorkerStep(w) \/ WorkerFails(w) PROVE MarkInv'
    BY <1>5, <1>6, <1>7, <1>8, <1>9, <1>14, Zenon DEF WorkerStep, WorkerFails
<1>15. CASE Next
    BY <1>3, <1>4, <1>10, <1>11, <1>12, <1>14, <1>15, Zenon DEF Next, JobStep, Ends
<1> QED BY <1>13, <1>15

\* When no document is deleted while it is ingested, a document in the middle of
\* an ingestion was marked by a job that says it runs, so the recovery at the next
\* start finds it, unless an outcome of that job could not be written to the
\* catalog (service.py _run_ingest_job, catalog_store.py recover_abandoned_work).
THEOREM UnsettledDocumentsAreOwned ==
    ASSUME "overlap" \notin Disturbances PROVE Spec => []UnsettledIsOwned
<1> DEFINE Inv == IngestInv /\ TaskInv /\ MarkInv
<1>1. Init => Inv
    BY IngestInit DEF Init, TaskInv, MarkInv, Unsettled
<1>2. Inv /\ [Next]_vars => Inv'
    BY TypesStep, WorkStep, DownStep, IdStep, RowStep, PutStep, ReadyStep, TaskStep, MarkStep
    DEF IngestInv, IdInv
<1>3. Inv => UnsettledIsOwned
    BY DEF MarkInv, Answers, UnsettledIsOwned
<1> QED BY <1>1, <1>2, <1>3, PTL DEF Spec

-----------------------------------------------------------------------------
(* Types in full, under every disturbance *)

LEMMA GivenStep == ASSUME Types, WorkInv, Given, [Next]_vars PROVE Given'
<1> USE DEF Disturb, worker, tasks
<1>1. \A p \in Path : row[p] # NoRow => row[p].id \in Nat
    BY DEF Types, RowRecord
<1>2. ASSUME nextId' = nextId,
             \A p \in Path : row'[p] # NoRow =>
                \/ row[p] # NoRow /\ row'[p].id = row[p].id
                \/ \E w \in Worker : doc[w] # 0 /\ row'[p].id = doc[w],
             \A w \in Worker : doc'[w] = doc[w] \/ doc'[w] = 0,
             \A p \in Path : \/ doomed'[p] = doomed[p] \/ doomed'[p] = 0
                             \/ row[p] # NoRow /\ doomed'[p] = row[p].id
      PROVE  Given'
    <2>1. nextId \in Nat /\ 0 < nextId
        BY DEF Types
    <2>2. \A p \in Path : row'[p] # NoRow => row'[p].id # 0 /\ row'[p].id < nextId'
        BY <1>2 DEF Given
    <2>3. \A p \in Path : doomed'[p] < nextId'
        BY <1>2, <2>1 DEF Given
    <2>4. \A w \in Worker : doc'[w] < nextId'
        BY <1>2, <2>1 DEF Given
    <2> QED BY <2>2, <2>3, <2>4 DEF Given
<1>3. ASSUME NEW j \in Job, StartIngest(j) \/ Ends(j) PROVE Given'
    BY <1>3, EndsFrame DEF StartIngest, Given
<1>4. ASSUME NEW w \in Worker, ReadFile(w) \/ Tells(w) \/ ClearVectors(w)
                                 \/ PutBatch(w) \/ Fault(w)
      PROVE  Given'
    BY <1>4, TellsFrame DEF ReadFile, ClearVectors, PutBatch, Fault, Given
<1>5. ASSUME NEW w \in Worker, LookUp(w) PROVE Given'
    <2>1. UNCHANGED <<row, doomed>> /\ w[2] \in Path
        BY <1>5, WorkerParts DEF LookUp
    <2>2. CASE (\E result : Leave(w, result)) /\ UNCHANGED nextId
        BY <1>2, <2>1, <2>2 DEF Leave, Types
    <2>3. CASE doc' = [doc EXCEPT ![w] = row[w[2]].id] /\ row[w[2]] # NoRow /\ UNCHANGED nextId
        BY <2>1, <2>3 DEF Given, Types
    <2>4. CASE doc' = [doc EXCEPT ![w] = nextId] /\ nextId' = nextId + 1
        BY <1>1, <2>1, <2>4 DEF Given, Types
    <2> QED BY <1>5, <2>2, <2>3, <2>4 DEF LookUp
<1>6. ASSUME NEW w \in Worker, Mark(w) \/ PutRow(w) PROVE Given'
    <2>1. /\ row'[w[2]].id = doc[w] /\ \A p \in Path : p # w[2] => row'[p] = row[p]
          /\ UNCHANGED <<nextId, doomed>>
        BY <1>6, WorkerParts DEF Mark, PutRow, Types
    <2>2. doc[w] # 0
        BY <1>6 DEF Mark, PutRow, WorkInv, Owning, Active
    <2>3. \A v \in Worker : doc'[v] = doc[v] \/ doc'[v] = 0
        BY <1>6 DEF Mark, PutRow, Leave, Types
    <2> QED BY <1>2, <2>1, <2>2, <2>3
<1>7. ASSUME NEW w \in Worker, Parse(w) \/ MarkFailed(w) PROVE Given'
    <2>1. \A p \in Path : row'[p] # NoRow => row[p] # NoRow /\ row'[p].id = row[p].id
        <3>1. PICK s \in RowStatus : SetStatus(w, s)
            BY <1>7 DEF Parse, MarkFailed, RowStatus
        <3> QED BY <3>1, RowUpdate DEF SetStatus, Types
    <2>2. \A v \in Worker : doc'[v] = doc[v] \/ doc'[v] = 0
        BY <1>7 DEF Parse, MarkFailed, Leave, Types
    <2>3. UNCHANGED <<nextId, doomed>>
        BY <1>7 DEF Parse, MarkFailed
    <2> QED BY <1>2, <2>1, <2>2, <2>3
<1>8. ASSUME NEW w \in Worker, FaultBefore(w) \/ MarkFails(w) PROVE Given'
    <2>1. /\ \A v \in Worker : doc'[v] = doc[v] \/ doc'[v] = 0
          /\ UNCHANGED <<row, nextId, doomed>>
        BY <1>8, MarkFailsFrame DEF FaultBefore, Leave, Types
    <2> QED BY <1>2, <2>1
<1>9. ASSUME NEW p \in Path, DeleteRow(p) PROVE Given'
    BY <1>2, <1>9 DEF DeleteRow, Types
<1>10. ASSUME NEW p \in Path, DeleteVectors(p) \/ Edit(p) PROVE Given'
    BY <1>2, <1>10 DEF DeleteVectors, Edit, Types
<1>11. CASE Crash
    BY <1>2, <1>11 DEF Crash
<1>12. CASE Boot
    <2>1. \A p \in Path : row'[p] # NoRow => row[p] # NoRow /\ row'[p].id = row[p].id
        <3>1. CASE Recover
            <4>1. "failed" \in RowStatus
                BY DEF RowStatus
            <4> QED BY <3>1, <4>1, RowUpdate DEF Recover, Types
        <3>2. CASE UNCHANGED row
            BY <3>2
        <3> QED BY <1>12, <3>1, <3>2 DEF Boot
    <2> QED BY <1>2, <1>12, <2>1 DEF Boot
<1>13. CASE UNCHANGED vars
    BY <1>13 DEF vars, Given
<1> QED BY <1>3, <1>4, <1>5, <1>6, <1>7, <1>8, <1>9, <1>10, <1>11, <1>12, <1>13
        DEF Next, WorkerStep, WorkerFails, JobStep, Ends, Tells

\* The workers that may still take an id: their job has not begun, or they have
\* not looked their document up.
Fresh == {w \in Worker : job[w[1]].status = "none" \/ pc[w] \in {"queued", "look"}}

\* With what they take the ids given out never exceed the workers.
CountInv == nextId + Cardinality(Fresh) <= Cardinality(Worker) + 1

LEMMA WorkersAreFinite == IsFiniteSet(Worker) /\ Cardinality(Worker) \in Nat
    BY FiniteAssumption, FS_Product, FS_CardinalityType DEF Worker

\* No worker becomes fresh, and the one that takes an id is fresh no more.
LEMMA FreshStep ==
    ASSUME Types, WorkInv, [Next]_vars
    PROVE  /\ Fresh' \subseteq Fresh
           /\ \/ nextId' = nextId
              \/ nextId' = nextId + 1 /\ \E w \in Fresh : w \notin Fresh'
<1> USE DEF Disturb, worker, tasks
<1> DEFINE Goal == /\ Fresh' \subseteq Fresh
                   /\ \/ nextId' = nextId
                      \/ nextId' = nextId + 1 /\ \E w \in Fresh : w \notin Fresh'
<1>1. ASSUME nextId' = nextId,
             \A w \in Worker : /\ pc'[w] \in {"queued", "look"} => w \in Fresh
                               /\ job'[w[1]].status = "none" => job[w[1]].status = "none"
      PROVE  Goal
    BY <1>1 DEF Fresh
<1>2. \A w \in Worker : w[1] \in Job /\ w[2] \in Path
    BY WorkerParts
<1>3. ASSUME NEW j \in Job, StartIngest(j) PROVE Goal
    <2>1. \A k \in Job : job'[k].status = "none" => job[k].status = "none"
        BY <1>3 DEF StartIngest, Types
    <2>2. \A w \in Worker : pc'[w] \in {"queued", "look"} => w \in Fresh
        BY <1>2, <1>3 DEF StartIngest, Types, Fresh
    <2> QED BY <1>1, <1>2, <1>3, <2>1, <2>2 DEF StartIngest
<1>4. ASSUME NEW j \in Job, Ends(j) PROVE Goal
    BY <1>1, <1>2, <1>4, EndsFrame DEF Fresh
<1>5. ASSUME NEW w \in Worker, ReadFile(w) PROVE Goal
    <2>1. \A v \in Worker : pc'[v] \in {"queued", "look"} => v \in Fresh
        BY <1>5 DEF ReadFile, Goto, Types, Fresh
    <2> QED BY <1>1, <1>5, <2>1 DEF ReadFile
<1>6. ASSUME NEW w \in Worker, LookUp(w) PROVE Goal
    <2>1. job' = job /\ pc[w] = "look"
        BY <1>6 DEF LookUp
    <2>2. (\E l \in {"report", "mark"} : Goto(w, l))
        BY <1>6 DEF LookUp, Leave
    <2>3. \A v \in Worker : pc'[v] \in {"queued", "look"} => v # w /\ pc[v] = pc'[v]
        BY <2>2 DEF Goto, Types
    <2>4. Fresh' \subseteq Fresh
        BY <2>1, <2>3 DEF Fresh
    <2>5. w \in Fresh /\ w \notin Fresh'
        BY <2>1, <2>3 DEF Fresh, WorkInv
    <2>6. nextId' \in {nextId, nextId + 1}
        BY <1>6 DEF LookUp
    <2> QED BY <2>4, <2>5, <2>6
<1>7. ASSUME NEW w \in Worker,
             \/ Mark(w) \/ Parse(w) \/ ClearVectors(w) \/ PutBatch(w) \/ PutRow(w)
             \/ MarkFailed(w) \/ Fault(w) \/ FaultBefore(w) \/ MarkFails(w)
      PROVE  Goal
    <2>1. job' = job /\ nextId' = nextId
        BY <1>7, MarkFailsFrame
        DEF Mark, Parse, ClearVectors, PutBatch, PutRow, MarkFailed, Fault, FaultBefore
    <2>2. UNCHANGED pc \/ \E l \in Place \ {"queued", "look"} : Goto(w, l)
        BY <1>7, MarkFailsFrame DEF Mark, Parse, ClearVectors, PutBatch, PutRow, MarkFailed, Fault, FaultBefore,
           Leave, Place, Active
    <2>3. \A v \in Worker : pc'[v] \in {"queued", "look"} => v \in Fresh
        BY <2>2 DEF Goto, Types, Fresh
    <2> QED BY <1>1, <2>1, <2>3
<1>8. ASSUME NEW w \in Worker, Tells(w) PROVE Goal
    <2>1. \A v \in Worker : pc'[v] \in {"queued", "look"} => v \in Fresh
        BY <1>8, TellsFrame DEF Types, Fresh
    <2> QED BY <1>1, <1>2, <1>8, <2>1, TellsFrame
<1>9. ASSUME NEW p \in Path, DeleteRow(p) \/ DeleteVectors(p) \/ Edit(p) PROVE Goal
    BY <1>9 DEF DeleteRow, DeleteVectors, Edit, Fresh
<1>10. CASE Crash
    BY <1>1, <1>10 DEF Crash
<1>11. CASE Boot
    <2>1. \A k \in Job : job'[k].status = "none" => job[k].status = "none"
        BY <1>11 DEF Boot, Recover, FailJobs, Types
    <2> QED BY <1>1, <1>2, <1>11, <2>1 DEF Boot, Fresh
<1>12. CASE UNCHANGED vars
    BY <1>12 DEF vars, Fresh
<1>13. ASSUME NEW w \in Worker, WorkerStep(w) \/ WorkerFails(w) PROVE Goal
    BY <1>5, <1>6, <1>7, <1>8, <1>13, Zenon DEF WorkerStep, WorkerFails, Tells
<1>14. CASE Next
    BY <1>3, <1>4, <1>9, <1>10, <1>11, <1>13, <1>14, Zenon DEF Next, JobStep, Ends
<1> QED BY <1>12, <1>14

LEMMA CountStep == ASSUME Types, WorkInv, CountInv, [Next]_vars PROVE CountInv'
<1>1. IsFiniteSet(Fresh) /\ Cardinality(Fresh) \in Nat /\ Cardinality(Worker) \in Nat
    BY WorkersAreFinite, FS_Subset, FS_CardinalityType DEF Fresh
<1>2. Fresh' \subseteq Fresh
    BY FreshStep
<1>3. IsFiniteSet(Fresh') /\ Cardinality(Fresh') \in Nat
    BY <1>1, <1>2, FS_Subset, FS_CardinalityType
<1>4. Cardinality(Fresh') <= Cardinality(Fresh)
    BY <1>1, <1>2, FS_Subset
<1>5. ASSUME NEW w \in Fresh, w \notin Fresh'
      PROVE  Cardinality(Fresh') <= Cardinality(Fresh) - 1
    <2>1. Fresh' \subseteq Fresh \ {w}
        BY <1>2, <1>5
    <2>2. IsFiniteSet(Fresh \ {w}) /\ Cardinality(Fresh \ {w}) = Cardinality(Fresh) - 1
        BY <1>1, <1>5, FS_RemoveElement
    <2> QED BY <2>1, <2>2, FS_Subset
<1>6. nextId \in Nat
    BY DEF Types
<1>7. CASE nextId' = nextId
    BY <1>1, <1>3, <1>4, <1>6, <1>7 DEF CountInv
<1>8. ASSUME nextId' = nextId + 1, NEW w \in Fresh, w \notin Fresh' PROVE CountInv'
    BY <1>1, <1>3, <1>5, <1>6, <1>8 DEF CountInv
<1> QED BY <1>7, <1>8, FreshStep

\* A worker at work has a version, and what it writes is one of its batches; only
\* one at work has the lock.
ReadInv ==
    /\ outcome \in [Worker -> {"none", "skipped", "ingested", "failed"}]
    /\ \A w \in Worker :
          /\ seen[w] \in {NoHash} \cup Version
          /\ batch[w] \in 0..MaxBatches
          /\ pc[w] \in Active => seen[w] \in Version
          /\ pc[w] = "put" => batch[w] \in 1..Size(seen[w])
          /\ lock[w[2]] = w => pc[w] \in Active

\* Rows and vectors have contents of files, and vectors ids given out.
DataInv ==
    /\ \A p \in Path : row[p] # NoRow => row[p].hash \in {NoHash} \cup Version
    /\ \A x \in vectors : /\ x.id # 0 /\ x.id < nextId
                          /\ x.batch \in 1..MaxBatches /\ x.hash \in Version
    /\ up \in BOOLEAN /\ events \in 0..MaxEvents

RangeInv == ReadInv /\ DataInv

LEMMA Bounds ==
    /\ \A v : Size(v) \in 1..MaxBatches
    /\ NoHash \in Nat /\ NoHash \notin Version /\ Version \subseteq Nat
    /\ 0 \in 0..MaxBatches /\ 1 \in 0..MaxBatches /\ 1..MaxBatches \subseteq 0..MaxBatches
    BY BoundAssumption DEF Size, NoHash, Version

LEMMA DisturbRange ==
    ASSUME events \in 0..MaxEvents, NEW kind, Disturb(kind) PROVE events' \in 0..MaxEvents
    BY BoundAssumption DEF Disturb

LEMMA LeaveRead ==
    ASSUME Types, WorkInv, ReadInv, NEW w \in Worker, pc[w] \in Active,
           NEW result \in {"none", "skipped", "ingested", "failed"}, Leave(w, result)
    PROVE  ReadInv'
<1>1. outcome' \in [Worker -> {"none", "skipped", "ingested", "failed"}]
    BY DEF Leave, ReadInv
<1>2. w[2] \in Path /\ w # NoWorker
    BY WorkerParts
<1>3. /\ pc'[w] = "report" /\ seen'[w] = NoHash /\ batch'[w] = 0 /\ lock'[w[2]] = NoWorker
      /\ \A v \in Worker : v # w =>
            pc'[v] = pc[v] /\ seen'[v] = seen[v] /\ batch'[v] = batch[v]
      /\ \A v \in Worker : lock'[v[2]] = v => lock[v[2]] = v /\ v # w
    BY <1>2, WorkerParts DEF Leave, Goto, Types
<1> QED BY <1>1, <1>3, Bounds DEF ReadInv, Active

\* A worker that goes on under its lock, with the version it has.
LEMMA GoRead ==
    ASSUME Types, ReadInv, NEW w \in Worker, pc[w] \in Active, UNCHANGED <<seen, lock, outcome>>,
           \/ UNCHANGED pc
           \/ \E l \in Active : Goto(w, l),
           \/ UNCHANGED batch /\ pc'[w] # "put"
           \/ batch'[w] \in 1..Size(seen[w]) /\ \A v \in Worker : v # w => batch'[v] = batch[v]
    PROVE  ReadInv'
<1>1. pc'[w] \in Active /\ \A v \in Worker : v # w => pc'[v] = pc[v]
    BY DEF Goto, Types
<1>2. 1..Size(seen[w]) \subseteq 0..MaxBatches
    BY Bounds, BoundAssumption
<1>3. seen[w] \in Version
    BY DEF ReadInv
<1>4. CASE UNCHANGED batch /\ pc'[w] # "put"
    BY <1>1, <1>3, <1>4 DEF ReadInv
<1>5. CASE batch'[w] \in 1..Size(seen[w]) /\ \A v \in Worker : v # w => batch'[v] = batch[v]
    BY <1>1, <1>2, <1>3, <1>5 DEF ReadInv
<1> QED BY <1>4, <1>5

LEMMA ReadStep == ASSUME Types, WorkInv, ReadInv, [Next]_vars PROVE ReadInv'
<1> USE DEF Disturb, worker, tasks
<1>1. ASSUME NEW j \in Job, StartIngest(j) PROVE ReadInv'
    <2>1. \A w \in Worker : w[1] = j => pc[w] = "idle"
        BY <1>1 DEF StartIngest, WorkInv
    <2>2. PICK r \in Requests[j] :
              pc' = [w \in Worker |-> IF w[1] = j /\ w[2] \in r.paths THEN "queued" ELSE pc[w]]
        BY <1>1 DEF StartIngest
    <2>3. \A w \in Worker : pc'[w] = pc[w] \/ (pc[w] = "idle" /\ pc'[w] = "queued")
        BY <2>1, <2>2
    <2> QED BY <1>1, <2>3 DEF StartIngest, ReadInv, Active
<1>2. ASSUME NEW j \in Job, Ends(j) PROVE ReadInv'
    <2>1. outcome' \in [Worker -> {"none", "skipped", "ingested", "failed"}]
        BY <1>2 DEF Ends, FinishJob, FinishFails, FailJob, FailJobFails, EndTask, ReadInv
    <2> QED BY <1>2, <2>1, EndsFrame DEF ReadInv
<1>3. ASSUME NEW w \in Worker, ReadFile(w) PROVE ReadInv'
    <2>1. w[2] \in Path /\ file[w[2]] \in Version
        BY WorkerParts DEF Types
    <2>2. /\ pc'[w] = "look" /\ seen'[w] = file[w[2]] /\ UNCHANGED <<batch, outcome>>
          /\ \A v \in Worker : v # w => pc'[v] = pc[v] /\ seen'[v] = seen[v]
          /\ \A v \in Worker : lock'[v[2]] = v => v = w \/ lock[v[2]] = v
        BY <1>3, <2>1, WorkerParts DEF ReadFile, Goto, Types
    <2> QED BY <2>1, <2>2 DEF ReadInv, Active
<1>4. ASSUME NEW w \in Worker, LookUp(w) PROVE ReadInv'
    <2>1. pc[w] \in Active
        BY <1>4 DEF LookUp, Active
    <2>2. CASE \E result \in {"ingested", "skipped"} : Leave(w, result)
        BY <2>1, <2>2, LeaveRead
    <2>3. CASE Goto(w, "mark") /\ UNCHANGED <<lock, seen, batch, outcome>>
        <3>1. pc'[w] = "mark" /\ "mark" \in Active
            BY <2>3 DEF Goto, Types, Active
        <3> QED BY <2>1, <2>3, <3>1, GoRead
    <2> QED BY <1>4, <2>2, <2>3 DEF LookUp
<1>5. ASSUME NEW w \in Worker, Mark(w) \/ Parse(w) \/ Fault(w) PROVE ReadInv'
    <2>1. pc[w] \in Active /\ UNCHANGED <<lock, seen, batch, outcome>>
        BY <1>5 DEF Mark, Parse, Fault, Active
    <2>2. \E l \in Active \ {"put"} : Goto(w, l)
        BY <1>5 DEF Mark, Parse, Fault, Active
    <2>3. pc'[w] # "put"
        BY <2>2 DEF Goto, Types
    <2> QED BY <2>1, <2>2, <2>3, GoRead
<1>6. ASSUME NEW w \in Worker, ClearVectors(w) PROVE ReadInv'
    <2>1. /\ pc[w] \in Active /\ UNCHANGED <<lock, seen, outcome>>
          /\ Goto(w, "put") /\ "put" \in Active
          /\ batch'[w] = 1 /\ \A v \in Worker : v # w => batch'[v] = batch[v]
        BY <1>6 DEF ClearVectors, Types, Active
    <2>2. 1 \in 1..Size(seen[w])
        BY Bounds, BoundAssumption
    <2> QED BY <2>1, <2>2, GoRead
<1>7. ASSUME NEW w \in Worker, PutBatch(w) PROVE ReadInv'
    <2>1. /\ pc[w] \in Active /\ pc[w] = "put" /\ UNCHANGED <<lock, seen, outcome>>
          /\ batch[w] \in 1..Size(seen[w])
        BY <1>7 DEF PutBatch, Active, ReadInv
    <2>2. CASE batch[w] = Size(seen[w])
        <3>1. UNCHANGED batch /\ Goto(w, "row") /\ pc'[w] = "row" /\ "row" \in Active
            BY <1>7, <2>2 DEF PutBatch, Goto, Types, Active
        <3> QED BY <2>1, <3>1, GoRead
    <2>3. CASE batch[w] # Size(seen[w])
        <3>1. /\ UNCHANGED pc /\ batch'[w] = batch[w] + 1
              /\ \A v \in Worker : v # w => batch'[v] = batch[v]
            BY <1>7, <2>3 DEF PutBatch, Types
        <3>2. batch'[w] \in 1..Size(seen[w])
            BY <2>1, <2>3, <3>1, Bounds, BoundAssumption
        <3> QED BY <2>1, <3>1, <3>2, GoRead
    <2> QED BY <2>2, <2>3
<1>8. ASSUME NEW w \in Worker,
             PutRow(w) \/ MarkFailed(w) \/ FaultBefore(w) \/ MarkFails(w)
      PROVE  ReadInv'
    <2>1. pc[w] \in Active /\ \E result \in {"ingested", "failed"} : Leave(w, result)
        BY <1>8, MarkFailsFrame DEF PutRow, MarkFailed, FaultBefore, Active
    <2> QED BY <2>1, LeaveRead
<1>9. ASSUME NEW w \in Worker, Tells(w) PROVE ReadInv'
    <2>1. /\ \A v \in Worker : pc'[v] = pc[v] \/ (pc[v] = "report" /\ pc'[v] = "done")
          /\ UNCHANGED <<lock, seen, batch, outcome>>
        BY <1>9, TellsFrame DEF Types
    <2> QED BY <2>1 DEF ReadInv, Active
<1>10. ASSUME NEW p \in Path, DeleteRow(p) \/ DeleteVectors(p) \/ Edit(p) PROVE ReadInv'
    BY <1>10 DEF DeleteRow, DeleteVectors, Edit, ReadInv
<1>11. CASE Crash
    <2>1. \A w \in Worker : lock'[w[2]] # w /\ pc'[w] = "idle" /\ seen'[w] = NoHash /\ batch'[w] = 0
        BY <1>11, WorkerParts DEF Crash
    <2>2. outcome' \in [Worker -> {"none", "skipped", "ingested", "failed"}]
        BY <1>11 DEF Crash
    <2> QED BY <2>1, <2>2, Bounds DEF ReadInv, Active
<1>12. CASE Boot
    BY <1>12 DEF Boot, ReadInv
<1>13. CASE UNCHANGED vars
    BY <1>13 DEF vars, ReadInv
<1>14. ASSUME NEW w \in Worker, WorkerStep(w) \/ WorkerFails(w) PROVE ReadInv'
    BY <1>3, <1>4, <1>5, <1>6, <1>7, <1>8, <1>9, <1>14, Zenon DEF WorkerStep, WorkerFails, Tells
<1>15. CASE Next
    BY <1>1, <1>2, <1>10, <1>11, <1>12, <1>14, <1>15, Zenon DEF Next, JobStep, Ends
<1> QED BY <1>13, <1>15

\* Rows that change take the contents they had or one that was read.
LEMMA DataOfRows ==
    ASSUME DataInv, UNCHANGED <<vectors, nextId, up>>, events' \in 0..MaxEvents,
           \A p \in Path : row'[p] # NoRow =>
              \/ row[p] # NoRow /\ row'[p].hash = row[p].hash
              \/ row'[p].hash \in {NoHash} \cup Version
    PROVE  DataInv'
    BY DEF DataInv

LEMMA DataStep == ASSUME Types, WorkInv, Given, ReadInv, DataInv, [Next]_vars PROVE DataInv'
<1> USE DEF worker, tasks
<1>1. events \in 0..MaxEvents /\ \A w \in Worker : w[1] \in Job /\ w[2] \in Path
    BY WorkerParts DEF DataInv
<1>2. ASSUME NEW j \in Job, StartIngest(j) \/ Ends(j) PROVE DataInv'
    <2>1. UNCHANGED <<row, vectors, nextId, up>> /\ (UNCHANGED events \/ Disturb("catalog"))
        BY <1>2, EndsFrame DEF StartIngest
    <2> QED BY <1>1, <2>1, DisturbRange DEF DataInv
<1>3. ASSUME NEW w \in Worker, ReadFile(w) \/ Tells(w) PROVE DataInv'
    <2>1. UNCHANGED <<row, vectors, nextId, up>> /\ (UNCHANGED events \/ Disturb("catalog"))
        BY <1>3, TellsFrame DEF ReadFile
    <2> QED BY <1>1, <2>1, DisturbRange DEF DataInv
<1>4. ASSUME NEW w \in Worker, LookUp(w) PROVE DataInv'
    <2>1. UNCHANGED <<row, vectors, up, events>>
        BY <1>4 DEF LookUp
    <2>2. nextId' \in {nextId, nextId + 1}
        BY <1>4 DEF LookUp
    <2>3. \A x \in vectors : x.id \in Nat
        BY DEF Types
    <2>4. \A x \in vectors : x.id < nextId'
        BY <2>2, <2>3 DEF DataInv, Types
    <2> QED BY <2>1, <2>4 DEF DataInv
<1>5. ASSUME NEW w \in Worker, Mark(w) PROVE DataInv'
    <2>1. UNCHANGED <<vectors, nextId, up, events>>
        BY <1>5 DEF Mark
    <2>2. \A p \in Path : row'[p] # NoRow =>
             \/ row[p] # NoRow /\ row'[p].hash = row[p].hash
             \/ row'[p].hash \in {NoHash} \cup Version
        BY <1>1, <1>5 DEF Mark, Types
    <2> QED BY <1>1, <2>1, <2>2, DataOfRows
<1>6. ASSUME NEW w \in Worker, PutRow(w) PROVE DataInv'
    <2>1. UNCHANGED <<vectors, nextId, up, events>>
        BY <1>6 DEF PutRow
    <2>2. seen[w] \in Version
        BY <1>6 DEF PutRow, ReadInv, Active
    <2>3. \A p \in Path : row'[p] # NoRow =>
             \/ row[p] # NoRow /\ row'[p].hash = row[p].hash
             \/ row'[p].hash \in {NoHash} \cup Version
        BY <1>1, <1>6, <2>2 DEF PutRow, Types
    <2> QED BY <1>1, <2>1, <2>3, DataOfRows
<1>7. ASSUME NEW w \in Worker, Parse(w) \/ MarkFailed(w) PROVE DataInv'
    <2>1. UNCHANGED <<vectors, nextId, up, events>>
        BY <1>7 DEF Parse, MarkFailed
    <2>2. PICK s \in RowStatus : SetStatus(w, s)
        BY <1>7 DEF Parse, MarkFailed, RowStatus
    <2>3. \A p \in Path : row'[p] # NoRow => row[p] # NoRow /\ row'[p].hash = row[p].hash
        BY <2>2, RowUpdate DEF SetStatus, Types
    <2> QED BY <1>1, <2>1, <2>3, DataOfRows
<1>8. ASSUME NEW w \in Worker, ClearVectors(w) PROVE DataInv'
    BY <1>8 DEF ClearVectors, DataInv
<1>9. ASSUME NEW w \in Worker, PutBatch(w) PROVE DataInv'
    <2>1. UNCHANGED <<row, nextId, up, events>>
        BY <1>9 DEF PutBatch
    <2>2. batch[w] \in 1..MaxBatches /\ seen[w] \in Version
        BY <1>9, Bounds, BoundAssumption DEF PutBatch, ReadInv, Active
    <2>3. doc[w] # 0 /\ doc[w] < nextId
        BY <1>9 DEF PutBatch, WorkInv, Given, Owning, Active
    <2>4. \A x \in vectors' : x \in vectors \/ x = Point(doc[w], batch[w], seen[w])
        BY <1>9 DEF PutBatch
    <2> QED BY <2>1, <2>2, <2>3, <2>4 DEF DataInv, Point
<1>10. ASSUME NEW w \in Worker, Fault(w) \/ FaultBefore(w) \/ MarkFails(w) PROVE DataInv'
    <2>1. UNCHANGED <<row, vectors, nextId, up>> /\ (Disturb("fault") \/ Disturb("catalog"))
        BY <1>10, MarkFailsFrame DEF Fault, FaultBefore
    <2> QED BY <1>1, <2>1, DisturbRange DEF DataInv
<1>11. ASSUME NEW p \in Path, DeleteRow(p) PROVE DataInv'
    <2>1. UNCHANGED <<vectors, nextId, up>> /\ Disturb("delete")
        BY <1>11 DEF DeleteRow
    <2>2. \A q \in Path : row'[q] # NoRow => row[q] # NoRow /\ row'[q].hash = row[q].hash
        BY <1>11 DEF DeleteRow, Types
    <2> QED BY <1>1, <2>1, <2>2, DisturbRange, DataOfRows
<1>12. ASSUME NEW p \in Path, DeleteVectors(p) PROVE DataInv'
    BY <1>12 DEF DeleteVectors, DataInv
<1>13. ASSUME NEW p \in Path, Edit(p) PROVE DataInv'
    <2>1. UNCHANGED <<row, vectors, nextId, up>> /\ Disturb("edit")
        BY <1>13 DEF Edit
    <2> QED BY <1>1, <2>1, DisturbRange DEF DataInv
<1>14. CASE Crash
    <2>1. UNCHANGED <<row, vectors, nextId>> /\ up' = FALSE /\ Disturb("crash")
        BY <1>14 DEF Crash
    <2> QED BY <1>1, <2>1, DisturbRange DEF DataInv
<1>15. CASE Boot
    <2>1. UNCHANGED <<vectors, nextId>> /\ up' = TRUE
        BY <1>15 DEF Boot
    <2>2. events' \in 0..MaxEvents
        BY <1>1, <1>15, DisturbRange DEF Boot
    <2>3. \A p \in Path : row'[p] # NoRow => row[p] # NoRow /\ row'[p].hash = row[p].hash
        <3>1. CASE Recover
            <4>1. "failed" \in RowStatus
                BY DEF RowStatus
            <4> QED BY <3>1, <4>1, RowUpdate DEF Recover, Types
        <3>2. CASE UNCHANGED row
            BY <3>2
        <3> QED BY <1>15, <3>1, <3>2 DEF Boot
    <2> QED BY <2>1, <2>2, <2>3 DEF DataInv
<1>16. CASE UNCHANGED vars
    BY <1>16 DEF vars, DataInv
<1>17. ASSUME NEW w \in Worker, WorkerStep(w) \/ WorkerFails(w) PROVE DataInv'
    BY <1>3, <1>4, <1>5, <1>6, <1>7, <1>8, <1>9, <1>10, <1>17, Zenon DEF WorkerStep, WorkerFails, Tells
<1>18. CASE Next
    BY <1>2, <1>11, <1>12, <1>13, <1>14, <1>15, <1>17, <1>18, Zenon DEF Next, JobStep, Ends
<1> QED BY <1>16, <1>18

\* The ids given out are at most as many as the workers: one that takes an id has
\* no second chance to.
LEMMA InRange == ASSUME Types, WorkInv, Given, CountInv, RangeInv PROVE TypeOK
<1>1. nextId \in 1..(MaxIds + 1)
    <2>1. Cardinality(Fresh) \in Nat /\ MaxIds \in Nat
        BY WorkersAreFinite, FS_Subset, FS_CardinalityType DEF Fresh, MaxIds
    <2> QED BY <2>1 DEF CountInv, Types, MaxIds
<1>2. \A i \in Nat : i < nextId => i \in 0..MaxIds /\ (i # 0 => i \in 1..MaxIds)
    BY <1>1, WorkersAreFinite DEF MaxIds
<1>3. \A p \in Path : row[p] = NoRow \/
         row[p] \in [id : 1..MaxIds, status : RowStatus, hash : {NoHash} \cup Version]
    <2> SUFFICES ASSUME NEW p \in Path, row[p] # NoRow
                 PROVE  row[p] \in [id : 1..MaxIds, status : RowStatus,
                                    hash : {NoHash} \cup Version]
        OBVIOUS
    <2>1. row[p] \in RowRecord
        BY DEF Types
    <2>2. row[p].id \in 1..MaxIds /\ row[p].hash \in {NoHash} \cup Version
        BY <1>2, <2>1 DEF Given, RangeInv, DataInv, RowRecord
    <2> QED BY <2>1, <2>2 DEF RowRecord
<1>4. vectors \subseteq [id : 1..MaxIds, batch : 1..MaxBatches, hash : Version]
    <2> SUFFICES ASSUME NEW x \in vectors
                 PROVE  x \in [id : 1..MaxIds, batch : 1..MaxBatches, hash : Version]
        OBVIOUS
    <2>1. x \in [id : Nat, batch : Nat, hash : Nat]
        BY DEF Types
    <2>2. x.id \in 1..MaxIds /\ x.batch \in 1..MaxBatches /\ x.hash \in Version
        BY <1>2, <2>1 DEF RangeInv, DataInv
    <2> QED BY <2>1, <2>2
<1>5. \A w \in Worker : lock[w[2]] = w <=> pc[w] \notin {"idle", "queued", "report", "done"}
    BY DEF Types, WorkInv, RangeInv, ReadInv, Place, Active
<1>6. doc \in [Worker -> 0..MaxIds] /\ doomed \in [Path -> 0..MaxIds]
    BY <1>2 DEF Types, Given
<1>7. seen \in [Worker -> {NoHash} \cup Version] /\ batch \in [Worker -> 0..MaxBatches]
    BY DEF Types, RangeInv, ReadInv
<1>8. /\ outcome \in [Worker -> {"none", "skipped", "ingested", "failed"}]
      /\ up \in BOOLEAN /\ events \in 0..MaxEvents
    BY DEF RangeInv, ReadInv, DataInv
<1>9. pc \in [Worker -> {"idle", "queued", "look", "mark", "parse", "clear",
                         "put", "row", "fail", "report", "done"}]
    BY DEF Types, Place, Active
<1> QED BY <1>1, <1>3, <1>4, <1>5, <1>6, <1>7, <1>8, <1>9 DEF Types, TypeOK

\* Rows, vectors, jobs and workers keep their types, the ids stay within one for
\* every worker, and a path is locked by a worker exactly while it is at work on
\* it, under every disturbance (service.py _ingest_one, the lock of the path).
THEOREM KnowledgeTypeCorrect == Spec => []TypeOK
<1> DEFINE Inv == Types /\ WorkInv /\ Given /\ CountInv /\ RangeInv
<1>1. Init => Inv
    <2> SUFFICES ASSUME Init PROVE Inv
        OBVIOUS
    <2>1. Types /\ WorkInv /\ IdInv
        BY IngestInit DEF IngestInv
    <2>2. CountInv
        <3>1. nextId = 1 /\ Fresh \subseteq Worker
            BY DEF Init, Fresh
        <3>2. Cardinality(Fresh) <= Cardinality(Worker) /\ Cardinality(Fresh) \in Nat
            BY <3>1, WorkersAreFinite, FS_Subset, FS_CardinalityType
        <3> QED BY <3>1, <3>2, WorkersAreFinite DEF CountInv
    <2>3. RangeInv
        <3>1. \A w \in Worker : lock[w[2]] # w
            BY WorkerParts DEF Init
        <3> QED BY <3>1, Bounds, BoundAssumption DEF Init, RangeInv, ReadInv, DataInv, Active
    <2> QED BY <2>1, <2>2, <2>3 DEF IdInv
<1>2. Inv /\ [Next]_vars => Inv'
    BY TypesStep, WorkStep, GivenStep, CountStep, ReadStep, DataStep DEF RangeInv
<1>3. Inv => TypeOK
    BY InRange
<1> QED BY <1>1, <1>2, <1>3, PTL DEF Spec
=============================================================================
