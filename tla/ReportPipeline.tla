--------------------------- MODULE ReportPipeline ---------------------------
(***************************************************************************)
(* Certified exports, from POST /reports to the download.                  *)
(*                                                                         *)
(* The API handler allocates a reference (ReferenceNumbers), inserts the   *)
(* row, offers the task to the Redis broker and returns; get_session       *)
(* commits after that.  A Celery worker (acks_late) takes the task, loads  *)
(* the row, commits Running, queries ClickHouse, rewrites the CSV named    *)
(* after the reference, hashes it and commits Completed, or commits Failed *)
(* on an exception.  A download reads the row, checks the file and streams *)
(* it later, after the response has begun.                                 *)
(*                                                                         *)
(* Each report is named by the request that creates it.  A row is the      *)
(* record of the columns the task writes; path, size and checksum are      *)
(* written together and are represented by the checksum, and a checksum by *)
(* the content it was computed from.                                       *)
(***************************************************************************)
EXTENDS ReferenceNumbers, UnitOfWork

CONSTANTS
    Worker,         \* pool slots of the Celery workers
    Reader,         \* download requests
    Content,        \* results of the ClickHouse query, the empty export included
    Torn,           \* the content of a file that is truncated or half written
    None,           \* no content, no report
    Fault,          \* the faults the environment may produce, a subset of AllFaults
    MaxRestored     \* bound: times the broker restores a task, over the whole run

AllFaults == {"request_fails", "broker_down", "task_error", "child_killed",
              "worker_killed", "visibility_timeout"}

ASSUME PipelineAssumption ==
    /\ None \notin Request
    /\ None \notin Content /\ Torn \notin Content /\ None # Torn
    /\ Fault \subseteq AllFaults
    /\ MaxRestored \in Nat

VARIABLES
    offered,    \* reports whose handler is past generate_report.delay
    queue,      \* queue[r]: copies of r's task waiting in the broker
    restored,   \* times the broker restored a task, bounded by MaxRestored
    row,        \* row[r]: the committed columns, meaningful once r is committed
    file,       \* file[n]: the CSV named after reference n
    worker,     \* worker[w]: the task execution in slot w
    reader,     \* reader[d]: the state of a download
    runs,       \* history: executions of r's task that committed Running
    lost,       \* history: reports whose task was acknowledged unfinished
    overlapped  \* history: reports once in two workers at the same time

pipeVars == <<offered, queue, restored, row, file, worker, reader, runs, lost, overlapped>>
vars == <<refVars, pipeVars>>

Status == {"Queued", "Running", "Completed", "Failed"}
Row == [status : Status, checksum : Content \cup {Torn, None}, error : BOOLEAN]
NewRow == [status |-> "Queued", checksum |-> None, error |-> FALSE]

Idle == [step |-> "idle", report |-> None, loaded |-> NewRow, data |-> None]
Done(r) == [step |-> "finished", report |-> r, loaded |-> NewRow, data |-> None]
Away == [step |-> "away", report |-> None, header |-> None, body |-> None, seen |-> 0]

\* An execution that may still write the row or the file of r.
Active(w, r) == worker[w].report = r /\ worker[w].step # "finished"
Path(r) == ref[r]

PipeInit ==
    /\ Init
    /\ offered = {}
    /\ queue = [r \in Request |-> 0]
    /\ restored = 0
    /\ row = [r \in Request |-> NewRow]
    /\ file = [n \in 1 .. Cardinality(Request) |-> None]
    /\ worker = [w \in Worker |-> Idle]
    /\ reader = [d \in Reader |-> Away]
    /\ runs = [r \in Request |-> 0]
    /\ lost = {}
    /\ overlapped = {}

-----------------------------------------------------------------------------
\* The API handler: POST /reports.

Allocate(r) == (Count(r) \/ Insert(r) \/ Conflict(r)) /\ UNCHANGED pipeVars

\* generate_report.delay(report.id), before the transaction commits.  An
\* exception of the broker is swallowed and the request goes on.
Enqueue(r) ==
    /\ pc[r] = "inserted" /\ r \notin offered
    /\ offered' = offered \cup {r}
    /\ \/ queue' = [queue EXCEPT ![r] = @ + 1]
       \/ "broker_down" \in Fault /\ UNCHANGED queue
    /\ UNCHANGED <<refVars, restored, row, file, worker, reader, runs, lost, overlapped>>

CommitReport(r) == r \in offered /\ Commit(r) /\ UNCHANGED pipeVars

AbortReport(r) == "request_fails" \in Fault /\ Abort(r) /\ UNCHANGED pipeVars

Handler(r) == Allocate(r) \/ Enqueue(r) \/ CommitReport(r)

-----------------------------------------------------------------------------
\* The worker: generate_report, one action per access to shared state.

Goes(w, step) == worker' = [worker EXCEPT ![w].step = step]
Finish(w) == worker' = [worker EXCEPT ![w] = Done(worker[w].report)]
UpdateRow(w, object) ==
    row' = [row EXCEPT ![worker[w].report] = Flush(@, worker[w].loaded, object)]

\* Defect: the task does not look whether its row exists.
TakeUnchecked(w, r) ==
    /\ worker[w].step = "idle" /\ queue[r] > 0
    /\ queue' = [queue EXCEPT ![r] = @ - 1]
    /\ worker' = [worker EXCEPT ![w] =
           [step |-> "loaded", report |-> r, loaded |-> row[r], data |-> None]]
    /\ overlapped' = overlapped
           \cup {q \in {r} : \E v \in Worker \ {w} : Active(v, r)}
    /\ UNCHANGED <<refVars, offered, restored, row, file, reader, runs, lost>>

\* The slot takes the task and session.get loads the committed row.
Take(w, r) ==
    /\ worker[w].step = "idle" /\ queue[r] > 0 /\ r \in Committed
    /\ queue' = [queue EXCEPT ![r] = @ - 1]
    /\ worker' = [worker EXCEPT ![w] =
           [step |-> "loaded", report |-> r, loaded |-> row[r], data |-> None]]
    /\ overlapped' = overlapped
           \cup {q \in {r} : \E v \in Worker \ {w} : Active(v, r)}
    /\ UNCHANGED <<refVars, offered, restored, row, file, reader, runs, lost>>

\* No such row: the task returns report_not_found, which ends it.
TakeMissing(w, r) ==
    /\ worker[w].step = "idle" /\ queue[r] > 0 /\ r \notin Committed
    /\ queue' = [queue EXCEPT ![r] = @ - 1]
    /\ worker' = [worker EXCEPT ![w] = Done(r)]
    /\ UNCHANGED <<refVars, offered, restored, row, file, reader, runs, lost, overlapped>>

\* Defect: Running is not committed before the file is rewritten.
SkipRunning(w) ==
    /\ worker[w].step = "loaded"
    /\ Goes(w, "running")
    /\ UNCHANGED <<refVars, offered, queue, restored, row, file, reader, runs, lost, overlapped>>

CommitRunning(w) ==
    /\ worker[w].step = "loaded"
    /\ LET object == [worker[w].loaded EXCEPT !.status = "Running"] IN
           /\ UpdateRow(w, object)
           /\ worker' = [worker EXCEPT ![w].step = "running", ![w].loaded = object]
    /\ runs' = [runs EXCEPT ![worker[w].report] = @ + 1]
    /\ UNCHANGED <<refVars, offered, queue, restored, file, reader, lost, overlapped>>

\* The query has returned, or failed and left the empty export; open(path, "w")
\* truncates the file.
OpenFile(w) ==
    /\ worker[w].step = "running"
    /\ \E c \in Content :
           worker' = [worker EXCEPT ![w].step = "writing", ![w].data = c]
    /\ file' = [file EXCEPT ![Path(worker[w].report)] = Torn]
    /\ UNCHANGED <<refVars, offered, queue, restored, row, reader, runs, lost, overlapped>>

\* The file is complete when it is closed; two writers at once may have mixed
\* their rows.
CloseFile(w) ==
    /\ worker[w].step = "writing"
    /\ \E c \in {worker[w].data} \cup
            {t \in {Torn} : \E v \in Worker \ {w} :
                worker[v].report = worker[w].report /\ worker[v].step = "writing"} :
           file' = [file EXCEPT ![Path(worker[w].report)] = c]
    /\ Goes(w, "written")
    /\ UNCHANGED <<refVars, offered, queue, restored, row, reader, runs, lost, overlapped>>

\* Defect: the checksum computed before the file is closed.
HashBeforeClose(w) ==
    /\ worker[w].step \in {"writing", "written"}
    /\ worker' = [worker EXCEPT ![w].step = "hashed",
                                ![w].data = file[Path(worker[w].report)]]
    /\ UNCHANGED <<refVars, offered, queue, restored, row, file, reader, runs, lost, overlapped>>

\* getsize and _sha256 read the file back.
Hash(w) ==
    /\ worker[w].step = "written"
    /\ worker' = [worker EXCEPT ![w].step = "hashed",
                                ![w].data = file[Path(worker[w].report)]]
    /\ UNCHANGED <<refVars, offered, queue, restored, row, file, reader, runs, lost, overlapped>>

CommitCompleted(w) ==
    /\ worker[w].step = "hashed"
    /\ UpdateRow(w, [status |-> "Completed", checksum |-> worker[w].data, error |-> FALSE])
    /\ Finish(w)
    /\ UNCHANGED <<refVars, offered, queue, restored, file, reader, runs, lost, overlapped>>

\* Defect: the exception ends the task before the row is marked Failed.
RaiseUnmarked(w) ==
    /\ "task_error" \in Fault
    /\ worker[w].step \in {"loaded", "running", "writing", "written", "hashed"}
    /\ Finish(w)
    /\ UNCHANGED <<refVars, offered, queue, restored, row, file, reader, runs, lost, overlapped>>

\* An exception anywhere in the body: the session is rolled back, which
\* expires the object, and session.get reads the row again.
Raise(w) ==
    /\ "task_error" \in Fault
    /\ worker[w].step \in {"loaded", "running", "writing", "written", "hashed"}
    /\ worker' = [worker EXCEPT ![w].step = "failing", ![w].loaded = row[worker[w].report]]
    /\ UNCHANGED <<refVars, offered, queue, restored, row, file, reader, runs, lost, overlapped>>

\* Defect: a status no reader of the table knows.
CommitError(w) ==
    /\ worker[w].step = "failing"
    /\ UpdateRow(w, [worker[w].loaded EXCEPT !.status = "Error", !.error = TRUE])
    /\ Finish(w)
    /\ UNCHANGED <<refVars, offered, queue, restored, file, reader, runs, lost, overlapped>>

CommitFailed(w) ==
    /\ worker[w].step = "failing"
    /\ UpdateRow(w, [worker[w].loaded EXCEPT !.status = "Failed", !.error = TRUE])
    /\ Finish(w)
    /\ UNCHANGED <<refVars, offered, queue, restored, file, reader, runs, lost, overlapped>>

\* acks_late: the task leaves the broker when it has ended, failed or not.
Ack(w) ==
    /\ worker[w].step = "finished"
    /\ worker' = [worker EXCEPT ![w] = Idle]
    /\ UNCHANGED <<refVars, offered, queue, restored, row, file, reader, runs, lost, overlapped>>

Work(w) ==
    \/ CommitRunning(w) \/ OpenFile(w) \/ CloseFile(w) \/ Hash(w)
    \/ CommitCompleted(w) \/ CommitFailed(w) \/ Ack(w)

-----------------------------------------------------------------------------
\* The broker and the death of processes (Celery and Redis, as configured).

Restore(r) ==
    /\ restored < MaxRestored
    /\ restored' = restored + 1
    /\ queue' = [queue EXCEPT ![r] = @ + 1]

\* The pool child dies (out of memory, killed): the parent reports
\* WorkerLostError and acknowledges, task_reject_on_worker_lost being off.  A
\* database that is gone when the except branch wants it ends the task alike.
KillChild(w) ==
    /\ "child_killed" \in Fault
    /\ worker[w].step \notin {"idle", "finished"}
    /\ lost' = lost \cup {worker[w].report}
    /\ worker' = [worker EXCEPT ![w] = Idle]
    /\ UNCHANGED <<refVars, offered, queue, restored, row, file, reader, runs, overlapped>>

\* The worker process dies: the unacknowledged task goes back to the queue.
KillWorker(w) ==
    /\ "worker_killed" \in Fault
    /\ worker[w].step # "idle"
    /\ Restore(worker[w].report)
    /\ worker' = [worker EXCEPT ![w] = Idle]
    /\ UNCHANGED <<refVars, offered, row, file, reader, runs, lost, overlapped>>

\* The visibility timeout passes while the task still runs: Redis delivers it
\* a second time.
VisibilityTimeout(w) ==
    /\ "visibility_timeout" \in Fault
    /\ worker[w].step # "idle"
    /\ Restore(worker[w].report)
    /\ UNCHANGED <<refVars, offered, row, file, worker, reader, runs, lost, overlapped>>

-----------------------------------------------------------------------------
\* GET /reports/{reference}/download.

\* Defect: the download looks at the file and not at the status.
StartDownloadAnyStatus(d, r) ==
    /\ reader[d].step = "away"
    /\ r \in Committed /\ file[Path(r)] # None
    /\ reader' = [reader EXCEPT ![d] =
           [step |-> "responding", report |-> r, header |-> row[r].checksum,
            body |-> None, seen |-> runs[r]]]
    /\ UNCHANGED <<refVars, offered, queue, restored, row, file, worker, runs, lost, overlapped>>

\* The row is read, the file is there, the headers are set ...
StartDownload(d, r) ==
    /\ reader[d].step = "away"
    /\ r \in Committed /\ row[r].status = "Completed" /\ file[Path(r)] # None
    /\ reader' = [reader EXCEPT ![d] =
           [step |-> "responding", report |-> r, header |-> row[r].checksum,
            body |-> None, seen |-> runs[r]]]
    /\ UNCHANGED <<refVars, offered, queue, restored, row, file, worker, runs, lost, overlapped>>

\* ... and FileResponse opens the file when it is sent.
Stream(d) ==
    /\ reader[d].step = "responding"
    /\ reader' = [reader EXCEPT ![d].step = "served",
                                ![d].body = file[Path(reader[d].report)]]
    /\ UNCHANGED <<refVars, offered, queue, restored, row, file, worker, runs, lost, overlapped>>

-----------------------------------------------------------------------------
Deliver(r) == \E w \in Worker : Take(w, r) \/ TakeMissing(w, r)

PipeNext ==
    \/ \E r \in Request : Handler(r) \/ AbortReport(r) \/ Deliver(r)
    \/ \E w \in Worker :
           Work(w) \/ Raise(w) \/ KillChild(w) \/ KillWorker(w) \/ VisibilityTimeout(w)
    \/ \E d \in Reader : (\E r \in Request : StartDownload(d, r)) \/ Stream(d)

\* Handlers and workers run as long as they can, and the broker hands out what
\* it holds.  No fault is ever obliged to happen.
PipeFairness ==
    /\ \A r \in Request : WF_vars(Handler(r)) /\ WF_vars(Deliver(r))
    /\ \A w \in Worker : WF_vars(Work(w))

PipeSafeSpec == PipeInit /\ [][PipeNext]_vars
PipeSpec == PipeSafeSpec /\ PipeFairness

-----------------------------------------------------------------------------
Step == {"idle", "loaded", "running", "writing", "written", "hashed", "failing", "finished"}
Bytes == Content \cup {Torn, None}

PipeTypeOK ==
    /\ RefTypeOK
    /\ offered \subseteq Request
    /\ queue \in [Request -> Nat]
    /\ restored \in 0 .. MaxRestored
    /\ row \in [Request -> Row]
    /\ file \in [1 .. Cardinality(Request) -> Bytes]
    /\ worker \in [Worker -> [step : Step, report : Request \cup {None},
                              loaded : Row, data : Bytes]]
    /\ reader \in [Reader -> [step : {"away", "responding", "served"},
                              report : Request \cup {None},
                              header : Bytes, body : Bytes, seen : Nat]]
    /\ runs \in [Request -> Nat]
    /\ lost \subseteq Request
    /\ overlapped \subseteq Request

\* A Completed report's file is whole and is the one its checksum was computed
\* from, at every moment, through re-executions, crashes and exceptions, as
\* long as the broker did not run the task twice at once.
CertifiedFile ==
    \A r \in Committed \ overlapped :
        row[r].status = "Completed" =>
            file[Path(r)] \in Content /\ file[Path(r)] = row[r].checksum

\* Every file on disk belongs to one committed report: a task whose request was
\* rolled back (or is not committed yet) writes nothing, and no two reports
\* write to one path.
FilesAreOwned ==
    \A n \in DOMAIN file : file[n] # None =>
        \E r \in Committed : Path(r) = n /\ \A q \in Committed \ {r} : Path(q) # n

\* A download delivers the bytes whose checksum its header carries, unless a new
\* execution withdrew the report after the row was read (or two ran at once).
DownloadCertified ==
    \A d \in Reader :
        LET r == reader[d].report IN
        (reader[d].step = "served" /\ r \notin overlapped /\ runs[r] = reader[d].seen)
            => reader[d].body = reader[d].header

\* A report that is Queued with its task in the broker is settled, unless a
\* child of the pool was killed with it.
QueuedSettles ==
    \A r \in Request :
        (r \in Committed /\ row[r].status = "Queued" /\ queue[r] > 0)
            ~> (row[r].status \in {"Completed", "Failed"} \/ r \in lost)

\* The pipeline implements the one-step publication of CertifiedExport.
ShownStatus(r) ==
    CASE r \notin Committed -> "Absent"
      [] r \in Committed /\ r \in overlapped -> "Spoiled"
      [] OTHER -> row[r].status
ShownContent(r) == IF ShownStatus(r) = "Completed" THEN file[Path(r)] ELSE None

Export == INSTANCE CertifiedExport WITH
    Report <- Request,
    status <- [r \in Request |-> ShownStatus(r)],
    published <- [r \in Request |-> ShownContent(r)]

PublishesAtomically == Export!Spec

-----------------------------------------------------------------------------
\* "the report stays Queued and can be retried" (reporting/service.py:71): a
\* report that was accepted and is Queued is eventually generated.
QueuedIsGenerated ==
    \A r \in Request : r \in Committed ~> row[r].status # "Queued"
=============================================================================
