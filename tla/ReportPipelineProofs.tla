------------------------ MODULE ReportPipelineProofs ------------------------
(***************************************************************************)
(* The export pipeline, for any requests, workers, downloads, contents and *)
(* faults: a Completed report has the file its checksum was computed from  *)
(* as long as the broker did not run its task twice at once, and the       *)
(* pipeline implements CertifiedExport.  ReferenceNumbersProofs gives the  *)
(* invariant of the references, which keeps the paths apart.               *)
(***************************************************************************)
EXTENDS ReportPipeline, ReferenceNumbersProofs

Slot == [step : Step, report : Request \cup {None}, loaded : Row, data : Bytes]
Reading == [step : {"away", "responding", "served"}, report : Request \cup {None},
            header : Bytes, body : Bytes, seen : Nat]

\* A slot is executing a task, and has its report marked Running.
Busy(w) == worker[w].step \notin {"idle", "finished"}
AtWork(w) == worker[w].step \in {"running", "writing", "written", "hashed"}
Target(w) == worker[w].report

\* What the steps below are about; the rest counts deliveries.
Core == <<row, file, worker, reader, runs, overlapped>>

\* A task gets past its first SELECT for a committed report only.
TasksHaveRows ==
    /\ \A w \in Worker : worker[w].step = "idle" => Target(w) = None
    /\ \A w \in Worker : worker[w].step # "idle" => Target(w) \in Request
    /\ \A w \in Worker : Busy(w) => Target(w) \in Committed
    /\ \A r \in Request \ Committed : row[r] = NewRow
    /\ overlapped \subseteq Committed

\* Who executes a report that is not in overlapped is alone with it, so the row
\* is as it was loaded.
OneExecution ==
    \A r \in Request \ overlapped :
        \A v, w \in Worker : Active(v, r) /\ Active(w, r) => v = w
LoadedIsRow ==
    \A w \in Worker : (Busy(w) /\ Target(w) \notin overlapped) => worker[w].loaded = row[Target(w)]

\* While the file is rewritten the row says Running, and from close to commit
\* the file is the content of the query.
WorkIsMarked ==
    \A w \in Worker : (AtWork(w) /\ Target(w) \notin overlapped) =>
        /\ row[Target(w)].status = "Running"
        /\ worker[w].step # "running" => worker[w].data \in Content
        /\ worker[w].step \in {"written", "hashed"} => file[Path(Target(w))] = worker[w].data

FilesHaveReports ==
    \A n \in DOMAIN file : file[n] # None => \E r \in Committed : Path(r) = n

\* A download that has begun finds the file it announced, as long as no new
\* execution was marked Running: nobody is rewriting it.
ReadsCurrent ==
    \A d \in Reader : reader[d].step # "away" =>
        /\ reader[d].report \in Committed
        /\ reader[d].seen <= runs[reader[d].report]
        /\ (/\ reader[d].step = "responding"
            /\ reader[d].report \notin overlapped
            /\ runs[reader[d].report] = reader[d].seen) =>
               /\ file[Path(reader[d].report)] = reader[d].header
               /\ \A w \in Worker : AtWork(w) => Target(w) # reader[d].report

\* What is expected of the tasks, and of the downloads.
TasksInv ==
    /\ TasksHaveRows /\ OneExecution /\ LoadedIsRow /\ WorkIsMarked
    /\ CertifiedFile /\ FilesHaveReports
ReadsInv == ReadsCurrent /\ DownloadCertified

PipeInv == PipeTypeOK /\ RefInv /\ TasksInv /\ ReadsInv

-----------------------------------------------------------------------------
\* Every step of the pipeline is a step of the allocation or leaves it alone.
LEMMA StepAllocates == [PipeNext]_vars => [Next]_refVars
<1> SUFFICES ASSUME [PipeNext]_vars PROVE [Next]_refVars
  OBVIOUS
<1>1. ASSUME NEW r \in Request, Handler(r) \/ AbortReport(r) PROVE [Next]_refVars
  BY <1>1 DEF Handler, Allocate, Enqueue, CommitReport, AbortReport, Next, Create
<1>2. ASSUME NEW r \in Request, Deliver(r) PROVE [Next]_refVars
  BY <1>2 DEF Deliver, Take, TakeMissing
<1>3. ASSUME NEW w \in Worker,
             Work(w) \/ Raise(w) \/ KillChild(w) \/ KillWorker(w) \/ VisibilityTimeout(w)
      PROVE  [Next]_refVars
  BY <1>3 DEF Work, CommitRunning, OpenFile, CloseFile, Hash, CommitCompleted, CommitFailed,
       Ack, Raise, KillChild, KillWorker, VisibilityTimeout
<1>4. ASSUME NEW d \in Reader, NEW r \in Request, StartDownload(d, r) \/ Stream(d)
      PROVE  [Next]_refVars
  BY <1>4 DEF StartDownload, Stream
<1>5. ASSUME NEW d \in Reader, Stream(d) PROVE [Next]_refVars
  BY <1>5 DEF Stream
<1> QED
  BY <1>1, <1>2, <1>3, <1>4, <1>5 DEF PipeNext, vars

\* What is committed stays committed, under its number.
LEMMA CommittedKept ==
  ASSUME RefInv, [Next]_refVars
  PROVE  Committed \subseteq Committed' /\ \A r \in Committed : ref'[r] = ref[r]
<1>1. pc \in [Request -> Phase] /\ ref \in [Request -> Nat]
  BY DEF RefInv, RefTypeOK
<1> QED
  BY <1>1 DEF Next, Create, Count, Insert, Conflict, Commit, Abort, refVars, Committed

\* Committed reports have paths of their own, and the table of files has them.
LEMMA PathsApart ==
  ASSUME RefInv
  PROVE  /\ \A r \in Committed : Path(r) \in 1 .. Cardinality(Request)
         /\ \A q, r \in Committed : Path(q) = Path(r) => q = r
<1>1. \A q, r \in Committed : Path(q) = Path(r) => q = r
  BY DEF RefInv, NoDuplicate, Path
<1>2. Cardinality(Committed) <= Cardinality(Request) /\ Cardinality(Request) \in Nat
  BY RequestAssumption, FS_Subset, FS_CardinalityType DEF Committed
<1>3. Cardinality(Committed) \in Nat
  BY RowsIsNat DEF Rows
<1>4. \A r \in Committed : Path(r) \in 1 .. Cardinality(Committed)
  BY DEF RefInv, NoGap, Path
<1> QED
  BY <1>1, <1>2, <1>3, <1>4

LEMMA NewRowIsRow == NewRow \in Row /\ None \in Bytes /\ Torn \in Bytes
  BY DEF NewRow, Row, Status, Bytes

\* What a commit stores, when nobody else wrote the row since it was loaded.
LEMMA FlushStores ==
  ASSUME NEW stored \in Row, NEW loaded \in Row, NEW object \in Row
  PROVE  /\ Flush(stored, loaded, object) \in Row
         /\ loaded = stored => Flush(stored, loaded, object) = object
<1>1. Flush(stored, loaded, object) =
        [status |-> IF object.status # loaded.status THEN object.status ELSE stored.status,
         checksum |-> IF object.checksum # loaded.checksum THEN object.checksum ELSE stored.checksum,
         error |-> IF object.error # loaded.error THEN object.error ELSE stored.error]
  BY DEF Flush, Row
<1>2. Flush(stored, loaded, object) \in Row
  BY <1>1 DEF Row
<1>3. ASSUME loaded = stored PROVE Flush(stored, loaded, object) = object
  <2>1. object = [status |-> object.status, checksum |-> object.checksum, error |-> object.error]
    BY DEF Row
  <2>2. Flush(stored, loaded, object) =
          [status |-> object.status, checksum |-> object.checksum, error |-> object.error]
    BY <1>1, <1>3
  <2> QED
    BY <2>1, <2>2
<1> QED
  BY <1>2, <1>3

\* One slot changes, the others do not.
LEMMA OneSlot ==
  ASSUME PipeTypeOK, NEW w \in Worker, NEW x, worker' = [worker EXCEPT ![w] = x]
  PROVE  /\ worker'[w] = x
         /\ \A v \in Worker \ {w} : worker'[v] = worker[v]
         /\ x \in Slot => worker' \in [Worker -> Slot]
  BY DEF PipeTypeOK, Slot

LEMMA SlotTyped ==
  ASSUME PipeTypeOK, NEW w \in Worker
  PROVE  /\ worker[w] \in Slot
         /\ worker[w] = [step |-> worker[w].step, report |-> Target(w),
                         loaded |-> worker[w].loaded, data |-> worker[w].data]
  BY DEF PipeTypeOK, Slot, Target

-----------------------------------------------------------------------------
\* Type correctness, action by action: first what the broker keeps.
Broker == offered \subseteq Request /\ queue \in [Request -> Nat] /\ restored \in 0 .. MaxRestored
          /\ lost \subseteq Request

LEMMA BrokerTyped ==
  ASSUME PipeTypeOK, TasksHaveRows, [PipeNext]_vars
  PROVE  Broker'
<1>0. Broker
  BY DEF PipeTypeOK, Broker
<1>t. \A w \in Worker : worker[w].step # "idle" => worker[w].report \in Request
  BY DEF TasksHaveRows, Target
<1>q. ASSUME NEW r \in Request, queue' = [queue EXCEPT ![r] = @ + 1] PROVE queue' \in [Request -> Nat]
  BY <1>0, <1>q DEF Broker
<1>p. ASSUME NEW r \in Request, queue[r] > 0, queue' = [queue EXCEPT ![r] = @ - 1]
      PROVE  queue' \in [Request -> Nat]
  <2>1. queue \in [Request -> Nat] /\ queue[r] - 1 \in Nat
    BY <1>0, <1>p DEF Broker
  <2> QED
    BY <1>p, <2>1
<1>1. ASSUME NEW r \in Request, Handler(r) \/ AbortReport(r) PROVE Broker'
  <2>1. CASE Enqueue(r)
    <3>1. queue' \in [Request -> Nat]
      BY <1>0, <1>q, <2>1 DEF Enqueue, Broker
    <3> QED
      BY <1>0, <2>1, <3>1 DEF Enqueue, Broker
  <2>2. CASE UNCHANGED pipeVars
    BY <1>0, <2>2 DEF pipeVars, Broker
  <2> QED
    BY <1>1, <2>1, <2>2 DEF Handler, Allocate, CommitReport, AbortReport
<1>2. ASSUME NEW r \in Request, Deliver(r) PROVE Broker'
  <2>1. queue[r] > 0 /\ queue' = [queue EXCEPT ![r] = @ - 1] /\ UNCHANGED <<offered, restored, lost>>
    BY <1>2 DEF Deliver, Take, TakeMissing
  <2> QED
    BY <1>0, <1>p, <2>1 DEF Broker
<1>3. ASSUME NEW w \in Worker, Work(w) \/ Raise(w) PROVE Broker'
  <2>1. UNCHANGED <<offered, queue, restored, lost>>
    BY <1>3 DEF Work, CommitRunning, OpenFile, CloseFile, Hash, CommitCompleted, CommitFailed,
         Ack, Raise
  <2> QED
    BY <1>0, <2>1 DEF Broker
<1>4. ASSUME NEW w \in Worker, KillChild(w) PROVE Broker'
  BY <1>0, <1>t, <1>4 DEF KillChild, Broker
<1>5. ASSUME NEW w \in Worker, KillWorker(w) \/ VisibilityTimeout(w) PROVE Broker'
  <2>1. /\ worker[w].report \in Request /\ queue' = [queue EXCEPT ![worker[w].report] = @ + 1]
        /\ restored < MaxRestored /\ restored' = restored + 1
        /\ UNCHANGED <<offered, lost>>
    BY <1>t, <1>5 DEF KillWorker, VisibilityTimeout, Restore
  <2>2. queue' \in [Request -> Nat]
    BY <1>q, <2>1
  <2>3. restored' \in 0 .. MaxRestored
    BY <1>0, <2>1, PipelineAssumption DEF Broker
  <2> QED
    BY <1>0, <2>1, <2>2, <2>3 DEF Broker
<1>6. ASSUME NEW d \in Reader, NEW r \in Request, StartDownload(d, r) PROVE Broker'
  BY <1>0, <1>6 DEF StartDownload, Broker
<1>7. ASSUME NEW d \in Reader, Stream(d) PROVE Broker'
  BY <1>0, <1>7 DEF Stream, Broker
<1>8. CASE UNCHANGED vars
  BY <1>0, <1>8 DEF vars, pipeVars, Broker
<1> QED
  BY <1>1, <1>2, <1>3, <1>4, <1>5, <1>6, <1>7, <1>8 DEF PipeNext

\* The rest of the type is that of the core.
CoreTypeOK ==
    /\ row \in [Request -> Row]
    /\ file \in [1 .. Cardinality(Request) -> Bytes]
    /\ worker \in [Worker -> Slot]
    /\ reader \in [Reader -> Reading]
    /\ runs \in [Request -> Nat]
    /\ overlapped \subseteq Request

LEMMA TypeIsParts == PipeTypeOK <=> RefTypeOK /\ Broker /\ CoreTypeOK
  BY DEF PipeTypeOK, Broker, CoreTypeOK, Slot, Reading

\* What the action lemmas establish.
CoreInv == CoreTypeOK /\ TasksInv /\ ReadsInv

LEMMA InvHasParts == PipeInv <=> RefInv /\ Broker /\ CoreInv
  BY TypeIsParts DEF PipeInv, CoreInv, RefInv

-----------------------------------------------------------------------------
\* The API handler, the broker's second delivery and stuttering touch the table
\* of references at most.
LEMMA HandlerKeeps ==
  ASSUME PipeInv, [Next]_refVars, UNCHANGED Core
  PROVE  CoreInv'
<1>0. RefInv /\ CoreInv
  BY InvHasParts
<1>1. Committed \subseteq Committed' /\ \A r \in Committed : ref'[r] = ref[r]
  BY <1>0, CommittedKept
<1>2. /\ row' = row /\ file' = file /\ worker' = worker /\ reader' = reader
      /\ runs' = runs /\ overlapped' = overlapped
  BY DEF Core
<1>3. CoreTypeOK'
  BY <1>0, <1>2 DEF CoreInv, CoreTypeOK
<1>4. TasksHaveRows /\ TasksHaveRows'
  <2>1. Committed' \subseteq Request
    BY DEF Committed
  <2> QED
    BY <1>0, <1>1, <1>2, <2>1 DEF CoreInv, TasksInv, TasksHaveRows, Target, Busy
<1>5. OneExecution' /\ LoadedIsRow'
  BY <1>0, <1>2 DEF CoreInv, TasksInv, OneExecution, LoadedIsRow, Target, Busy, Active
<1>6. WorkIsMarked'
  <2>1. \A w \in Worker : AtWork(w) => Target(w) \in Committed
    BY <1>4 DEF TasksHaveRows, AtWork, Busy
  <2> QED
    BY <1>0, <1>1, <1>2, <2>1 DEF CoreInv, TasksInv, WorkIsMarked, Target, AtWork, Path
<1>7. CertifiedFile'
  <2>1. \A r \in Committed' \ Committed : row'[r].status = "Queued"
    BY <1>2, <1>4 DEF TasksHaveRows, NewRow, Committed
  <2> QED
    BY <1>0, <1>1, <1>2, <2>1 DEF CoreInv, TasksInv, CertifiedFile, Path
<1>8. FilesHaveReports'
  BY <1>0, <1>1, <1>2 DEF CoreInv, TasksInv, FilesHaveReports, Path
<1>9. ReadsCurrent'
  BY <1>0, <1>1, <1>2 DEF CoreInv, ReadsInv, ReadsCurrent, Path, AtWork, Target
<1>10. DownloadCertified'
  BY <1>0, <1>2 DEF CoreInv, ReadsInv, DownloadCertified
<1> QED
  BY <1>3, <1>4, <1>5, <1>6, <1>7, <1>8, <1>9, <1>10 DEF CoreInv, TasksInv, ReadsInv

\* A slot moves on or ends without writing anything that others read: Raise,
\* Hash, TakeMissing, Ack and the deaths.
LEMMA QuietSlotKeeps ==
  ASSUME PipeInv, NEW w \in Worker, NEW x \in Slot, worker' = [worker EXCEPT ![w] = x],
         UNCHANGED <<refVars, row, file, reader, runs, overlapped>>,
         x.step = "idle" => x.report = None,
         x.step # "idle" => x.report \in Request,
         x.step \notin {"idle", "finished"} =>
            /\ Busy(w) /\ x.report = Target(w)
            /\ x.report \notin overlapped => x.loaded = row[x.report],
         x.step \in {"running", "writing", "written", "hashed"} =>
            /\ AtWork(w)
            /\ x.report \notin overlapped =>
                  /\ x.step # "running" => x.data \in Content
                  /\ x.step \in {"written", "hashed"} => file[Path(x.report)] = x.data
  PROVE  CoreInv'
<1>0. RefInv /\ CoreInv /\ PipeTypeOK
  BY InvHasParts DEF PipeInv
<1>1. /\ worker'[w] = x
      /\ \A v \in Worker \ {w} : worker'[v] = worker[v]
      /\ worker' \in [Worker -> Slot]
  BY <1>0, OneSlot
<1>2. /\ row' = row /\ file' = file /\ reader' = reader
      /\ runs' = runs /\ overlapped' = overlapped /\ ref' = ref /\ Committed' = Committed
  BY DEF refVars, Committed
<1>3. CoreTypeOK'
  BY <1>0, <1>1, <1>2 DEF CoreInv, CoreTypeOK
<1>4. TasksHaveRows /\ TasksHaveRows'
  BY <1>0, <1>1, <1>2 DEF CoreInv, TasksInv, TasksHaveRows, Target, Busy
<1>5. OneExecution'
  <2>1. \A v \in Worker, r \in Request : Active(v, r)' => Active(v, r)
    BY <1>1, PipelineAssumption DEF Active, Busy, Target
  <2> QED
    BY <1>0, <1>2, <2>1 DEF CoreInv, TasksInv, OneExecution
<1>6. LoadedIsRow'
  BY <1>0, <1>1, <1>2 DEF CoreInv, TasksInv, LoadedIsRow, Target, Busy
<1>7. WorkIsMarked'
  <2>1. ASSUME NEW v \in Worker, AtWork(v)', Target(v)' \notin overlapped'
        PROVE  /\ row'[Target(v)'].status = "Running"
               /\ worker'[v].step # "running" => worker'[v].data \in Content
               /\ worker'[v].step \in {"written", "hashed"} => file'[Path(Target(v))'] = worker'[v].data
    <3>1. CASE v = w
      BY <1>0, <1>1, <1>2, <2>1, <3>1 DEF CoreInv, TasksInv, WorkIsMarked, Target, AtWork, Path, Busy
    <3>2. CASE v # w
      BY <1>0, <1>1, <1>2, <2>1, <3>2 DEF CoreInv, TasksInv, WorkIsMarked, Target, AtWork, Path
    <3> QED
      BY <3>1, <3>2
  <2> QED
    BY <2>1 DEF WorkIsMarked
<1>8. CertifiedFile' /\ FilesHaveReports' /\ DownloadCertified'
  BY <1>0, <1>2 DEF CoreInv, TasksInv, ReadsInv, CertifiedFile, FilesHaveReports, DownloadCertified, Path
<1>9. ReadsCurrent'
  <2>1. \A v \in Worker : AtWork(v)' => AtWork(v) /\ Target(v)' = Target(v)
    BY <1>1 DEF AtWork, Target
  <2> QED
    BY <1>0, <1>2, <2>1 DEF CoreInv, ReadsInv, ReadsCurrent, Path
<1> QED
  BY <1>3, <1>4, <1>5, <1>6, <1>7, <1>8, <1>9 DEF CoreInv, TasksInv, ReadsInv

\* The task is taken: if another slot has it, the report joins overlapped.
LEMMA TakeKeeps ==
  ASSUME PipeInv, NEW w \in Worker, NEW r \in Request, Take(w, r)
  PROVE  CoreInv'
<1> DEFINE x == [step |-> "loaded", report |-> r, loaded |-> row[r], data |-> None]
<1>0. RefInv /\ CoreInv /\ PipeTypeOK
  BY InvHasParts DEF PipeInv
<1>1. x \in Slot
  BY <1>0, NewRowIsRow DEF Slot, Step, CoreInv, CoreTypeOK
<1>2. /\ worker'[w] = x
      /\ \A v \in Worker \ {w} : worker'[v] = worker[v]
      /\ worker' \in [Worker -> Slot]
  BY <1>0, <1>1, OneSlot DEF Take
<1>3. /\ row' = row /\ file' = file /\ reader' = reader
      /\ runs' = runs /\ ref' = ref /\ Committed' = Committed
      /\ r \in Committed /\ worker[w].step = "idle"
  BY DEF Take, refVars, Committed
<1>4. /\ overlapped \subseteq overlapped' /\ overlapped' \subseteq overlapped \cup {r}
      /\ (\E v \in Worker \ {w} : Active(v, r)) => r \in overlapped'
  BY DEF Take
<1>5. CoreTypeOK'
  BY <1>0, <1>2, <1>3, <1>4 DEF CoreInv, CoreTypeOK
<1>6. TasksHaveRows'
  BY <1>0, <1>2, <1>3, <1>4 DEF CoreInv, TasksInv, TasksHaveRows, Target, Busy
<1>7. OneExecution'
  <2>1. \A v \in Worker \ {w}, q \in Request : Active(v, q)' <=> Active(v, q)
    BY <1>2 DEF Active
  <2>2. \A q \in Request : Active(w, q)' => q = r
    BY <1>2 DEF Active
  <2>3. ASSUME NEW q \in Request \ overlapped', NEW u \in Worker, NEW v \in Worker,
               Active(u, q)', Active(v, q)'
        PROVE  u = v
    <3>1. CASE q = r
      BY <1>4, <2>1, <2>3, <3>1
    <3>2. CASE q # r
      <4>1. u # w /\ v # w /\ Active(u, q) /\ Active(v, q)
        BY <2>1, <2>2, <2>3, <3>2
      <4> QED
        BY <1>0, <1>4, <2>3, <4>1 DEF CoreInv, TasksInv, OneExecution
    <3> QED
      BY <3>1, <3>2
  <2> QED
    BY <2>3 DEF OneExecution
<1>8. LoadedIsRow'
  <2>1. ASSUME NEW v \in Worker, Busy(v)', Target(v)' \notin overlapped'
        PROVE  worker'[v].loaded = row'[Target(v)']
    <3>1. CASE v = w
      BY <1>2, <1>3, <3>1 DEF Target
    <3>2. CASE v # w
      BY <1>0, <1>2, <1>3, <1>4, <2>1, <3>2 DEF CoreInv, TasksInv, LoadedIsRow, Busy, Target
    <3> QED
      BY <3>1, <3>2
  <2> QED
    BY <2>1 DEF LoadedIsRow
<1>9. \A v \in Worker : AtWork(v)' => AtWork(v) /\ worker'[v] = worker[v]
  BY <1>2 DEF AtWork
<1>10. WorkIsMarked'
  BY <1>0, <1>3, <1>4, <1>9 DEF CoreInv, TasksInv, WorkIsMarked, Target, Path
<1>11. CertifiedFile' /\ FilesHaveReports' /\ DownloadCertified'
  BY <1>0, <1>3, <1>4 DEF CoreInv, TasksInv, ReadsInv, CertifiedFile, FilesHaveReports,
       DownloadCertified, Path
<1>12. ReadsCurrent'
  BY <1>0, <1>3, <1>4, <1>9 DEF CoreInv, ReadsInv, ReadsCurrent, Path, Target
<1> QED
  BY <1>5, <1>6, <1>7, <1>8, <1>10, <1>11, <1>12 DEF CoreInv, TasksInv, ReadsInv

-----------------------------------------------------------------------------
\* A slot that moves on within its task: nobody becomes active.
LEMMA NobodyJoins ==
  ASSUME PipeInv, NEW w \in Worker, NEW x \in Slot, Busy(w),
         worker' = [worker EXCEPT ![w] = x], x.step # "idle", x.report = Target(w),
         UNCHANGED <<refVars, overlapped>>,
         \A r \in Request \ Committed : row'[r] = row[r]
  PROVE  /\ worker'[w] = x
         /\ \A v \in Worker \ {w} : worker'[v] = worker[v]
         /\ worker' \in [Worker -> Slot]
         /\ Committed' = Committed /\ ref' = ref
         /\ Target(w) \in Committed
         /\ Target(w) \notin overlapped =>
                \A v \in Worker \ {w} : Busy(v) => Target(v) # Target(w)
         /\ TasksHaveRows' /\ OneExecution'
<1>0. RefInv /\ CoreInv /\ PipeTypeOK
  BY InvHasParts DEF PipeInv
<1>1. /\ worker'[w] = x
      /\ \A v \in Worker \ {w} : worker'[v] = worker[v]
      /\ worker' \in [Worker -> Slot]
  BY <1>0, OneSlot
<1>2. Committed' = Committed /\ overlapped' = overlapped /\ ref' = ref
  BY DEF refVars, Committed
<1>3. Target(w) \in Committed /\ Target(w) \in Request
  BY <1>0 DEF CoreInv, TasksInv, TasksHaveRows, Committed
<1>4. Target(w) \notin overlapped => \A v \in Worker \ {w} : Busy(v) => Target(v) # Target(w)
  BY <1>0, <1>3 DEF CoreInv, TasksInv, OneExecution, Active, Busy, Target
<1>5. TasksHaveRows'
  BY <1>0, <1>1, <1>2, <1>3 DEF CoreInv, TasksInv, TasksHaveRows, Target, Busy
<1>6. OneExecution'
  <2>1. \A v \in Worker, r \in Request : Active(v, r)' => Active(v, r)
    BY <1>1 DEF Active, Busy, Target
  <2> QED
    BY <1>0, <1>2, <2>1 DEF CoreInv, TasksInv, OneExecution
<1> QED
  BY <1>1, <1>2, <1>3, <1>4, <1>5, <1>6

\* A slot with a new step, and with a new row.
LEMMA SlotMoved ==
  ASSUME NEW y \in Slot, NEW s \in Step
  PROVE  LET x == [y EXCEPT !.step = s] IN
         x \in Slot /\ x.step = s /\ x.report = y.report /\ x.loaded = y.loaded /\ x.data = y.data
BY DEF Slot

LEMMA SlotLoaded ==
  ASSUME NEW y \in Slot, NEW s \in Step, NEW o \in Row
  PROVE  LET x == [y EXCEPT !.step = s, !.loaded = o] IN
         x \in Slot /\ x.step = s /\ x.report = y.report /\ x.loaded = o /\ x.data = y.data
BY DEF Slot

\* Running is committed before the file is opened, and counts as an execution.
LEMMA CommitRunningKeeps ==
  ASSUME PipeInv, NEW w \in Worker, CommitRunning(w)
  PROVE  CoreInv'
<1> DEFINE r == Target(w)
           object == [worker[w].loaded EXCEPT !.status = "Running"]
           x == [worker[w] EXCEPT !.step = "running", !.loaded = object]
           stored == Flush(row[r], worker[w].loaded, object)
<1>0. RefInv /\ CoreInv /\ PipeTypeOK
  BY InvHasParts DEF PipeInv
<1>1. /\ worker[w] \in Slot /\ worker[w].step = "loaded" /\ Busy(w)
      /\ worker[w] = [step |-> worker[w].step, report |-> r,
                      loaded |-> worker[w].loaded, data |-> worker[w].data]
  BY <1>0, SlotTyped DEF CommitRunning, Busy
<1>2. object \in Row /\ object.status = "Running"
  BY <1>1 DEF Slot, Row, Status
<1>3. worker' = [worker EXCEPT ![w] = x]
  BY DEF CommitRunning
<1>x. x \in Slot /\ x.step = "running" /\ x.report = r /\ x.loaded = object
  <2>1. "running" \in Step
    BY DEF Step
  <2> HIDE DEF object
  <2> QED
    BY <1>1, <1>2, <2>1, SlotLoaded DEF Target
<1>4. /\ row' = [row EXCEPT ![r] = stored] /\ runs' = [runs EXCEPT ![r] = @ + 1]
      /\ file' = file /\ reader' = reader /\ overlapped' = overlapped /\ UNCHANGED refVars
  BY DEF CommitRunning, UpdateRow, Target
<1>5. r \in Committed /\ r \in Request /\ row[r] \in Row
  BY <1>0, <1>1 DEF CoreInv, TasksInv, TasksHaveRows, Committed, CoreTypeOK
<1>6. stored \in Row /\ (r \notin overlapped => stored = object)
  BY <1>0, <1>1, <1>2, <1>5, FlushStores DEF CoreInv, TasksInv, LoadedIsRow, Slot
<1>7. row' \in [Request -> Row] /\ row'[r] = stored /\ \A q \in Request \ {r} : row'[q] = row[q]
  BY <1>0, <1>4, <1>5, <1>6 DEF CoreInv, CoreTypeOK
<1>8. /\ worker'[w] = x
      /\ \A v \in Worker \ {w} : worker'[v] = worker[v]
      /\ worker' \in [Worker -> Slot]
      /\ Committed' = Committed /\ ref' = ref
      /\ r \notin overlapped => \A v \in Worker \ {w} : Busy(v) => Target(v) # r
      /\ TasksHaveRows' /\ OneExecution'
  <2>1. \A q \in Request \ Committed : row'[q] = row[q]
    BY <1>5, <1>7
  <2>2. x.step # "idle" /\ x.report = Target(w) /\ UNCHANGED <<refVars, overlapped>>
    BY <1>4, <1>x
  <2> HIDE DEF x
  <2> QED
    BY <1>1, <1>3, <1>x, <2>1, <2>2, NobodyJoins
<1> HIDE DEF x, object, stored
<1>9. CoreTypeOK'
  BY <1>0, <1>4, <1>5, <1>7, <1>8 DEF CoreInv, CoreTypeOK
<1>10. LoadedIsRow'
  <2>1. ASSUME NEW v \in Worker, Busy(v)', Target(v)' \notin overlapped'
        PROVE  worker'[v].loaded = row'[Target(v)']
    <3>1. CASE v = w
      <4>1. worker'[v].loaded = object /\ Target(v)' = r
        BY <1>8, <1>x, <3>1 DEF Target
      <4> QED
        BY <1>4, <1>6, <1>7, <2>1, <4>1
    <3>2. CASE v # w
      <4>1. worker'[v] = worker[v] /\ Busy(v) /\ Target(v) \notin overlapped /\ Target(v) \in Request
        BY <1>0, <1>4, <1>8, <2>1, <3>2 DEF CoreInv, TasksInv, TasksHaveRows, Busy, Target
      <4>2. Target(v) # r
        BY <1>8, <3>2, <4>1
      <4> QED
        BY <1>0, <1>7, <4>1, <4>2 DEF CoreInv, TasksInv, LoadedIsRow, Target
    <3> QED
      BY <3>1, <3>2
  <2> QED
    BY <2>1 DEF LoadedIsRow
<1>11. WorkIsMarked'
  <2>1. ASSUME NEW v \in Worker, AtWork(v)', Target(v)' \notin overlapped'
        PROVE  /\ row'[Target(v)'].status = "Running"
               /\ worker'[v].step # "running" => worker'[v].data \in Content
               /\ worker'[v].step \in {"written", "hashed"} => file'[Path(Target(v))'] = worker'[v].data
    <3>1. CASE v = w
      <4>1. worker'[v].step = "running" /\ Target(v)' = r
        BY <1>8, <1>x, <3>1 DEF Target
      <4>2. r \notin overlapped /\ row'[r].status = "Running"
        BY <1>2, <1>4, <1>6, <1>7, <2>1, <4>1
      <4> QED
        BY <4>1, <4>2
    <3>2. CASE v # w
      <4>1. /\ worker'[v] = worker[v] /\ AtWork(v) /\ Busy(v)
            /\ Target(v) \notin overlapped /\ Target(v) \in Request
        BY <1>0, <1>4, <1>8, <2>1, <3>2 DEF CoreInv, TasksInv, TasksHaveRows, Busy, AtWork, Target
      <4>2. Target(v) # r
        BY <1>8, <3>2, <4>1
      <4> QED
        BY <1>0, <1>4, <1>7, <1>8, <4>1, <4>2 DEF CoreInv, TasksInv, WorkIsMarked, Target, Path
    <3> QED
      BY <3>1, <3>2
  <2> QED
    BY <2>1 DEF WorkIsMarked
<1>12. CertifiedFile' /\ FilesHaveReports'
  BY <1>0, <1>2, <1>4, <1>6, <1>7, <1>8 DEF CoreInv, TasksInv, CertifiedFile, FilesHaveReports, Path,
       Committed
<1>13. /\ runs' \in [Request -> Nat] /\ runs'[r] = runs[r] + 1
       /\ \A q \in Request \ {r} : runs'[q] = runs[q]
  BY <1>0, <1>4, <1>5 DEF CoreInv, CoreTypeOK
<1>14. \A q \in Request : runs[q] \in Nat
  BY <1>0 DEF CoreInv, CoreTypeOK
<1>15. \A d \in Reader : reader[d].seen \in Nat /\ (reader[d].step # "away" => reader[d].report \in Request)
  BY <1>0 DEF CoreInv, CoreTypeOK, Reading, ReadsInv, ReadsCurrent, Committed
<1>16. ReadsCurrent' /\ DownloadCertified'
  <2>1. ASSUME NEW d \in Reader, reader[d].step # "away"
        PROVE  /\ reader[d].seen <= runs'[reader[d].report]
               /\ runs'[reader[d].report] = reader[d].seen =>
                    reader[d].report # r /\ runs[reader[d].report] = reader[d].seen
    <3>1. reader[d].seen <= runs[reader[d].report] /\ reader[d].report \in Request
      BY <1>0, <1>15, <2>1 DEF CoreInv, ReadsInv, ReadsCurrent
    <3> QED
      BY <1>13, <1>14, <1>15, <3>1
  <2>2. \A v \in Worker, q \in Request : (AtWork(v)' /\ Target(v)' = q /\ q # r) => AtWork(v) /\ Target(v) = q
    BY <1>8, <1>x DEF AtWork, Target
  <2>3. ReadsCurrent'
    BY <1>0, <1>4, <1>8, <1>15, <2>1, <2>2 DEF CoreInv, ReadsInv, ReadsCurrent, Path
  <2>4. DownloadCertified'
    BY <1>0, <1>4, <2>1 DEF CoreInv, ReadsInv, DownloadCertified
  <2> QED
    BY <2>3, <2>4
<1> QED
  BY <1>8, <1>9, <1>10, <1>11, <1>12, <1>16 DEF CoreInv, TasksInv, ReadsInv

\* An execution ends with the commit of an object that is not certified, or is
\* certified by the file.
LEMMA LastCommitKeeps ==
  ASSUME PipeInv, NEW w \in Worker, Busy(w), NEW object \in Row,
         UpdateRow(w, object), Finish(w),
         UNCHANGED <<refVars, file, reader, runs, overlapped>>,
         (Target(w) \notin overlapped /\ object.status = "Completed") =>
            file[Path(Target(w))] \in Content /\ file[Path(Target(w))] = object.checksum
  PROVE  CoreInv'
<1> DEFINE r == Target(w)
           x == Done(r)
           stored == Flush(row[r], worker[w].loaded, object)
<1>0. RefInv /\ CoreInv /\ PipeTypeOK
  BY InvHasParts DEF PipeInv
<1>1. r \in Committed /\ r \in Request /\ row[r] \in Row /\ worker[w] \in Slot
  BY <1>0 DEF CoreInv, TasksInv, TasksHaveRows, Committed, CoreTypeOK
<1>2. x \in Slot /\ x.step = "finished" /\ x.report = r
  BY <1>1, NewRowIsRow DEF Done, Slot, Step
<1>3. worker' = [worker EXCEPT ![w] = x]
  BY DEF Finish, Target
<1>4. /\ row' = [row EXCEPT ![r] = stored] /\ runs' = runs
      /\ file' = file /\ reader' = reader /\ overlapped' = overlapped
  BY DEF UpdateRow, Target
<1>5. stored \in Row /\ (r \notin overlapped => stored = object)
  BY <1>0, <1>1, FlushStores DEF CoreInv, TasksInv, LoadedIsRow, Slot
<1>6. row' \in [Request -> Row] /\ row'[r] = stored /\ \A q \in Request \ {r} : row'[q] = row[q]
  BY <1>0, <1>1, <1>4, <1>5 DEF CoreInv, CoreTypeOK
<1>7. /\ worker'[w] = x
      /\ \A v \in Worker \ {w} : worker'[v] = worker[v]
      /\ worker' \in [Worker -> Slot]
      /\ Committed' = Committed /\ ref' = ref
      /\ r \notin overlapped => \A v \in Worker \ {w} : Busy(v) => Target(v) # r
      /\ TasksHaveRows' /\ OneExecution'
  <2>1. \A q \in Request \ Committed : row'[q] = row[q]
    BY <1>1, <1>6
  <2>2. x.step # "idle" /\ x.report = Target(w) /\ UNCHANGED <<refVars, overlapped>>
    BY <1>2, <1>4
  <2> HIDE DEF x
  <2> QED
    BY <1>2, <1>3, <2>1, <2>2, NobodyJoins
<1> HIDE DEF x, stored
<1>8. CoreTypeOK'
  BY <1>0, <1>4, <1>6, <1>7 DEF CoreInv, CoreTypeOK
<1>9. ASSUME NEW v \in Worker, Busy(v)', Target(v)' \notin overlapped'
      PROVE  /\ v # w /\ worker'[v] = worker[v] /\ Busy(v) /\ Target(v) \notin overlapped
             /\ row'[Target(v)] = row[Target(v)]
  <2>1. v # w
    BY <1>2, <1>7, <1>9 DEF Busy
  <2>2. worker'[v] = worker[v] /\ Busy(v) /\ Target(v) \notin overlapped /\ Target(v) \in Request
    BY <1>0, <1>4, <1>7, <1>9, <2>1 DEF CoreInv, TasksInv, TasksHaveRows, Busy, Target
  <2>3. Target(v) # r
    BY <1>7, <2>1, <2>2
  <2> QED
    BY <1>6, <2>1, <2>2, <2>3
<1>10. LoadedIsRow'
  BY <1>0, <1>9 DEF CoreInv, TasksInv, LoadedIsRow, Target
<1>11. WorkIsMarked'
  <2>1. \A v \in Worker : AtWork(v)' => Busy(v)'
    BY DEF AtWork, Busy
  <2> QED
    BY <1>0, <1>4, <1>7, <1>9, <2>1 DEF CoreInv, TasksInv, WorkIsMarked, AtWork, Target, Path
<1>12. CertifiedFile'
  BY <1>0, <1>1, <1>4, <1>5, <1>6, <1>7 DEF CoreInv, TasksInv, CertifiedFile, Path, Committed
<1>13. FilesHaveReports' /\ DownloadCertified'
  BY <1>0, <1>4, <1>7 DEF CoreInv, TasksInv, ReadsInv, FilesHaveReports, DownloadCertified, Path
<1>14. ReadsCurrent'
  <2>1. \A v \in Worker : AtWork(v)' => AtWork(v) /\ Target(v)' = Target(v)
    BY <1>2, <1>7 DEF AtWork, Target
  <2> QED
    BY <1>0, <1>4, <1>7, <2>1 DEF CoreInv, ReadsInv, ReadsCurrent, Path
<1> QED
  BY <1>7, <1>8, <1>10, <1>11, <1>12, <1>13, <1>14 DEF CoreInv, TasksInv, ReadsInv

\* The file of a report that is marked Running is rewritten, by its one writer
\* with the content of its query.
LEMMA WriteKeeps ==
  ASSUME PipeInv, NEW w \in Worker, AtWork(w),
         NEW x \in Slot, worker' = [worker EXCEPT ![w] = x],
         x.step \in {"writing", "written"}, x.report = Target(w), x.loaded = worker[w].loaded,
         NEW c \in Bytes, file' = [file EXCEPT ![Path(Target(w))] = c],
         UNCHANGED <<refVars, row, reader, runs, overlapped>>,
         Target(w) \notin overlapped => x.data \in Content /\ (x.step = "written" => c = x.data)
  PROVE  CoreInv'
<1> DEFINE r == Target(w)
<1>0. RefInv /\ CoreInv /\ PipeTypeOK
  BY InvHasParts DEF PipeInv
<1>1. Busy(w) /\ r \in Committed /\ r \in Request
  BY <1>0 DEF CoreInv, TasksInv, TasksHaveRows, Committed, AtWork, Busy
<1>2. /\ row' = row /\ runs' = runs /\ reader' = reader /\ overlapped' = overlapped
  OBVIOUS
<1>3. /\ worker'[w] = x
      /\ \A v \in Worker \ {w} : worker'[v] = worker[v]
      /\ worker' \in [Worker -> Slot]
      /\ Committed' = Committed /\ ref' = ref
      /\ r \notin overlapped => \A v \in Worker \ {w} : Busy(v) => Target(v) # r
      /\ TasksHaveRows' /\ OneExecution'
  <2>1. x.step # "idle" /\ \A q \in Request \ Committed : row'[q] = row[q]
    OBVIOUS
  <2> QED
    BY <1>1, <2>1, NobodyJoins
<1>4. /\ file' \in [1 .. Cardinality(Request) -> Bytes]
      /\ file'[Path(r)] = c
      /\ \A q \in Committed \ {r} : file'[Path(q)] = file[Path(q)]
      /\ \A n \in DOMAIN file \ {Path(r)} : file'[n] = file[n]
      /\ DOMAIN file' = DOMAIN file
  <2>1. file \in [1 .. Cardinality(Request) -> Bytes]
    BY <1>0 DEF CoreInv, CoreTypeOK
  <2>2. Path(r) \in 1 .. Cardinality(Request) /\ \A q \in Committed \ {r} :
            Path(q) \in 1 .. Cardinality(Request) /\ Path(q) # Path(r)
    BY <1>0, <1>1, PathsApart
  <2> QED
    BY <2>1, <2>2
<1>5. CoreTypeOK'
  BY <1>0, <1>2, <1>3, <1>4 DEF CoreInv, CoreTypeOK
<1>6. r \notin overlapped => row[r].status = "Running"
  BY <1>0 DEF CoreInv, TasksInv, WorkIsMarked
<1>7. ASSUME NEW v \in Worker, v # w, Busy(v)', Target(v)' \notin overlapped'
      PROVE  /\ worker'[v] = worker[v] /\ Busy(v) /\ Target(v) \notin overlapped
             /\ file'[Path(Target(v))] = file[Path(Target(v))]
  <2>1. worker'[v] = worker[v] /\ Busy(v) /\ Target(v) \notin overlapped /\ Target(v) \in Committed
    BY <1>0, <1>2, <1>3, <1>7 DEF CoreInv, TasksInv, TasksHaveRows, Busy, Target
  <2>2. Target(v) # r
    BY <1>3, <1>7, <2>1
  <2> QED
    BY <1>4, <2>1, <2>2
<1>8. LoadedIsRow'
  <2>1. r \notin overlapped => worker[w].loaded = row[r]
    BY <1>0, <1>1 DEF CoreInv, TasksInv, LoadedIsRow
  <2>2. ASSUME NEW v \in Worker, Busy(v)', Target(v)' \notin overlapped'
        PROVE  worker'[v].loaded = row'[Target(v)']
    <3>1. CASE v = w
      BY <1>2, <1>3, <2>1, <2>2, <3>1 DEF Target
    <3>2. CASE v # w
      BY <1>0, <1>2, <1>7, <2>2, <3>2 DEF CoreInv, TasksInv, LoadedIsRow, Target
    <3> QED
      BY <3>1, <3>2
  <2> QED
    BY <2>2 DEF LoadedIsRow
<1>9. WorkIsMarked'
  <2>1. ASSUME NEW v \in Worker, AtWork(v)', Target(v)' \notin overlapped'
        PROVE  /\ row'[Target(v)'].status = "Running"
               /\ worker'[v].step # "running" => worker'[v].data \in Content
               /\ worker'[v].step \in {"written", "hashed"} => file'[Path(Target(v))'] = worker'[v].data
    <3>1. CASE v = w
      <4>1. worker'[v] = x /\ Target(v)' = r /\ r \notin overlapped
        BY <1>2, <1>3, <2>1, <3>1 DEF Target
      <4>2. Path(Target(v))' = Path(r)
        BY <1>3, <4>1 DEF Path
      <4> QED
        BY <1>2, <1>4, <1>6, <4>1, <4>2
    <3>2. CASE v # w
      <4>1. Busy(v)' /\ worker'[v] = worker[v]
        BY <1>3, <2>1, <3>2 DEF AtWork, Busy
      <4>2. AtWork(v) /\ Target(v)' = Target(v) /\ Path(Target(v))' = Path(Target(v))
        BY <1>3, <2>1, <4>1 DEF AtWork, Target, Path
      <4> QED
        BY <1>0, <1>2, <1>7, <2>1, <3>2, <4>1, <4>2 DEF CoreInv, TasksInv, WorkIsMarked
    <3> QED
      BY <3>1, <3>2
  <2> QED
    BY <2>1 DEF WorkIsMarked
<1>10. CertifiedFile'
  BY <1>0, <1>2, <1>3, <1>4, <1>6 DEF CoreInv, TasksInv, CertifiedFile, Path
<1>11. FilesHaveReports'
  BY <1>0, <1>1, <1>3, <1>4 DEF CoreInv, TasksInv, FilesHaveReports, Path
<1>12. DownloadCertified'
  BY <1>0, <1>2 DEF CoreInv, ReadsInv, DownloadCertified
<1>13. ReadsCurrent'
  <2>1. \A v \in Worker : AtWork(v)' => AtWork(v) /\ Target(v)' = Target(v)
    BY <1>3 DEF AtWork, Target
  <2> QED
    BY <1>0, <1>2, <1>3, <1>4, <2>1 DEF CoreInv, ReadsInv, ReadsCurrent, Path
<1> QED
  BY <1>3, <1>5, <1>8, <1>9, <1>10, <1>11, <1>12, <1>13 DEF CoreInv, TasksInv, ReadsInv

\* A download reads a certified row and its file; what it streams is what it
\* announced unless an execution was marked Running in between.
LEMMA DownloadKeeps ==
  ASSUME PipeInv, NEW d \in Reader, Stream(d) \/ \E r \in Request : StartDownload(d, r)
  PROVE  CoreInv'
<1>0. RefInv /\ CoreInv
  BY InvHasParts
<1>1. /\ row' = row /\ file' = file /\ worker' = worker /\ runs' = runs
      /\ overlapped' = overlapped /\ ref' = ref /\ Committed' = Committed
  BY DEF Stream, StartDownload, refVars, Committed
<1>2. TasksInv'
  BY <1>0, <1>1 DEF CoreInv, TasksInv, TasksHaveRows, OneExecution, LoadedIsRow, WorkIsMarked,
       CertifiedFile, FilesHaveReports, Target, Busy, AtWork, Active, Path
<1>3. SUFFICES CoreTypeOK' /\ ReadsInv'
  BY <1>2 DEF CoreInv
<1>4. reader \in [Reader -> Reading] /\ file \in [1 .. Cardinality(Request) -> Bytes]
  BY <1>0 DEF CoreInv, CoreTypeOK
<1> DEFINE Holds(x) ==
             /\ x.step # "away" /\ x.report \in Committed /\ x.seen <= runs[x.report]
             /\ (x.report \notin overlapped /\ runs[x.report] = x.seen) =>
                   /\ x.step = "responding" =>
                         /\ file[Path(x.report)] = x.header
                         /\ \A w \in Worker : AtWork(w) => Target(w) # x.report
                   /\ x.step = "served" => x.body = x.header
<1>5. PICK x \in Reading : reader' = [reader EXCEPT ![d] = x] /\ Holds(x)
  <2>1. ASSUME NEW r \in Request, StartDownload(d, r)
        PROVE  \E x \in Reading : reader' = [reader EXCEPT ![d] = x] /\ Holds(x)
    <3> DEFINE y == [step |-> "responding", report |-> r, header |-> row[r].checksum,
                     body |-> None, seen |-> runs[r]]
    <3>1. row[r].checksum \in Bytes /\ runs[r] \in Nat /\ None \in Bytes
      BY <1>0 DEF CoreInv, CoreTypeOK, Row, Bytes
    <3>2. y \in Reading
      BY <3>1 DEF Reading
    <3>3. r \in Committed /\ row[r].status = "Completed" /\ reader' = [reader EXCEPT ![d] = y]
      BY <2>1 DEF StartDownload
    <3>4. r \notin overlapped => file[Path(r)] = row[r].checksum
      BY <1>0, <3>3 DEF CoreInv, TasksInv, CertifiedFile
    <3>5. r \notin overlapped => \A w \in Worker : AtWork(w) => Target(w) # r
      BY <1>0, <3>3 DEF CoreInv, TasksInv, WorkIsMarked
    <3>6. y.step = "responding" /\ y.report = r /\ y.header = row[r].checksum /\ y.seen = runs[r]
      OBVIOUS
    <3> HIDE DEF y
    <3> QED
      <4>1. Holds(y)
        BY <3>1, <3>3, <3>4, <3>5, <3>6
      <4> QED
        BY <3>2, <3>3, <4>1
  <2>2. ASSUME Stream(d) PROVE \E x \in Reading : reader' = [reader EXCEPT ![d] = x] /\ Holds(x)
    <3> DEFINE r == reader[d].report
               y == [reader[d] EXCEPT !.step = "served", !.body = file[Path(r)]]
    <3>1. reader[d].step = "responding" /\ reader' = [reader EXCEPT ![d] = y]
      BY <2>2 DEF Stream
    <3>2. r \in Committed /\ reader[d].seen <= runs[r]
      BY <1>0, <3>1 DEF CoreInv, ReadsInv, ReadsCurrent
    <3>3. Path(r) \in 1 .. Cardinality(Request)
      BY <1>0, <3>2, PathsApart
    <3>4. reader[d] \in Reading /\ file[Path(r)] \in Bytes
      BY <1>4, <3>3
    <3>5. /\ y \in Reading /\ y.step = "served" /\ y.report = r /\ y.body = file[Path(r)]
          /\ y.header = reader[d].header /\ y.seen = reader[d].seen
      BY <3>4 DEF Reading
    <3>6. (r \notin overlapped /\ runs[r] = reader[d].seen) => file[Path(r)] = reader[d].header
      BY <1>0, <3>1 DEF CoreInv, ReadsInv, ReadsCurrent
    <3> HIDE DEF y
    <3> QED
      <4>1. Holds(y)
        BY <3>2, <3>5, <3>6
      <4> QED
        BY <3>1, <3>5, <4>1
  <2> QED
    BY <2>1, <2>2
<1>6. /\ reader'[d] = x /\ \A e \in Reader \ {d} : reader'[e] = reader[e]
      /\ reader' \in [Reader -> Reading]
  BY <1>4, <1>5
<1>7. CoreTypeOK'
  BY <1>0, <1>1, <1>6 DEF CoreInv, CoreTypeOK
<1>8. ReadsCurrent'
  <2>1. \A q : Path(q)' = Path(q)
    BY <1>1 DEF Path
  <2>2. \A v : AtWork(v)' = AtWork(v) /\ Target(v)' = Target(v)
    BY <1>1 DEF AtWork, Target
  <2>3. ASSUME NEW e \in Reader, reader'[e].step # "away"
        PROVE  /\ reader'[e].report \in Committed'
               /\ reader'[e].seen <= runs'[reader'[e].report]
               /\ (/\ reader'[e].step = "responding"
                   /\ reader'[e].report \notin overlapped'
                   /\ runs'[reader'[e].report] = reader'[e].seen) =>
                      /\ file'[Path(reader[e].report)'] = reader'[e].header
                      /\ \A w \in Worker : AtWork(w)' => Target(w)' # reader'[e].report
    <3>1. CASE e = d
      BY <1>1, <1>5, <1>6, <2>2, <3>1 DEF Path
    <3>2. CASE e # d
      BY <1>0, <1>1, <1>6, <2>2, <2>3, <3>2 DEF CoreInv, ReadsInv, ReadsCurrent, Path
    <3> QED
      BY <3>1, <3>2
  <2> QED
    BY <2>3 DEF ReadsCurrent
<1>9. DownloadCertified'
  BY <1>0, <1>1, <1>5, <1>6 DEF CoreInv, ReadsInv, DownloadCertified
<1> QED
  BY <1>7, <1>8, <1>9 DEF ReadsInv

-----------------------------------------------------------------------------
LEMMA PipeInitInv == PipeInit => PipeInv
<1> SUFFICES ASSUME PipeInit PROVE PipeInv
  OBVIOUS
<1>1. RefInv
  BY RefInitInv DEF PipeInit
<1>2. Committed = {}
  BY DEF PipeInit, Init, Committed
<1>3. Broker
  BY PipelineAssumption DEF PipeInit, Broker
<1>4. CoreTypeOK
  <2>1. Idle \in Slot /\ Away \in Reading
    BY NewRowIsRow DEF Idle, Away, Slot, Reading, Step
  <2> QED
    BY <2>1, NewRowIsRow DEF PipeInit, CoreTypeOK
<1>5. \A w \in Worker : worker[w].step = "idle" /\ worker[w].report = None
  BY DEF PipeInit, Idle
<1>6. TasksHaveRows /\ OneExecution /\ LoadedIsRow /\ WorkIsMarked
  BY <1>2, <1>5, PipelineAssumption DEF PipeInit, TasksHaveRows, OneExecution, LoadedIsRow,
       WorkIsMarked, Active, Busy, AtWork, Target
<1>7. CertifiedFile /\ FilesHaveReports
  BY <1>2 DEF PipeInit, CertifiedFile, FilesHaveReports
<1>8. \A d \in Reader : reader[d].step = "away"
  BY DEF PipeInit, Away
<1>9. ReadsInv
  BY <1>8 DEF ReadsInv, ReadsCurrent, DownloadCertified
<1> QED
  BY <1>1, <1>3, <1>4, <1>6, <1>7, <1>9, InvHasParts DEF CoreInv, TasksInv

\* The steps of a worker, one by one.
LEMMA WorkerKeeps ==
  ASSUME PipeInv, NEW w \in Worker,
         Work(w) \/ Raise(w) \/ KillChild(w) \/ KillWorker(w) \/ VisibilityTimeout(w)
  PROVE  CoreInv'
<1>0. RefInv /\ CoreInv /\ PipeTypeOK /\ worker[w] \in Slot
  BY InvHasParts, SlotTyped DEF PipeInv
<1>t. /\ Busy(w) => Target(w) \in Committed /\ Target(w) \in Request /\ row[Target(w)] \in Row
      /\ worker[w].step # "idle" => Target(w) \in Request
  BY <1>0 DEF CoreInv, TasksInv, TasksHaveRows, CoreTypeOK, Committed
<1>i. Idle \in Slot /\ Idle.step = "idle" /\ Idle.report = None
  BY NewRowIsRow DEF Idle, Slot, Step
<1>1. CASE CommitRunning(w)
  BY <1>1, CommitRunningKeeps
<1>2. CASE OpenFile(w)
  <2>1. PICK c \in Content : worker' = [worker EXCEPT ![w].step = "writing", ![w].data = c]
    BY <1>2 DEF OpenFile
  <2> DEFINE x == [worker[w] EXCEPT !.step = "writing", !.data = c]
  <2>2. worker' = [worker EXCEPT ![w] = x]
    BY <2>1
  <2>3. "writing" \in Step /\ c \in Bytes
    BY DEF Step, Bytes
  <2>4. /\ x \in Slot /\ x.step = "writing" /\ x.report = Target(w)
        /\ x.loaded = worker[w].loaded /\ x.data = c
    BY <1>0, <2>3 DEF Slot, Target
  <2>5. /\ file' = [file EXCEPT ![Path(Target(w))] = Torn] /\ AtWork(w)
        /\ UNCHANGED <<refVars, row, reader, runs, overlapped>>
    BY <1>2 DEF OpenFile, Target, AtWork
  <2> HIDE DEF x
  <2> QED
    BY <2>2, <2>4, <2>5, NewRowIsRow, WriteKeeps
<1>3. CASE CloseFile(w)
  <2>1. /\ worker[w].step = "writing" /\ AtWork(w) /\ Busy(w)
        /\ UNCHANGED <<refVars, row, reader, runs, overlapped>>
    BY <1>3 DEF CloseFile, AtWork, Busy
  <2>2. PICK c \in {worker[w].data} \cup
            {t \in {Torn} : \E v \in Worker \ {w} :
                worker[v].report = worker[w].report /\ worker[v].step = "writing"} :
          file' = [file EXCEPT ![Path(Target(w))] = c]
    BY <1>3 DEF CloseFile, Target
  <2> DEFINE x == [worker[w] EXCEPT !.step = "written"]
  <2>3. worker' = [worker EXCEPT ![w] = x]
    BY <1>3 DEF CloseFile, Goes
  <2>4. "written" \in Step
    BY DEF Step
  <2>5. /\ x \in Slot /\ x.step = "written" /\ x.report = Target(w)
        /\ x.loaded = worker[w].loaded /\ x.data = worker[w].data
    BY <1>0, <2>4, SlotMoved DEF Target
  <2>6. c \in Bytes
    BY <1>0, <2>2, NewRowIsRow DEF Slot
  <2>7. Target(w) \notin overlapped => x.data \in Content /\ c = x.data
    <3>1. ASSUME Target(w) \notin overlapped PROVE c = worker[w].data
      <4>1. \A v \in Worker \ {w} : Busy(v) => Target(v) # Target(w)
        BY <1>0, <1>t, <2>1, <3>1 DEF CoreInv, TasksInv, OneExecution, Active, Busy, Target
      <4> QED
        BY <2>2, <4>1 DEF Busy, Target
    <3>2. Target(w) \notin overlapped => worker[w].data \in Content
      BY <1>0, <2>1 DEF CoreInv, TasksInv, WorkIsMarked
    <3> QED
      BY <2>5, <3>1, <3>2
  <2> HIDE DEF x
  <2> QED
    BY <2>1, <2>2, <2>3, <2>5, <2>6, <2>7, WriteKeeps
<1>4. CASE Hash(w)
  <2> DEFINE c == file[Path(Target(w))]
             x == [worker[w] EXCEPT !.step = "hashed", !.data = c]
  <2>1. /\ worker[w].step = "written" /\ AtWork(w) /\ Busy(w)
        /\ worker' = [worker EXCEPT ![w] = x]
        /\ UNCHANGED <<refVars, row, file, reader, runs, overlapped>>
    BY <1>4 DEF Hash, AtWork, Busy, Target
  <2>2. c \in Bytes /\ "hashed" \in Step
    BY <1>0, <1>t, <2>1, PathsApart DEF CoreInv, CoreTypeOK, Step
  <2>3. /\ x \in Slot /\ x.step = "hashed" /\ x.report = Target(w)
        /\ x.loaded = worker[w].loaded /\ x.data = c
    <3> HIDE DEF c
    <3> QED
      BY <1>0, <2>2 DEF Slot, Target
  <2>4. Target(w) \notin overlapped => /\ worker[w].loaded = row[Target(w)]
                                      /\ file[Path(Target(w))] \in Content
    BY <1>0, <2>1 DEF CoreInv, TasksInv, WorkIsMarked, LoadedIsRow
  <2> HIDE DEF x
  <2> QED
    BY <1>t, <2>1, <2>3, <2>4, QuietSlotKeeps
<1>5. CASE CommitCompleted(w)
  <2> DEFINE object == [status |-> "Completed", checksum |-> worker[w].data, error |-> FALSE]
  <2>1. /\ worker[w].step = "hashed" /\ AtWork(w) /\ Busy(w) /\ UpdateRow(w, object) /\ Finish(w)
        /\ UNCHANGED <<refVars, file, reader, runs, overlapped>>
    BY <1>5 DEF CommitCompleted, AtWork, Busy
  <2>2. (worker[w].data \in Content \cup {Torn, None} => object \in Row)
        /\ object.checksum = worker[w].data
    BY DEF Row, Status
  <2>3. worker[w].data \in Content \cup {Torn, None}
    BY <1>0 DEF Slot, Bytes
  <2>4. Target(w) \notin overlapped =>
          file[Path(Target(w))] \in Content /\ file[Path(Target(w))] = worker[w].data
    BY <1>0, <2>1 DEF CoreInv, TasksInv, WorkIsMarked
  <2> HIDE DEF object
  <2> QED
    BY <2>1, <2>2, <2>3, <2>4, LastCommitKeeps
<1>6. CASE CommitFailed(w)
  <2> DEFINE object == [worker[w].loaded EXCEPT !.status = "Failed", !.error = TRUE]
  <2>1. /\ Busy(w) /\ UpdateRow(w, object) /\ Finish(w)
        /\ UNCHANGED <<refVars, file, reader, runs, overlapped>>
    BY <1>6 DEF CommitFailed, Busy
  <2>2. object \in Row /\ object.status # "Completed"
    BY <1>0 DEF Slot, Row, Status
  <2> HIDE DEF object
  <2> QED
    BY <2>1, <2>2, LastCommitKeeps
<1>7. CASE Raise(w)
  <2> DEFINE o == row[Target(w)]
             x == [worker[w] EXCEPT !.step = "failing", !.loaded = o]
  <2>1. /\ Busy(w) /\ worker' = [worker EXCEPT ![w] = x]
        /\ UNCHANGED <<refVars, row, file, reader, runs, overlapped>>
    BY <1>7 DEF Raise, Busy, Target
  <2>2. "failing" \in Step
    BY DEF Step
  <2>3. x \in Slot /\ x.step = "failing" /\ x.report = Target(w) /\ x.loaded = o
    <3>1. o \in Row
      BY <1>t, <2>1
    <3> HIDE DEF o
    <3> QED
      BY <1>0, <2>2, <3>1 DEF Slot, Target
  <2> HIDE DEF x
  <2> QED
    BY <1>t, <2>1, <2>3, QuietSlotKeeps
<1>8. CASE Ack(w) \/ KillChild(w) \/ KillWorker(w)
  <2>1. /\ worker' = [worker EXCEPT ![w] = Idle]
        /\ UNCHANGED <<refVars, row, file, reader, runs, overlapped>>
    BY <1>8 DEF Ack, KillChild, KillWorker, Restore
  <2> QED
    BY <1>i, <2>1, QuietSlotKeeps
<1>9. CASE VisibilityTimeout(w)
  <2>1. UNCHANGED Core /\ [Next]_refVars
    BY <1>9 DEF VisibilityTimeout, Core
  <2> QED
    BY <2>1, HandlerKeeps
<1> QED
  BY <1>1, <1>2, <1>3, <1>4, <1>5, <1>6, <1>7, <1>8, <1>9 DEF Work

LEMMA PipeStepInv == PipeInv /\ [PipeNext]_vars => PipeInv'
<1> SUFFICES ASSUME PipeInv, [PipeNext]_vars PROVE PipeInv'
  OBVIOUS
<1>1. RefInv'
  BY StepAllocates, RefStepInv DEF PipeInv
<1>2. Broker'
  BY BrokerTyped DEF PipeInv, TasksInv
<1>3. CoreInv'
  <2>0. [Next]_refVars
    BY StepAllocates
  <2>1. ASSUME NEW r \in Request, Handler(r) \/ AbortReport(r) PROVE CoreInv'
    <3>1. UNCHANGED Core
      BY <2>1 DEF Handler, Allocate, Enqueue, CommitReport, AbortReport, pipeVars, Core
    <3> QED
      BY <2>0, <3>1, HandlerKeeps
  <2>2. ASSUME NEW r \in Request, NEW w \in Worker, TakeMissing(w, r) PROVE CoreInv'
    <3>1. Done(r) \in Slot /\ Done(r).step = "finished" /\ Done(r).report = r
      BY NewRowIsRow DEF Done, Slot, Step
    <3>2. /\ worker' = [worker EXCEPT ![w] = Done(r)]
          /\ UNCHANGED <<refVars, row, file, reader, runs, overlapped>>
      BY <2>2 DEF TakeMissing
    <3> QED
      BY <3>1, <3>2, QuietSlotKeeps
  <2>3. ASSUME NEW r \in Request, Deliver(r) PROVE CoreInv'
    BY <2>2, <2>3, TakeKeeps DEF Deliver
  <2>4. CASE UNCHANGED vars
    <3>1. UNCHANGED Core
      BY <2>4 DEF vars, pipeVars, Core
    <3> QED
      BY <2>0, <3>1, HandlerKeeps
  <2> QED
    BY <2>1, <2>3, <2>4, WorkerKeeps, DownloadKeeps DEF PipeNext
<1>4. (PipeInv <=> RefInv /\ Broker /\ CoreInv)'
  BY InvHasParts, PTL
<1> QED
  BY <1>1, <1>2, <1>3, <1>4

-----------------------------------------------------------------------------
\* The inductive invariant of the pipeline, for any constants and faults.
THEOREM PipeInvHolds == PipeSafeSpec => []PipeInv
<1> QED
  BY PipeInitInv, PipeStepInv, PTL DEF PipeSafeSpec

\* Type correctness of requests, broker, rows, files, workers and downloads.
THEOREM PipeTypeCorrect == PipeSafeSpec => []PipeTypeOK
<1>1. PipeInv => PipeTypeOK
  BY DEF PipeInv
<1> QED
  BY PipeInvHolds, <1>1, PTL

\* The file of a Completed report is at every moment the whole content its
\* checksum was computed from, whatever was killed, raised or redelivered, unless
\* the broker ran its task twice at once (generate_report).
THEOREM CertifiedFileHolds == PipeSafeSpec => []CertifiedFile
<1>1. PipeInv => CertifiedFile
  BY DEF PipeInv, TasksInv
<1> QED
  BY PipeInvHolds, <1>1, PTL

\* Every file belongs to one committed report: the task of a request that was
\* rolled back writes none, and paths are as distinct as the references.
THEOREM FilesAreOwnedHolds == PipeSafeSpec => []FilesAreOwned
<1>1. PipeInv => FilesAreOwned
  <2> SUFFICES ASSUME PipeInv, NEW n \in DOMAIN file, file[n] # None
               PROVE  \E r \in Committed : Path(r) = n /\ \A q \in Committed \ {r} : Path(q) # n
    BY DEF FilesAreOwned
  <2>1. PICK r \in Committed : Path(r) = n
    BY DEF PipeInv, TasksInv, FilesHaveReports
  <2>2. \A q \in Committed \ {r} : Path(q) # n
    BY <2>1, PathsApart DEF PipeInv
  <2> QED
    BY <2>1, <2>2
<1> QED
  BY PipeInvHolds, <1>1, PTL

\* A download delivers the bytes its header certifies, although the file is
\* opened after the row was read, unless an execution was marked Running in
\* between (download_report, FileResponse).
THEOREM DownloadCertifiedHolds == PipeSafeSpec => []DownloadCertified
<1>1. PipeInv => DownloadCertified
  BY DEF PipeInv, ReadsInv
<1> QED
  BY PipeInvHolds, <1>1, PTL

-----------------------------------------------------------------------------
\* What CertifiedExport shows of a report that a step does not concern.
LEMMA ShownKept ==
  ASSUME NEW r \in Request,
         r \in Committed <=> r \in Committed', r \in overlapped <=> r \in overlapped',
         row'[r] = row[r],
         (r \in Committed /\ r \notin overlapped /\ row[r].status = "Completed") =>
            file'[Path(r)'] = file[Path(r)]
  PROVE  ShownStatus(r)' = ShownStatus(r) /\ ShownContent(r)' = ShownContent(r)
<1>1. ShownStatus(r)' = ShownStatus(r)
  BY DEF ShownStatus
<1>2. ShownStatus(r) = "Completed" =>
        r \in Committed /\ r \notin overlapped /\ row[r].status = "Completed"
  BY DEF ShownStatus
<1> QED
  BY <1>1, <1>2 DEF ShownContent

\* A step that concerns one report.
LEMMA OneShown ==
  ASSUME NEW r \in Request, NEW s, NEW c,
         ShownStatus(r)' = s, ShownContent(r)' = c,
         \A q \in Request \ {r} :
            ShownStatus(q)' = ShownStatus(q) /\ ShownContent(q)' = ShownContent(q)
  PROVE  Export!Show(r, s, c)
  BY DEF Export!Show

LEMMA NothingShown ==
  ASSUME \A q \in Request : ShownStatus(q)' = ShownStatus(q) /\ ShownContent(q)' = ShownContent(q)
  PROVE  UNCHANGED Export!vars
  BY DEF Export!vars

LEMMA ExportInit == PipeInit => Export!Init
<1> SUFFICES ASSUME PipeInit PROVE Export!Init
  OBVIOUS
<1>1. \A r \in Request : ShownStatus(r) = "Absent"
  BY DEF PipeInit, Init, Committed, ShownStatus
<1>2. \A r \in Request : ShownContent(r) = None
  BY <1>1 DEF ShownContent
<1> QED
  BY <1>1, <1>2 DEF Export!Init

\* A committed report that was not in two workers shows its own status.
LEMMA ShowsItsStatus ==
  ASSUME PipeInv, NEW r \in Committed \ overlapped
  PROVE  ShownStatus(r) = row[r].status /\ ShownStatus(r) \in Export!Live
<1>1. row[r] \in Row
  BY InvHasParts DEF CoreInv, CoreTypeOK, Committed
<1> QED
  BY <1>1 DEF ShownStatus, Row, Status, Export!Live

\* A step of the API handler other than its commit, of a download or of a task
\* that writes no row shows nothing.
LEMMA QuietShowsNothing ==
  ASSUME PipeInv, UNCHANGED <<row, overlapped>>, Committed' = Committed,
         \A q \in Committed : ref'[q] = ref[q],
         \A q \in Committed \ overlapped :
             row[q].status = "Completed" => file'[Path(q)] = file[Path(q)]
  PROVE  UNCHANGED Export!vars
<1>1. \A q \in Committed : Path(q)' = Path(q)
  BY DEF Path
<1>2. ASSUME NEW q \in Request
      PROVE  ShownStatus(q)' = ShownStatus(q) /\ ShownContent(q)' = ShownContent(q)
  BY <1>1, ShownKept
<1> QED
  BY <1>2, NothingShown

\* A commit of a task shows the new row of its report and nothing else, or
\* nothing when the report is out of the promise.
LEMMA RowIsShown ==
  ASSUME PipeInv, NEW w \in Worker, NEW r \in Request, r = Target(w), Busy(w),
         NEW object \in Row, UpdateRow(w, object), UNCHANGED <<refVars, file, overlapped>>
  PROVE  /\ r \in overlapped => UNCHANGED Export!vars
         /\ r \notin overlapped =>
              Export!Show(r, object.status,
                          IF object.status = "Completed" THEN file[Path(r)] ELSE None)
<1>0. CoreInv /\ worker[w] \in Slot
  BY InvHasParts, SlotTyped DEF PipeInv
<1>1. r \in Committed /\ row \in [Request -> Row]
  BY <1>0 DEF CoreInv, TasksInv, TasksHaveRows, Committed, CoreTypeOK
<1>2. row' = [row EXCEPT ![r] = Flush(row[r], worker[w].loaded, object)]
  BY DEF UpdateRow, Target
<1>3. r \notin overlapped => row'[r] = object
  BY <1>0, <1>1, <1>2, FlushStores DEF CoreInv, TasksInv, LoadedIsRow, Slot
<1>4. /\ file' = file /\ overlapped' = overlapped /\ Committed' = Committed
      /\ \A q : Path(q)' = Path(q)
  BY DEF refVars, Committed, Path
<1>5. ASSUME NEW q \in Request, q # r
      PROVE  ShownStatus(q)' = ShownStatus(q) /\ ShownContent(q)' = ShownContent(q)
  <2>1. row'[q] = row[q]
    BY <1>1, <1>2, <1>5
  <2> QED
    BY <1>4, <2>1, ShownKept
<1>6. ASSUME r \in overlapped PROVE UNCHANGED Export!vars
  <2>1. ShownStatus(r)' = "Spoiled" /\ ShownStatus(r) = "Spoiled"
    BY <1>1, <1>4, <1>6 DEF ShownStatus
  <2>2. ShownContent(r)' = None /\ ShownContent(r) = None
    BY <2>1 DEF ShownContent
  <2> QED
    BY <1>5, <2>1, <2>2, NothingShown
<1>7. ASSUME r \notin overlapped
      PROVE  Export!Show(r, object.status,
                         IF object.status = "Completed" THEN file[Path(r)] ELSE None)
  <2>1. ShownStatus(r)' = object.status
    BY <1>1, <1>3, <1>4, <1>7 DEF ShownStatus
  <2>2. ShownContent(r)' = IF object.status = "Completed" THEN file[Path(r)] ELSE None
    BY <1>4, <2>1 DEF ShownContent
  <2> QED
    BY <1>1, <1>5, <2>1, <2>2, OneShown
<1> QED
  BY <1>6, <1>7

\* Every step of the pipeline is a step of the abstract export, or a stutter.
LEMMA ExportStep == PipeInv /\ [PipeNext]_vars => [Export!Next]_(Export!vars)
<1> SUFFICES ASSUME PipeInv, [PipeNext]_vars PROVE [Export!Next]_(Export!vars)
  OBVIOUS
<1>0. RefInv /\ CoreInv
  BY InvHasParts
<1>r. Committed \subseteq Committed' /\ \A q \in Committed : ref'[q] = ref[q]
  BY <1>0, CommittedKept, StepAllocates
<1>k. Committed \subseteq Request /\ Committed' \subseteq Request
  BY DEF Committed
<1>1. ASSUME NEW r \in Request, Handler(r) \/ AbortReport(r) PROVE [Export!Next]_(Export!vars)
  <2>0. row' = row /\ overlapped' = overlapped /\ file' = file
    BY <1>1 DEF Handler, Allocate, Enqueue, CommitReport, AbortReport, pipeVars
  <2>1. CASE CommitReport(r)
    <3>1. Committed' = Committed \cup {r} /\ r \notin Committed
      BY <1>0, <2>1 DEF CommitReport, Commit, Committed, RefInv, RefTypeOK
    <3>2. ShownStatus(r) = "Absent"
      BY <3>1 DEF ShownStatus
    <3>3. r \notin overlapped /\ row[r].status = "Queued"
      BY <1>0, <3>1 DEF CoreInv, TasksInv, TasksHaveRows, NewRow
    <3>4. ShownStatus(r)' = "Queued"
      BY <2>0, <3>1, <3>3 DEF ShownStatus
    <3>5. ShownContent(r)' = None
      BY <3>4 DEF ShownContent
    <3>6. ASSUME NEW q \in Request \ {r}
          PROVE  ShownStatus(q)' = ShownStatus(q) /\ ShownContent(q)' = ShownContent(q)
      <4>1. q \in Committed => Path(q)' = Path(q)
        BY <1>r DEF Path
      <4> QED
        BY <2>0, <3>1, <4>1, ShownKept
    <3>7. Export!Show(r, "Queued", None)
      BY <3>4, <3>5, <3>6, OneShown
    <3> QED
      BY <3>2, <3>7 DEF Export!Next, Export!Accept
  <2>2. CASE ~CommitReport(r)
    <3>1. Committed' = Committed
      BY <1>0, <1>1, <2>2 DEF Handler, Allocate, Enqueue, AbortReport, Count, Insert, Conflict,
           Abort, Committed, RefInv, RefTypeOK, refVars
    <3> QED
      BY <1>r, <2>0, <3>1, QuietShowsNothing
  <2> QED
    BY <2>1, <2>2
<1>2. ASSUME NEW w \in Worker, NEW r \in Request, Take(w, r) PROVE [Export!Next]_(Export!vars)
  <2>1. /\ row' = row /\ file' = file /\ Committed' = Committed /\ ref' = ref
        /\ overlapped \subseteq overlapped' /\ overlapped' \subseteq overlapped \cup {r}
        /\ r \in Committed
    BY <1>2 DEF Take, refVars, Committed
  <2>2. CASE overlapped' = overlapped
    BY <1>r, <2>1, <2>2, QuietShowsNothing
  <2>3. CASE overlapped' # overlapped
    <3>1. r \notin overlapped /\ r \in overlapped'
      BY <2>1, <2>3
    <3>2. ShownStatus(r) \in Export!Live
      BY <2>1, <3>1, ShowsItsStatus
    <3>3. ShownStatus(r)' = "Spoiled"
      BY <2>1, <3>1 DEF ShownStatus
    <3>4. ShownContent(r)' = None
      BY <3>3 DEF ShownContent
    <3>5. ASSUME NEW q \in Request \ {r}
          PROVE  ShownStatus(q)' = ShownStatus(q) /\ ShownContent(q)' = ShownContent(q)
      <4>1. Path(q)' = Path(q) /\ (q \in overlapped <=> q \in overlapped')
        BY <2>1 DEF Path
      <4> QED
        BY <2>1, <4>1, ShownKept
    <3>6. Export!Show(r, "Spoiled", None)
      BY <3>3, <3>4, <3>5, OneShown
    <3> QED
      BY <3>2, <3>6 DEF Export!Next, Export!Spoil
  <2> QED
    BY <2>2, <2>3
<1>3. ASSUME NEW w \in Worker, CommitRunning(w) PROVE [Export!Next]_(Export!vars)
  <2> DEFINE object == [worker[w].loaded EXCEPT !.status = "Running"]
  <2>1. Busy(w) /\ UpdateRow(w, object) /\ UNCHANGED <<refVars, file, overlapped>>
    BY <1>3 DEF CommitRunning, Busy
  <2>2. object \in Row /\ object.status = "Running"
    <3>1. worker[w] \in Slot
      BY SlotTyped DEF PipeInv
    <3> QED
      BY <3>1 DEF Slot, Row, Status
  <2>3. PICK r \in Request : r = Target(w) /\ r \in Committed
    BY <1>0, <2>1 DEF CoreInv, TasksInv, TasksHaveRows, Committed
  <2> HIDE DEF object
  <2>4. r \notin overlapped => Export!Show(r, "Running", None)
    BY <2>1, <2>2, <2>3, RowIsShown
  <2>5. r \notin overlapped => ShownStatus(r) \in Export!Live
    BY <2>3, ShowsItsStatus
  <2>6. r \in overlapped => UNCHANGED Export!vars
    BY <2>1, <2>2, <2>3, RowIsShown
  <2> QED
    BY <2>3, <2>4, <2>5, <2>6 DEF Export!Next, Export!Start
<1>4. ASSUME NEW w \in Worker, CommitCompleted(w) PROVE [Export!Next]_(Export!vars)
  <2> DEFINE object == [status |-> "Completed", checksum |-> worker[w].data, error |-> FALSE]
  <2>1. /\ Busy(w) /\ UpdateRow(w, object) /\ UNCHANGED <<refVars, file, overlapped>>
        /\ AtWork(w) /\ worker[w].step = "hashed"
    BY <1>4 DEF CommitCompleted, Busy, AtWork
  <2>2. object \in Row /\ object.status = "Completed"
    <3>1. worker[w].data \in Content \cup {Torn, None}
      BY SlotTyped DEF PipeInv, Slot, Bytes
    <3> QED
      BY <3>1 DEF Row, Status
  <2>3. PICK r \in Request : r = Target(w) /\ r \in Committed
    BY <1>0, <2>1 DEF CoreInv, TasksInv, TasksHaveRows, Committed
  <2> HIDE DEF object
  <2>4. r \notin overlapped => Export!Show(r, "Completed", file[Path(r)])
    BY <2>1, <2>2, <2>3, RowIsShown
  <2>5. r \notin overlapped =>
          ShownStatus(r) = "Running" /\ file[Path(r)] \in Content
    BY <1>0, <2>1, <2>3, ShowsItsStatus DEF CoreInv, TasksInv, WorkIsMarked
  <2>6. r \in overlapped => UNCHANGED Export!vars
    BY <2>1, <2>2, <2>3, RowIsShown
  <2> QED
    BY <2>3, <2>4, <2>5, <2>6 DEF Export!Next, Export!Publish
<1>5. ASSUME NEW w \in Worker, CommitFailed(w) PROVE [Export!Next]_(Export!vars)
  <2> DEFINE object == [worker[w].loaded EXCEPT !.status = "Failed", !.error = TRUE]
  <2>1. Busy(w) /\ UpdateRow(w, object) /\ UNCHANGED <<refVars, file, overlapped>>
    BY <1>5 DEF CommitFailed, Busy
  <2>2. object \in Row /\ object.status = "Failed"
    <3>1. worker[w] \in Slot
      BY SlotTyped DEF PipeInv
    <3> QED
      BY <3>1 DEF Slot, Row, Status
  <2>3. PICK r \in Request : r = Target(w) /\ r \in Committed
    BY <1>0, <2>1 DEF CoreInv, TasksInv, TasksHaveRows, Committed
  <2> HIDE DEF object
  <2>4. r \notin overlapped => Export!Show(r, "Failed", None)
    BY <2>1, <2>2, <2>3, RowIsShown
  <2>5. r \notin overlapped => ShownStatus(r) \in Export!Live
    BY <2>3, ShowsItsStatus
  <2>6. r \in overlapped => UNCHANGED Export!vars
    BY <2>1, <2>2, <2>3, RowIsShown
  <2> QED
    BY <2>3, <2>4, <2>5, <2>6 DEF Export!Next, Export!Fail
<1>6. ASSUME NEW w \in Worker, OpenFile(w) \/ CloseFile(w) PROVE [Export!Next]_(Export!vars)
  <2>1. /\ AtWork(w) /\ Busy(w) /\ row' = row /\ overlapped' = overlapped
        /\ Committed' = Committed
        /\ \E c : file' = [file EXCEPT ![Path(Target(w))] = c]
    BY <1>6 DEF OpenFile, CloseFile, AtWork, Busy, Target, refVars, Committed
  <2>2. Target(w) \in Committed
    BY <1>0, <2>1 DEF CoreInv, TasksInv, TasksHaveRows
  <2>3. ASSUME NEW q \in Committed \ overlapped, row[q].status = "Completed"
        PROVE  file'[Path(q)] = file[Path(q)]
    <3>1. q # Target(w)
      BY <1>0, <2>1, <2>3 DEF CoreInv, TasksInv, WorkIsMarked
    <3>2. Path(q) # Path(Target(w)) /\ Path(q) \in 1 .. Cardinality(Request)
      BY <1>0, <2>2, <3>1, PathsApart
    <3>3. file \in [1 .. Cardinality(Request) -> Bytes]
      BY <1>0 DEF CoreInv, CoreTypeOK
    <3> QED
      BY <2>1, <3>2, <3>3
  <2> QED
    BY <1>r, <2>1, <2>3, QuietShowsNothing
<1>7. ASSUME row' = row, file' = file, overlapped' = overlapped, Committed' = Committed
      PROVE  UNCHANGED Export!vars
  BY <1>r, <1>7, QuietShowsNothing
<1>8. ASSUME NEW w \in Worker,
             \/ \E r \in Request : TakeMissing(w, r)
             \/ Hash(w) \/ Ack(w) \/ Raise(w) \/ KillChild(w) \/ KillWorker(w) \/ VisibilityTimeout(w)
      PROVE  UNCHANGED Export!vars
  <2>1. row' = row /\ file' = file /\ overlapped' = overlapped /\ UNCHANGED refVars
    BY <1>8 DEF TakeMissing, Hash, Ack, Raise, KillChild, KillWorker, VisibilityTimeout
  <2> QED
    BY <1>7, <2>1 DEF refVars, Committed
<1>9. ASSUME NEW d \in Reader, Stream(d) \/ \E r \in Request : StartDownload(d, r)
      PROVE  UNCHANGED Export!vars
  <2>1. row' = row /\ file' = file /\ overlapped' = overlapped /\ UNCHANGED refVars
    BY <1>9 DEF Stream, StartDownload
  <2> QED
    BY <1>7, <2>1 DEF refVars, Committed
<1>10. CASE UNCHANGED vars
  <2>1. row' = row /\ file' = file /\ overlapped' = overlapped /\ UNCHANGED refVars
    BY <1>10 DEF vars, pipeVars
  <2> QED
    BY <1>7, <2>1 DEF refVars, Committed
<1> QED
  BY <1>1, <1>2, <1>3, <1>4, <1>5, <1>6, <1>8, <1>9, <1>10 DEF PipeNext, Deliver, Work

\* POST /reports, the task and the download publish an export in one step, as
\* CertifiedExport says: no reader of the table and the file sees a Completed
\* report whose file is being rewritten.
THEOREM PublishesAtomicallyHolds == PipeSafeSpec => PublishesAtomically
<1> QED
  BY ExportInit, ExportStep, PipeInvHolds, PTL DEF PipeSafeSpec, PublishesAtomically, Export!Spec

-----------------------------------------------------------------------------
\* The allocation inside the pipeline.  Whatever the workers, the broker and the
\* downloads do, the reports' references are those of ReferenceNumbers.
THEOREM PipelineAllocates == PipeSafeSpec => RefSafeSpec
<1>1. PipeInit => Init
  BY DEF PipeInit
<1> QED
  BY <1>1, StepAllocates, PTL DEF PipeSafeSpec, RefSafeSpec

-----------------------------------------------------------------------------
(* One delivery at a time.  A broker that never gives a task away while its *)
(* worker is at it hands it to one worker at a time, through every death:   *)
(* the task is in the queue or in one slot and never in two places.         *)

\* The slot has r's task, at work or waiting to acknowledge it.
Holds(w, r) == worker[w].step # "idle" /\ worker[w].report = r

OneCopy ==
    /\ \A r \in Request : queue[r] \in {0, 1}
    /\ \A r \in Request \ offered : queue[r] = 0
    /\ \A r \in Request, w \in Worker : Holds(w, r) => queue[r] = 0 /\ r \in offered
    /\ \A r \in Request, v, w \in Worker : Holds(v, r) /\ Holds(w, r) => v = w
    /\ overlapped = {}

LEMMA OneCopyInit == PipeInit => OneCopy
  BY DEF PipeInit, OneCopy, Holds, Idle

\* A step that hands no task out and puts none in the queue.
LEMMA OneCopyQuiet ==
  ASSUME OneCopy, queue' = queue, offered' = offered, overlapped' = overlapped,
         \A w \in Worker, r \in Request : Holds(w, r)' => Holds(w, r)
  PROVE  OneCopy'
  BY DEF OneCopy

LEMMA OneCopyStep ==
  ASSUME "visibility_timeout" \notin Fault, PipeInv, OneCopy, [PipeNext]_vars
  PROVE  OneCopy'
<1>0. /\ PipeTypeOK /\ queue \in [Request -> Nat] /\ worker \in [Worker -> Slot]
      /\ \A w \in Worker : /\ worker[w].step = "idle" => worker[w].report = None
                           /\ worker[w].step # "idle" => worker[w].report \in Request
  BY DEF PipeInv, PipeTypeOK, Slot, TasksInv, TasksHaveRows, Target
<1>1. ASSUME NEW r \in Request, Allocate(r) \/ CommitReport(r) \/ AbortReport(r) PROVE OneCopy'
  <2>1. UNCHANGED pipeVars
    BY <1>1 DEF Allocate, CommitReport, AbortReport
  <2> QED
    BY <2>1, OneCopyQuiet DEF pipeVars, Holds
<1>2. ASSUME NEW r \in Request, Enqueue(r) PROVE OneCopy'
  <2>1. /\ r \notin offered /\ offered' = offered \cup {r} /\ overlapped' = overlapped
        /\ worker' = worker /\ (queue' = [queue EXCEPT ![r] = @ + 1] \/ queue' = queue)
    BY <1>2 DEF Enqueue
  <2>2. /\ \A q \in Request \ {r} : queue'[q] = queue[q]
        /\ queue[r] = 0 /\ queue'[r] \in {0, 1}
    BY <1>0, <2>1 DEF OneCopy
  <2>3. \A w \in Worker, q \in Request : (Holds(w, q)' <=> Holds(w, q)) /\ ~Holds(w, r)
    BY <2>1 DEF OneCopy, Holds
  <2> HIDE DEF Holds
  <2> QED
    BY <2>1, <2>2, <2>3 DEF OneCopy
<1>3. ASSUME NEW r \in Request, NEW w \in Worker, Take(w, r) \/ TakeMissing(w, r) PROVE OneCopy'
  <2>1. /\ worker[w].step = "idle" /\ queue[r] > 0
        /\ queue' = [queue EXCEPT ![r] = @ - 1] /\ offered' = offered
    BY <1>3 DEF Take, TakeMissing
  <2>2. /\ queue[r] = 1 /\ queue'[r] = 0
        /\ \A q \in Request \ {r} : queue'[q] = queue[q]
    BY <1>0, <2>1 DEF OneCopy
  <2>3. /\ worker'[w].step # "idle" /\ worker'[w].report = r
        /\ \A v \in Worker \ {w} : worker'[v] = worker[v]
    BY <1>0, <1>3 DEF Take, TakeMissing, Done
  <2>4. \A v \in Worker \ {w}, q \in Request : Holds(v, q)' <=> Holds(v, q)
    BY <2>3 DEF Holds
  <2>5. \A q \in Request : Holds(w, q)' <=> q = r
    BY <2>3 DEF Holds
  <2>6. \A v \in Worker : ~Holds(v, r)
    BY <2>2 DEF OneCopy
  <2>7. overlapped' = overlapped
    <3>1. \A v \in Worker : ~Active(v, r)
      BY <1>0, <2>6, PipelineAssumption DEF Active, Holds
    <3> QED
      BY <1>3, <3>1 DEF Take, TakeMissing
  <2>8. r \in offered
    BY <2>2 DEF OneCopy
  <2> HIDE DEF Holds
  <2> QED
    BY <2>1, <2>2, <2>4, <2>5, <2>6, <2>7, <2>8 DEF OneCopy
<1>4. ASSUME NEW w \in Worker, KillWorker(w) PROVE OneCopy'
  <2> DEFINE r == worker[w].report
  <2>1. /\ r \in Request /\ Holds(w, r) /\ queue' = [queue EXCEPT ![r] = @ + 1]
        /\ worker' = [worker EXCEPT ![w] = Idle]
        /\ offered' = offered /\ overlapped' = overlapped
    BY <1>0, <1>4 DEF KillWorker, Restore, Holds
  <2>2. /\ queue'[r] = 1 /\ r \in offered
        /\ \A q \in Request \ {r} : queue'[q] = queue[q]
    BY <1>0, <2>1 DEF OneCopy
  <2>3. \A q \in Request : ~Holds(w, q)'
    BY <1>0, <2>1 DEF Holds, Idle
  <2>4. \A v \in Worker \ {w}, q \in Request : (Holds(v, q)' <=> Holds(v, q))
    BY <1>0, <2>1 DEF Holds
  <2>5. \A v \in Worker \ {w} : ~Holds(v, r)
    BY <2>1 DEF OneCopy
  <2> HIDE DEF Holds, r
  <2> QED
    BY <2>1, <2>2, <2>3, <2>4, <2>5 DEF OneCopy
<1>5. ASSUME NEW w \in Worker, NEW x \in Slot, worker' = [worker EXCEPT ![w] = x],
             x.step # "idle" => worker[w].step # "idle" /\ x.report = worker[w].report,
             queue' = queue, offered' = offered, overlapped' = overlapped
      PROVE  OneCopy'
  <2>1. worker'[w] = x /\ \A v \in Worker \ {w} : worker'[v] = worker[v]
    BY <1>0, <1>5
  <2>2. \A v \in Worker, q \in Request : Holds(v, q)' => Holds(v, q)
    BY <1>5, <2>1 DEF Holds
  <2> QED
    BY <1>5, <2>2, OneCopyQuiet
<1>6. ASSUME NEW w \in Worker, Work(w) \/ Raise(w) \/ KillChild(w) PROVE OneCopy'
  <2>1. queue' = queue /\ offered' = offered /\ overlapped' = overlapped
    BY <1>6 DEF Work, CommitRunning, OpenFile, CloseFile, Hash, CommitCompleted, CommitFailed,
         Ack, Raise, KillChild
  <2>2. \A v \in Worker \ {w} : worker'[v] = worker[v]
    BY <1>0, <1>6 DEF Work, CommitRunning, OpenFile, CloseFile, Hash, CommitCompleted,
         CommitFailed, Ack, Raise, KillChild, Goes, Finish
  <2>3. worker'[w].step # "idle" =>
          worker[w].step # "idle" /\ worker'[w].report = worker[w].report
    <3> DEFINE k == worker[w]
    <3>1. k \in Slot
      BY <1>0
    <3>2. CASE CommitRunning(w)
      <4> DEFINE o == [k.loaded EXCEPT !.status = "Running"]
      <4>1. worker'[w] = [k EXCEPT !.step = "running", !.loaded = o] /\ k.step = "loaded"
        BY <1>0, <3>2 DEF CommitRunning
      <4> HIDE DEF k, o
      <4>2. worker'[w].report = k.report
        BY <3>1, <4>1 DEF Slot
      <4> QED
        BY <4>1, <4>2 DEF k
    <3>3. CASE OpenFile(w)
      <4>1. PICK c \in Content : worker'[w] = [k EXCEPT !.step = "writing", !.data = c]
        BY <1>0, <3>3 DEF OpenFile
      <4>2. worker[w].step = "running"
        BY <3>3 DEF OpenFile
      <4> HIDE DEF k
      <4>3. worker'[w].report = k.report
        BY <3>1, <4>1 DEF Slot
      <4> QED
        BY <4>2, <4>3 DEF k
    <3>4. CASE CloseFile(w)
      <4>1. worker'[w] = [k EXCEPT !.step = "written"] /\ k.step = "writing"
        BY <1>0, <3>4 DEF CloseFile, Goes
      <4> QED
        BY <3>1, <4>1 DEF Slot
    <3>5. CASE Hash(w)
      <4> DEFINE c == file[Path(worker[w].report)]
      <4>1. worker'[w] = [k EXCEPT !.step = "hashed", !.data = c] /\ k.step = "written"
        BY <1>0, <3>5 DEF Hash
      <4> HIDE DEF k, c
      <4>2. worker'[w].report = k.report
        BY <3>1, <4>1 DEF Slot
      <4> QED
        BY <4>1, <4>2 DEF k
    <3>6. CASE CommitCompleted(w) \/ CommitFailed(w)
      BY <1>0, <3>6 DEF CommitCompleted, CommitFailed, Finish, Done
    <3>7. CASE Ack(w) \/ KillChild(w)
      BY <1>0, <3>7 DEF Ack, KillChild, Idle
    <3>8. CASE Raise(w)
      <4> DEFINE o == row[worker[w].report]
      <4>1. worker'[w] = [k EXCEPT !.step = "failing", !.loaded = o] /\ k.step # "idle"
        BY <1>0, <3>8 DEF Raise
      <4> HIDE DEF k, o
      <4>2. worker'[w].report = k.report
        BY <3>1, <4>1 DEF Slot
      <4> QED
        BY <4>1, <4>2 DEF k
    <3> QED
      BY <1>6, <3>2, <3>3, <3>4, <3>5, <3>6, <3>7, <3>8 DEF Work
  <2>4. \A v \in Worker, q \in Request : Holds(v, q)' => Holds(v, q)
    BY <2>2, <2>3 DEF Holds
  <2> QED
    BY <2>1, <2>4, OneCopyQuiet
<1>7. ASSUME (\E d \in Reader : (\E r \in Request : StartDownload(d, r)) \/ Stream(d))
             \/ UNCHANGED vars
      PROVE  OneCopy'
  <2>1. queue' = queue /\ offered' = offered /\ overlapped' = overlapped /\ worker' = worker
    BY <1>7 DEF StartDownload, Stream, vars, pipeVars
  <2> QED
    BY <2>1, OneCopyQuiet DEF Holds
<1>8. \A w \in Worker : ~VisibilityTimeout(w)
  BY DEF VisibilityTimeout
<1> QED
  BY <1>1, <1>2, <1>3, <1>4, <1>6, <1>7, <1>8 DEF PipeNext, Handler, Deliver

OneDelivery == "visibility_timeout" \notin Fault => OneCopy

LEMMA OneDeliveryHolds == PipeSafeSpec => []OneDelivery
<1>1. PipeInit => OneDelivery
  BY OneCopyInit DEF OneDelivery
<1>2. PipeInv /\ OneDelivery /\ [PipeNext]_vars => OneDelivery'
  BY OneCopyStep DEF OneDelivery
<1> QED
  BY <1>1, <1>2, PipeInvHolds, PTL DEF PipeSafeSpec

\* With no visibility timeout shorter than a task, no task runs twice at once,
\* whatever dies or is redelivered (celery_app.py: acks_late, prefetch 1).
THEOREM NeverTwiceAtOnce ==
  PipeSafeSpec => []("visibility_timeout" \notin Fault => overlapped = {})
<1>1. OneDelivery => ("visibility_timeout" \notin Fault => overlapped = {})
  BY DEF OneDelivery, OneCopy
<1> QED
  BY <1>1, OneDeliveryHolds, PTL

\* ... so every Completed report has the file it certifies, without exception.
THEOREM CertifiedWithoutTimeout ==
  PipeSafeSpec => []("visibility_timeout" \notin Fault =>
                       \A r \in Committed : row[r].status = "Completed" =>
                           file[Path(r)] \in Content /\ file[Path(r)] = row[r].checksum)
<1>1. CertifiedFile /\ overlapped = {} =>
        \A r \in Committed : row[r].status = "Completed" =>
            file[Path(r)] \in Content /\ file[Path(r)] = row[r].checksum
  BY DEF CertifiedFile
<1> QED
  BY <1>1, NeverTwiceAtOnce, CertifiedFileHolds, PTL

-----------------------------------------------------------------------------
(* What Running means.  A report that says Running is in a worker that will *)
(* change it, in the queue, or lost with a pool child.                      *)

\* An execution of r whose commit would still change the status: one that read
\* Failed when it rolled back writes Failed over nothing.
Settling(w, r) ==
    /\ Active(w, r)
    /\ worker[w].step = "failing" => worker[w].loaded.status # "Failed"

RunningIsExplained ==
    \A r \in Request : row[r].status = "Running" =>
        \/ \E w \in Worker : Settling(w, r)
        \/ queue[r] > 0
        \/ r \in lost

\* An execution past its first commit holds an object that says Running, also
\* where two of them overlap.
MarkedInv == \A w \in Worker : AtWork(w) => worker[w].loaded.status = "Running"

\* What a step of one slot has to show.
LEMMA ExplainedStep ==
  ASSUME RunningIsExplained, NEW w \in Worker,
         \A v \in Worker \ {w} : worker'[v] = worker[v],
         lost \subseteq lost',
         \A r \in Request : row'[r].status = "Running" =>
            \/ Settling(w, r)' \/ queue'[r] > 0 \/ r \in lost'
            \/ row[r].status = "Running" /\ ~Settling(w, r) /\ (queue[r] > 0 => queue'[r] > 0)
  PROVE  RunningIsExplained'
<1> SUFFICES ASSUME NEW r \in Request, row'[r].status = "Running"
             PROVE  (\E v \in Worker : Settling(v, r)') \/ queue'[r] > 0 \/ r \in lost'
  BY DEF RunningIsExplained
<1>1. CASE Settling(w, r)' \/ queue'[r] > 0 \/ r \in lost'
  BY <1>1
<1>2. CASE row[r].status = "Running" /\ ~Settling(w, r) /\ (queue[r] > 0 => queue'[r] > 0)
  <2>1. ASSUME NEW v \in Worker, Settling(v, r) PROVE Settling(v, r)'
    <3>1. worker'[v] = worker[v]
      BY <1>2, <2>1
    <3> QED
      BY <2>1, <3>1 DEF Settling, Active
  <2> QED
    BY <1>2, <2>1 DEF RunningIsExplained
<1> QED
  BY <1>1, <1>2

\* A step that leaves rows, queue and lost tasks alone and moves one slot on.
LEMMA SlotExplained ==
  ASSUME RunningIsExplained, MarkedInv, worker \in [Worker -> Slot], NEW w \in Worker,
         NEW x \in Slot, worker' = [worker EXCEPT ![w] = x],
         row' = row, queue' = queue, lost' = lost,
         \A r \in Request : Settling(w, r) /\ row[r].status = "Running" =>
            x.report = r /\ x.step # "finished"
              /\ (x.step = "failing" => x.loaded.status # "Failed"),
         x.step \in {"running", "writing", "written", "hashed"} => x.loaded.status = "Running"
  PROVE  RunningIsExplained' /\ MarkedInv'
<1>1. worker'[w] = x /\ \A v \in Worker \ {w} : worker'[v] = worker[v]
  OBVIOUS
<1>2. \A r \in Request : Settling(w, r) /\ row[r].status = "Running" => Settling(w, r)'
  BY <1>1 DEF Settling, Active
<1>3. RunningIsExplained'
  <2>1. \A r \in Request : row'[r].status = "Running" =>
            \/ Settling(w, r)' \/ queue'[r] > 0 \/ r \in lost'
            \/ row[r].status = "Running" /\ ~Settling(w, r) /\ (queue[r] > 0 => queue'[r] > 0)
    BY <1>2
  <2> QED
    BY <1>1, <2>1, ExplainedStep
<1>4. MarkedInv'
  BY <1>1 DEF MarkedInv, AtWork
<1> QED
  BY <1>3, <1>4

\* A commit of the slot's object: the status is the object's when it differs from
\* the one loaded, and the slot is a new one.
LEMMA StatusFlushed ==
  ASSUME PipeInv, NEW w \in Worker, Busy(w), NEW object \in Row, UpdateRow(w, object)
  PROVE  /\ Target(w) \in Request
         /\ \A q \in Request \ {Target(w)} : row'[q] = row[q]
         /\ row'[Target(w)].status = IF object.status # worker[w].loaded.status
                                     THEN object.status ELSE row[Target(w)].status
<1> DEFINE r == Target(w)
           loaded == worker[w].loaded
<1>1. r \in Request /\ row \in [Request -> Row] /\ row[r] \in Row /\ loaded \in Row
  <2>1. PipeTypeOK /\ r \in Request
    BY DEF PipeInv, TasksInv, TasksHaveRows, Committed
  <2> QED
    BY <2>1 DEF PipeTypeOK
<1>2. row' = [row EXCEPT ![r] = Flush(row[r], loaded, object)]
  BY DEF UpdateRow, Target
<1>3. Flush(row[r], loaded, object).status =
        IF object.status # loaded.status THEN object.status ELSE row[r].status
  BY <1>1 DEF Flush, Row
<1> QED
  BY <1>1, <1>2, <1>3

LEMMA ExplainedTake ==
  ASSUME PipeInv, RunningIsExplained, MarkedInv, NEW w \in Worker, NEW r \in Request,
         Take(w, r) \/ TakeMissing(w, r)
  PROVE  RunningIsExplained' /\ MarkedInv'
<1>0. /\ worker \in [Worker -> Slot] /\ queue \in [Request -> Nat]
      /\ worker[w].step = "idle" => worker[w].report = None
      /\ \A q \in Request \ Committed : row[q] = NewRow
  BY DEF PipeInv, PipeTypeOK, Slot, TasksInv, TasksHaveRows, Target
<1>1. /\ worker[w].step = "idle" /\ row' = row /\ lost' = lost
      /\ queue' = [queue EXCEPT ![r] = @ - 1]
      /\ \A v \in Worker \ {w} : worker'[v] = worker[v]
  BY <1>0 DEF Take, TakeMissing
<1>2. \A q \in Request : ~Settling(w, q)
  BY <1>0, <1>1, PipelineAssumption DEF Settling, Active
<1>3. \A q \in Request \ {r} : queue'[q] = queue[q]
  BY <1>0, <1>1
<1>4. CASE Take(w, r)
  <2>1. worker'[w].step = "loaded" /\ worker'[w].report = r
    BY <1>0, <1>4 DEF Take
  <2>2. Settling(w, r)'
    BY <2>1 DEF Settling, Active
  <2>3. RunningIsExplained'
    BY <1>1, <1>2, <1>3, <2>2, ExplainedStep
  <2> QED
    BY <1>1, <2>1, <2>3 DEF MarkedInv, AtWork
<1>5. CASE TakeMissing(w, r)
  <2>1. worker'[w].step = "finished" /\ row[r].status # "Running"
    BY <1>0, <1>5 DEF TakeMissing, Done, NewRow
  <2>2. RunningIsExplained'
    BY <1>1, <1>2, <1>3, <2>1, ExplainedStep
  <2> QED
    BY <1>1, <2>1, <2>2 DEF MarkedInv, AtWork
<1> QED
  BY <1>4, <1>5

LEMMA ExplainedWork ==
  ASSUME PipeInv, RunningIsExplained, MarkedInv, NEW w \in Worker,
         Work(w) \/ Raise(w) \/ KillChild(w) \/ KillWorker(w)
  PROVE  RunningIsExplained' /\ MarkedInv'
<1> DEFINE k == worker[w]
           r == Target(w)
<1>0. /\ PipeTypeOK /\ worker \in [Worker -> Slot] /\ k \in Slot /\ queue \in [Request -> Nat]
      /\ k.step # "idle" => r \in Request
      /\ Busy(w) => row[r] \in Row
  <2>1. PipeTypeOK /\ worker \in [Worker -> Slot]
    BY DEF PipeInv, PipeTypeOK, Slot
  <2>2. /\ k.step # "idle" => r \in Request
        /\ Busy(w) => r \in Request
    BY DEF PipeInv, TasksInv, TasksHaveRows, Committed, Target, Busy
  <2> QED
    BY <2>1, <2>2 DEF PipeTypeOK
<1>1. \A q \in Request : Settling(w, q) => q = r /\ k.step # "finished"
  BY DEF Settling, Active, Target
<1>2. CASE CommitRunning(w)
  <2> DEFINE object == [k.loaded EXCEPT !.status = "Running"]
             x == [k EXCEPT !.step = "running", !.loaded = object]
  <2>1. /\ k.step = "loaded" /\ Busy(w) /\ UpdateRow(w, object)
        /\ worker' = [worker EXCEPT ![w] = x] /\ lost' = lost /\ queue' = queue
    BY <1>2 DEF CommitRunning, Busy
  <2>2. k.loaded \in Row /\ "Running" \in Status /\ "running" \in Step
    BY <1>0 DEF Slot, Status, Step
  <2>3. object \in Row /\ object.status = "Running"
    <3> HIDE DEF k
    <3> QED
      BY <2>2 DEF Row
  <2>4. x.step = "running" /\ x.report = r /\ x.loaded = object
    <3>1. r = k.report
      BY DEF Target
    <3> HIDE DEF k, object, r
    <3> QED
      BY <1>0, <3>1 DEF Slot
  <2> HIDE DEF x, object, k
  <2>5. r \in Request /\ \A q \in Request \ {r} : row'[q] = row[q]
    BY <2>1, <2>3, StatusFlushed
  <2>6. worker'[w] = x /\ \A v \in Worker \ {w} : worker'[v] = worker[v]
    BY <1>0, <2>1
  <2>7. RunningIsExplained'
    <3>1. \A q \in Request : row'[q].status = "Running" =>
            \/ Settling(w, q)' \/ queue'[q] > 0 \/ q \in lost'
            \/ row[q].status = "Running" /\ ~Settling(w, q) /\ (queue[q] > 0 => queue'[q] > 0)
      <4> SUFFICES ASSUME NEW q \in Request, row'[q].status = "Running"
                   PROVE  \/ Settling(w, q)' \/ queue'[q] > 0 \/ q \in lost'
                          \/ /\ row[q].status = "Running" /\ ~Settling(w, q)
                             /\ (queue[q] > 0 => queue'[q] > 0)
        OBVIOUS
      <4>1. CASE q = r
        BY <2>4, <2>6, <4>1 DEF Settling, Active
      <4>2. CASE q # r
        BY <1>1, <2>1, <2>5, <4>2
      <4> QED
        BY <4>1, <4>2
    <3> QED
      BY <2>1, <2>6, <3>1, ExplainedStep
  <2>8. MarkedInv'
    BY <2>3, <2>4, <2>6 DEF MarkedInv, AtWork
  <2> QED
    BY <2>7, <2>8
<1>3. CASE OpenFile(w)
  <2>1. PICK c \in Content : worker' = [worker EXCEPT ![w].step = "writing", ![w].data = c]
    BY <1>3 DEF OpenFile
  <2> DEFINE x == [k EXCEPT !.step = "writing", !.data = c]
  <2>2. /\ worker' = [worker EXCEPT ![w] = x] /\ k.step = "running"
        /\ row' = row /\ queue' = queue /\ lost' = lost
    BY <1>3, <2>1 DEF OpenFile
  <2>3. x \in Slot /\ x.step = "writing" /\ x.report = k.report /\ x.loaded = k.loaded
    <3>1. "writing" \in Step /\ c \in Bytes
      BY DEF Step, Bytes
    <3> HIDE DEF k
    <3> QED
      BY <1>0, <3>1 DEF Slot
  <2>4. k.loaded.status = "Running"
    BY <2>2 DEF MarkedInv, AtWork
  <2> HIDE DEF x
  <2> QED
    BY <1>0, <1>1, <2>2, <2>3, <2>4, SlotExplained DEF Target
<1>4. CASE CloseFile(w)
  <2> DEFINE x == [k EXCEPT !.step = "written"]
  <2>1. /\ worker' = [worker EXCEPT ![w] = x] /\ k.step = "writing"
        /\ row' = row /\ queue' = queue /\ lost' = lost
    BY <1>4 DEF CloseFile, Goes
  <2>2. x \in Slot /\ x.step = "written" /\ x.report = k.report /\ x.loaded = k.loaded
    <3>1. "written" \in Step
      BY DEF Step
    <3> HIDE DEF k
    <3> QED
      BY <1>0, <3>1, SlotMoved
  <2>3. k.loaded.status = "Running"
    BY <2>1 DEF MarkedInv, AtWork
  <2> HIDE DEF x
  <2> QED
    BY <1>0, <1>1, <2>1, <2>2, <2>3, SlotExplained DEF Target
<1>5. CASE Hash(w)
  <2> DEFINE c == file[Path(r)]
             x == [k EXCEPT !.step = "hashed", !.data = c]
  <2>1. /\ worker' = [worker EXCEPT ![w] = x] /\ k.step = "written" /\ Busy(w)
        /\ row' = row /\ queue' = queue /\ lost' = lost
    BY <1>5 DEF Hash, Target, Busy
  <2>2. x \in Slot /\ x.step = "hashed" /\ x.report = k.report /\ x.loaded = k.loaded
    <3>1. "hashed" \in Step /\ c \in Bytes
      <4>1. r \in Committed
        BY <2>1 DEF PipeInv, TasksInv, TasksHaveRows
      <4>2. Path(r) \in 1 .. Cardinality(Request)
        BY <4>1, PathsApart DEF PipeInv
      <4> QED
        BY <1>0, <4>2 DEF PipeTypeOK, Step
    <3> HIDE DEF k, c
    <3> QED
      BY <1>0, <3>1 DEF Slot
  <2>3. k.loaded.status = "Running"
    BY <2>1 DEF MarkedInv, AtWork
  <2> HIDE DEF x
  <2> QED
    BY <1>0, <1>1, <2>1, <2>2, <2>3, SlotExplained DEF Target
<1>6. CASE Raise(w)
  <2> DEFINE o == row[r]
             x == [k EXCEPT !.step = "failing", !.loaded = o]
  <2>1. /\ worker' = [worker EXCEPT ![w] = x] /\ Busy(w)
        /\ row' = row /\ queue' = queue /\ lost' = lost
    BY <1>6 DEF Raise, Target, Busy
  <2>2. x \in Slot /\ x.step = "failing" /\ x.report = k.report /\ x.loaded = o
    <3>1. "failing" \in Step /\ o \in Row
      BY <1>0, <2>1 DEF Step
    <3> HIDE DEF k, o
    <3> QED
      BY <1>0, <3>1 DEF Slot
  <2>3. \A q \in Request : Settling(w, q) /\ row[q].status = "Running" =>
            x.report = q /\ x.step # "finished"
              /\ (x.step = "failing" => x.loaded.status # "Failed")
    BY <1>1, <2>2 DEF Target
  <2> HIDE DEF x
  <2> QED
    BY <1>0, <2>1, <2>2, <2>3, SlotExplained
<1>7. CASE CommitCompleted(w)
  <2> DEFINE object == [status |-> "Completed", checksum |-> k.data, error |-> FALSE]
  <2>1. /\ k.step = "hashed" /\ Busy(w) /\ UpdateRow(w, object) /\ Finish(w)
        /\ lost' = lost /\ queue' = queue
    BY <1>7 DEF CommitCompleted, Busy
  <2>2. object \in Row /\ object.status = "Completed"
    <3>1. k.data \in Content \cup {Torn, None} /\ "Completed" \in Status
      BY <1>0 DEF Slot, Bytes, Status
    <3> HIDE DEF k
    <3> QED
      BY <3>1 DEF Row
  <2>3. k.loaded.status = "Running"
    BY <2>1 DEF MarkedInv, AtWork
  <2> HIDE DEF object
  <2>4. /\ r \in Request /\ \A q \in Request \ {r} : row'[q] = row[q]
        /\ row'[r].status = "Completed"
    BY <2>1, <2>2, <2>3, StatusFlushed
  <2>5. worker'[w].step = "finished" /\ \A v \in Worker \ {w} : worker'[v] = worker[v]
    BY <1>0, <2>1 DEF Finish, Done
  <2>6. \A q \in Request : row'[q].status = "Running" =>
            row[q].status = "Running" /\ ~Settling(w, q) /\ (queue[q] > 0 => queue'[q] > 0)
    BY <1>1, <2>1, <2>4
  <2>7. RunningIsExplained'
    BY <2>1, <2>5, <2>6, ExplainedStep
  <2> QED
    BY <2>5, <2>7 DEF MarkedInv, AtWork
<1>8. CASE CommitFailed(w)
  <2> DEFINE object == [k.loaded EXCEPT !.status = "Failed", !.error = TRUE]
  <2>1. /\ k.step = "failing" /\ Busy(w) /\ UpdateRow(w, object) /\ Finish(w)
        /\ lost' = lost /\ queue' = queue
    BY <1>8 DEF CommitFailed, Busy
  <2>2. object \in Row /\ object.status = "Failed"
    <3>1. k.loaded \in Row /\ "Failed" \in Status
      BY <1>0 DEF Slot, Status
    <3> HIDE DEF k
    <3> QED
      BY <3>1 DEF Row
  <2> HIDE DEF object
  <2>3. /\ r \in Request /\ \A q \in Request \ {r} : row'[q] = row[q]
        /\ row'[r].status = IF "Failed" # k.loaded.status THEN "Failed" ELSE row[r].status
    BY <2>1, <2>2, StatusFlushed
  <2>4. worker'[w].step = "finished" /\ \A v \in Worker \ {w} : worker'[v] = worker[v]
    BY <1>0, <2>1 DEF Finish, Done
  <2>5. \A q \in Request : row'[q].status = "Running" =>
            row[q].status = "Running" /\ ~Settling(w, q) /\ (queue[q] > 0 => queue'[q] > 0)
    <3>1. k.loaded.status = "Failed" => \A q \in Request : ~Settling(w, q)
      BY <2>1 DEF Settling
    <3> QED
      BY <1>1, <2>1, <2>3, <3>1
  <2>6. RunningIsExplained'
    BY <2>1, <2>4, <2>5, ExplainedStep
  <2> QED
    BY <2>4, <2>6 DEF MarkedInv, AtWork
<1>9. CASE Ack(w) \/ KillChild(w) \/ KillWorker(w)
  <2>1. /\ row' = row /\ lost \subseteq lost'
        /\ worker'[w].step = "idle" /\ \A v \in Worker \ {w} : worker'[v] = worker[v]
    BY <1>0, <1>9 DEF Ack, KillChild, KillWorker, Restore, Idle
  <2>2. \A q \in Request : Settling(w, q) => q \in lost' \/ queue'[q] > 0
    <3>1. CASE Ack(w)
      BY <1>1, <3>1 DEF Ack
    <3>2. CASE KillChild(w)
      BY <1>1, <3>2 DEF KillChild, Target
    <3>3. CASE KillWorker(w)
      <4>1. r \in Request /\ queue' = [queue EXCEPT ![r] = @ + 1]
        BY <1>0, <3>3 DEF KillWorker, Restore, Target
      <4>2. queue'[r] > 0
        BY <1>0, <4>1
      <4> QED
        BY <1>1, <4>2
    <3> QED
      BY <1>9, <3>1, <3>2, <3>3
  <2>3. \A q \in Request : queue[q] > 0 => queue'[q] > 0
    <3>1. CASE queue' = queue
      BY <3>1
    <3>2. CASE KillWorker(w)
      <4>1. r \in Request /\ queue' = [queue EXCEPT ![r] = @ + 1]
        BY <1>0, <3>2 DEF KillWorker, Restore, Target
      <4> QED
        BY <1>0, <4>1
    <3> QED
      BY <1>9, <3>1, <3>2 DEF Ack, KillChild
  <2>4. RunningIsExplained'
    BY <2>1, <2>2, <2>3, ExplainedStep
  <2> QED
    BY <2>1, <2>4 DEF MarkedInv, AtWork
<1> QED
  BY <1>2, <1>3, <1>4, <1>5, <1>6, <1>7, <1>8, <1>9 DEF Work

LEMMA ExplainedNext ==
  PipeInv /\ RunningIsExplained /\ MarkedInv /\ [PipeNext]_vars => RunningIsExplained' /\ MarkedInv'
<1> SUFFICES ASSUME PipeInv, RunningIsExplained, MarkedInv, [PipeNext]_vars
             PROVE  RunningIsExplained' /\ MarkedInv'
  OBVIOUS
<1>1. ASSUME row' = row, worker' = worker, lost' = lost,
             \A r \in Request : queue[r] > 0 => queue'[r] > 0
      PROVE  RunningIsExplained' /\ MarkedInv'
  <2>1. \A w \in Worker, r \in Request : Settling(w, r)' <=> Settling(w, r)
    BY <1>1 DEF Settling, Active
  <2> QED
    BY <1>1, <2>1 DEF RunningIsExplained, MarkedInv, AtWork
<1>2. queue \in [Request -> Nat] /\ \A w \in Worker : worker[w].step # "idle" => Target(w) \in Request
  BY DEF PipeInv, PipeTypeOK, TasksInv, TasksHaveRows
<1>3. ASSUME NEW r \in Request, Allocate(r) \/ CommitReport(r) \/ AbortReport(r)
      PROVE  RunningIsExplained' /\ MarkedInv'
  BY <1>1, <1>3 DEF Allocate, CommitReport, AbortReport, pipeVars
<1>4. ASSUME NEW r \in Request, queue' = [queue EXCEPT ![r] = @ + 1] \/ queue' = queue
      PROVE  \A q \in Request : queue[q] > 0 => queue'[q] > 0
  BY <1>2, <1>4
<1>5. ASSUME NEW r \in Request, Enqueue(r) PROVE RunningIsExplained' /\ MarkedInv'
  <2>1. queue' = [queue EXCEPT ![r] = @ + 1] \/ queue' = queue
    BY <1>5 DEF Enqueue
  <2>2. row' = row /\ worker' = worker /\ lost' = lost
    BY <1>5 DEF Enqueue
  <2> QED
    BY <1>1, <1>4, <2>1, <2>2
<1>6. ASSUME NEW w \in Worker, VisibilityTimeout(w) PROVE RunningIsExplained' /\ MarkedInv'
  <2>1. Target(w) \in Request /\ queue' = [queue EXCEPT ![Target(w)] = @ + 1]
    BY <1>2, <1>6 DEF VisibilityTimeout, Restore, Target
  <2>2. row' = row /\ worker' = worker /\ lost' = lost
    BY <1>6 DEF VisibilityTimeout
  <2> QED
    BY <1>1, <1>4, <2>1, <2>2
<1>7. ASSUME (\E d \in Reader : (\E r \in Request : StartDownload(d, r)) \/ Stream(d))
             \/ UNCHANGED vars
      PROVE  RunningIsExplained' /\ MarkedInv'
  BY <1>1, <1>7 DEF StartDownload, Stream, vars, pipeVars
<1> QED
  BY <1>3, <1>5, <1>6, <1>7, ExplainedTake, ExplainedWork DEF PipeNext, Handler, Deliver

\* A report never says Running for nothing: a worker is on it, or its task waits
\* in the broker, or a pool child died with it (generate_report, KillChild), also
\* when two executions overlap.
THEOREM RunningIsExplainedHolds == PipeSafeSpec => []RunningIsExplained
<1>1. PipeInit => RunningIsExplained /\ MarkedInv
  BY DEF PipeInit, NewRow, Idle, RunningIsExplained, MarkedInv, AtWork
<1> QED
  BY <1>1, ExplainedNext, PipeInvHolds, PTL DEF PipeSafeSpec
=============================================================================
