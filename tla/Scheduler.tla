----------------------------- MODULE Scheduler -----------------------------
(***************************************************************************)
(* The life of a job in the master and the workers: the HTTP handlers that *)
(* create and cancel it (api/jobs.rs), the scheduler task                  *)
(* (scheduler/mod.rs), the P2P event loop that sends assignments and       *)
(* receives results (p2p/handler.rs), and the workers' queue and executor  *)
(* (decentgpu-worker).  A step is what one task does between two awaits:   *)
(* every database call of the scheduler, of a handler or of a completion   *)
(* task is a step of its own, so that the others act in between.           *)
(*                                                                         *)
(* Left out: file contents, prices, scores (any eligible worker may have   *)
(* the best one), is_busy (workers only ever send false) and log lines.    *)
(***************************************************************************)
EXTENDS Naturals, Sequences

CONSTANTS
  Job, Worker,
  NoJob, NoPeer,
  GpuJob,     \* the jobs whose gpu_backend is not cpu_only
  GpuWorker,  \* the workers whose real capabilities satisfy the GPU jobs
  TokenLess,  \* the workers started without an auth token: never registered
  CmdCap,     \* the API -> scheduler channel (256 in the code)
  EventCap,   \* P2P -> scheduler worker events (256 + 256, with the fan-out)
  AssignCap,  \* the scheduler -> P2P channel (64)
  QueueCap,   \* the worker's executor queue (32)
  ResultCap,  \* the worker's result channel (32)
  MaxChurn,   \* bound: worker events and cancels that the environment produces
  MaxFaults,  \* bound: faults of the kinds below
  FaultKinds  \* which faults happen: "db", "fs", "net", "master", "worker"

ASSUME SchedulerAssumption ==
  /\ NoPeer \notin Worker
  /\ NoJob \notin Job
  /\ GpuJob \subseteq Job
  /\ GpuWorker \subseteq Worker
  /\ TokenLess \subseteq Worker
  /\ {CmdCap, EventCap, AssignCap, QueueCap, ResultCap} \subseteq Nat \ {0}
  /\ {MaxChurn, MaxFaults} \subseteq Nat
  /\ FaultKinds \subseteq {"db", "fs", "net", "master", "worker"}

VARIABLES
  \* PostgreSQL
  status,     \* jobs.status ("none": no row)
  owner,      \* jobs.worker_peer_id
  aged,       \* the jobs created more than 30 s ago
  known,      \* the peers that have a row in workers
  \* HTTP handlers
  submit,     \* where create_job and its build task are
  cancel,     \* the status a cancel_job handler has read, or "idle"
  \* the scheduler task
  cmds,       \* cmd_rx
  events,     \* worker_rx
  online,     \* self.online: "absent", or with "bare" or "full" capabilities
  waiting,    \* the keys of self.pending
  tried,      \* the values of self.pending
  pc, scan, todo, cur, pick,   \* its control state and locals
  \* the master's P2P loop and its spawned tasks
  assignCh,   \* job_rx
  regs,       \* registrations upserted and not yet answered
  announcing, \* the peer whose Online event the loop is sending, or NoPeer
  tasks,      \* JobCompleted messages being processed
  \* the network
  wire,       \* assignments on their way
  reports,    \* JobCompleted messages on their way
  \* the workers
  queue,      \* job_rx of each executor
  running,    \* what it executes
  results,    \* job_result_rx of each P2P loop
  \* history and bounds
  runs, result,
  refused,    \* the jobs whose assignment met a full executor queue
  faults, churn

dbVars     == <<status, owner, aged, known>>
apiVars    == <<submit, cancel>>
localVars  == <<pc, scan, todo, cur, pick>>
pendVars   == <<waiting, tried>>
p2pVars    == <<assignCh, regs, announcing, tasks>>
netVars    == <<wire, reports>>
workerVars == <<queue, running, results>>
histVars   == <<runs, result, refused>>
boundVars  == <<faults, churn>>
vars == <<dbVars, apiVars, cmds, events, online, pendVars, localVars,
          p2pVars, netVars, workerVars, histVars, boundVars>>

Outcome == {"completed", "failed"}
Terminal == Outcome \cup {"cancelled"}
Status == {"none", "pending", "assigned"} \cup Terminal
Event == [kind : {"online", "offline", "heartbeat"}, peer : Worker]
Assignment == [job : Job, peer : Worker]
Completion == [job : Job, ok : BOOLEAN]

Init ==
  /\ status = [j \in Job |-> "none"]
  /\ owner = [j \in Job |-> NoPeer]
  /\ aged = {} /\ known = {}
  /\ submit = [j \in Job |-> "idle"]
  /\ cancel = [j \in Job |-> "idle"]
  /\ cmds = <<>> /\ events = <<>>
  /\ online = [w \in Worker |-> "absent"]
  /\ waiting = {}
  /\ tried = [j \in Job |-> {}]
  /\ pc = "idle" /\ scan = "none" /\ todo = {} /\ cur = NoJob /\ pick = NoPeer
  /\ assignCh = <<>> /\ regs = {} /\ announcing = NoPeer /\ tasks = {}
  /\ wire = {} /\ reports = {}
  /\ queue = [w \in Worker |-> <<>>]
  /\ running = [w \in Worker |-> NoJob]
  /\ results = [w \in Worker |-> <<>>]
  /\ runs = [j \in Job |-> 0]
  /\ result = [j \in Job |-> "none"]
  /\ refused = {}
  /\ faults = 0 /\ churn = 0

(* A fault of kind k happens now. *)
Fault(k) == /\ k \in FaultKinds
            /\ faults < MaxFaults
            /\ faults' = faults + 1
            /\ UNCHANGED churn

-----------------------------------------------------------------------------
(* The jobs table *)

(* Mutant: the UPDATE without its guard on the current status.               *)
AnyStatus(j, from) == status[j] # "none"

(* The guard of every UPDATE of jobs.status: WHERE id = $5 AND status = $6. *)
InStatus(j, from) == status[j] = from

(* Thirty seconds pass after created_at; only jobs in self.pending are asked *)
(* for their age.                                                            *)
Age(j) == /\ status[j] = "pending"
          /\ j \in waiting
          /\ j \notin aged
          /\ aged' = aged \cup {j}
          /\ UNCHANGED <<status, owner, known, apiVars, cmds, events, online, pendVars,
                         localVars, p2pVars, netVars, workerVars, histVars, boundVars>>

-----------------------------------------------------------------------------
(* create_job: the row, then the files, then a task that builds and enqueues *)

InsertRow(j) ==
  /\ submit[j] = "idle"
  /\ status' = [status EXCEPT ![j] = "pending"]
  /\ submit' = [submit EXCEPT ![j] = "inserted"]
  /\ UNCHANGED <<owner, aged, known, cancel, cmds, events, online, pendVars, localVars,
                 p2pVars, netVars, workerVars, histVars, boundVars>>

(* The files are written and the build task spawned; or a write fails, the *)
(* client gets an error and the row stays.                                 *)
SaveFiles(j) ==
  /\ submit[j] = "inserted"
  /\ \/ /\ submit' = [submit EXCEPT ![j] = "building"]
        /\ UNCHANGED boundVars
     \/ /\ Fault("fs")
        /\ submit' = [submit EXCEPT ![j] = "dead"]
  /\ UNCHANGED <<dbVars, cancel, cmds, events, online, pendVars, localVars,
                 p2pVars, netVars, workerVars, histVars>>

(* The image is built, or not: both go on to enqueue.  Only an image that  *)
(* was built and cannot be read ends the task here.                        *)
BuildImage(j) ==
  /\ submit[j] = "building"
  /\ \/ /\ submit' = [submit EXCEPT ![j] = "built"]
        /\ UNCHANGED boundVars
     \/ /\ Fault("fs")
        /\ submit' = [submit EXCEPT ![j] = "dead"]
  /\ UNCHANGED <<dbVars, cancel, cmds, events, online, pendVars, localVars,
                 p2pVars, netVars, workerVars, histVars>>

(* scheduler.enqueue: waits for room in the channel. *)
Enqueue(j) ==
  /\ submit[j] = "built"
  /\ Len(cmds) < CmdCap
  /\ cmds' = Append(cmds, j)
  /\ submit' = [submit EXCEPT ![j] = "done"]
  /\ UNCHANGED <<dbVars, cancel, events, online, pendVars, localVars,
                 p2pVars, netVars, workerVars, histVars, boundVars>>

(* The check of cancel_job: which statuses it accepts. *)
Cancellable == {"pending", "assigned"}

(* cancel_job reads the row, ... *)
CancelRead(j) ==
  /\ cancel[j] = "idle"
  /\ status[j] \in Cancellable
  /\ churn < MaxChurn
  /\ churn' = churn + 1
  /\ cancel' = [cancel EXCEPT ![j] = status[j]]
  /\ UNCHANGED <<dbVars, submit, cmds, events, online, pendVars, localVars,
                 p2pVars, netVars, workerVars, histVars, faults>>

(* ... then updates it from the status it has read (409 when it moved on). *)
CancelWrite(j) ==
  /\ cancel[j] # "idle"
  /\ status' = IF InStatus(j, cancel[j])
               THEN [status EXCEPT ![j] = "cancelled"] ELSE status
  /\ cancel' = [cancel EXCEPT ![j] = "idle"]
  /\ UNCHANGED <<owner, aged, known, submit, cmds, events, online, pendVars, localVars,
                 p2pVars, netVars, workerVars, histVars, boundVars>>

-----------------------------------------------------------------------------
(* The scheduler task.  Its select! is biased: commands, then worker events, *)
(* then the ticker.                                                          *)

(* Mutant: no early return when no worker is eligible.                       *)
EligibleOrNull(j, excluded) ==
  LET ws == {w \in Worker \ excluded : online[w] # "absent"}
  IN IF ws = {} THEN {NoPeer} ELSE ws

(* The candidates select_workers keeps: in the online map, not tried yet,    *)
(* and with a GPU that fits when the job needs one.                          *)
Eligible(j, excluded) ==
  {w \in Worker : /\ online[w] # "absent"
                  /\ w \notin excluded
                  /\ j \in GpuJob => online[w] = "full" /\ w \in GpuWorker}

(* Back to the loop over the pending jobs when some are left, or to select!. *)
Resume(rest) ==
  /\ pc' = IF rest = {} THEN "idle" ELSE "scan"
  /\ scan' = IF rest = {} THEN "none" ELSE scan
  /\ todo' = rest
  /\ cur' = NoJob
  /\ pick' = NoPeer

(* try_assign_one up to its first await: a worker is selected, or none is.   *)
TryAssign(j, excluded, rest) ==
  \/ /\ Eligible(j, excluded) = {}
     /\ Resume(rest)
  \/ \E w \in Eligible(j, excluded) :
       /\ pc' = "cas"
       /\ cur' = j
       /\ pick' = w
       /\ todo' = rest
       /\ UNCHANGED scan

(* A loop over a snapshot of the keys of self.pending starts.                *)
StartScan(kind) ==
  /\ pc' = IF waiting = {} THEN "idle" ELSE "scan"
  /\ scan' = IF waiting = {} THEN "none" ELSE kind
  /\ todo' = waiting
  /\ UNCHANGED <<cur, pick>>

(* Mutant: Enqueue tries at once and remembers nothing.                      *)
RecvEnqueueOnce ==
  /\ pc = "idle"
  /\ cmds # <<>>
  /\ TryAssign(Head(cmds), {}, {})
  /\ cmds' = Tail(cmds)
  /\ UNCHANGED <<dbVars, apiVars, events, online, pendVars, p2pVars, netVars, workerVars,
                 histVars, boundVars>>

(* SchedulerCommand::Enqueue *)
RecvEnqueue ==
  /\ pc = "idle"
  /\ cmds # <<>>
  /\ LET j == Head(cmds) IN
       /\ waiting' = waiting \cup {j}
       /\ tried' = [tried EXCEPT ![j] = {}]
       /\ TryAssign(j, {}, {})
  /\ cmds' = Tail(cmds)
  /\ UNCHANGED <<dbVars, apiVars, events, online, p2pVars, netVars, workerVars,
                 histVars, boundVars>>

(* What both scans forget about a job.                                       *)
Forget(j) == /\ waiting' = waiting \ {j}
             /\ tried' = [tried EXCEPT ![j] = {}]

(* WorkerEvent::Online: the worker with its real capabilities, then          *)
(* try_assign_pending.                                                       *)
RecvOnline ==
  /\ pc = "idle" /\ cmds = <<>> /\ events # <<>>
  /\ Head(events).kind = "online"
  /\ events' = Tail(events)
  /\ online' = [online EXCEPT ![Head(events).peer] = "full"]
  /\ StartScan("pending")
  /\ UNCHANGED <<dbVars, apiVars, cmds, pendVars, p2pVars, netVars, workerVars,
                 histVars, boundVars>>

(* WorkerEvent::Heartbeat: a known worker's scores, or a worker put back     *)
(* with default capabilities (no GPU), then try_assign_pending.              *)
RecvHeartbeat ==
  /\ pc = "idle" /\ cmds = <<>> /\ events # <<>>
  /\ Head(events).kind = "heartbeat"
  /\ events' = Tail(events)
  /\ LET w == Head(events).peer IN
       IF online[w] = "absent"
       THEN /\ online' = [online EXCEPT ![w] = "bare"]
            /\ StartScan("pending")
       ELSE UNCHANGED <<online, localVars>>
  /\ UNCHANGED <<dbVars, apiVars, cmds, pendVars, p2pVars, netVars, workerVars,
                 histVars, boundVars>>

(* The rows that list_by_hirer(Uuid::nil(), ..) returns: no user has the nil *)
(* id, so no job has such a hirer.                                           *)
NilHirerJobs == {}

(* Mutant: the jobs of every hirer, as the comment in the code intends.      *)
StrandedOfAll(w) == {j \in Job : owner[j] = w /\ status[j] = "assigned"}

(* The jobs that handle_worker_offline fails and puts back to pending.       *)
Stranded(w) == {j \in NilHirerJobs : owner[j] = w /\ status[j] = "assigned"}

(* WorkerEvent::Offline *)
RecvOffline ==
  /\ pc = "idle" /\ cmds = <<>> /\ events # <<>>
  /\ Head(events).kind = "offline"
  /\ events' = Tail(events)
  /\ LET w == Head(events).peer IN
       /\ online' = [online EXCEPT ![w] = "absent"]
       /\ status' = [j \in Job |-> IF j \in Stranded(w) THEN "pending" ELSE status[j]]
       /\ waiting' = waiting \cup Stranded(w)
       /\ tried' = [j \in Job |-> IF j \in Stranded(w) THEN {w} ELSE tried[j]]
  /\ UNCHANGED <<owner, aged, known, apiVars, cmds, localVars, p2pVars, netVars,
                 workerVars, histVars, boundVars>>

(* retry_ticker.  With nothing pending the tick does nothing.                *)
RetryTick ==
  /\ pc = "idle" /\ cmds = <<>> /\ events = <<>>
  /\ waiting # {}
  /\ StartScan("stale")
  /\ UNCHANGED <<dbVars, apiVars, cmds, events, online, pendVars, p2pVars, netVars,
                 workerVars, histVars, boundVars>>

(* When a scan tries to assign a job it finds pending: always after a worker *)
(* event, only when it is old enough on a tick.                              *)
Due(j) == scan = "pending" \/ j \in aged

(* Mutant: a scan takes the job out of self.pending before it tries it.      *)
ScanRowForgets ==
  /\ pc = "scan"
  /\ \E j \in todo :
       /\ Forget(j)
       /\ IF status[j] = "pending" /\ Due(j)
          THEN TryAssign(j, tried[j], todo \ {j}) ELSE Resume(todo \ {j})
  /\ UNCHANGED <<dbVars, apiVars, cmds, events, online, p2pVars, netVars, workerVars,
                 histVars, boundVars>>

(* Mutant: a job that is not due yet is looked at again in the same scan.    *)
ScanRowSpins ==
  /\ pc = "scan"
  /\ \E j \in todo :
       IF status[j] # "pending"
       THEN Forget(j) /\ Resume(todo \ {j})
       ELSE UNCHANGED pendVars /\ TryAssign(j, tried[j], todo)
  /\ UNCHANGED <<dbVars, apiVars, cmds, events, online, p2pVars, netVars, workerVars,
                 histVars, boundVars>>

(* One turn of try_assign_pending or retry_stale_pending: find_by_id, then   *)
(* what the row's status asks for.                                           *)
ScanRow ==
  /\ pc = "scan"
  /\ \E j \in todo :
       IF status[j] # "pending"
       THEN Forget(j) /\ Resume(todo \ {j})
       ELSE /\ UNCHANGED pendVars
            /\ IF Due(j) THEN TryAssign(j, tried[j], todo \ {j})
                         ELSE Resume(todo \ {j})
  /\ UNCHANGED <<dbVars, apiVars, cmds, events, online, p2pVars, netVars, workerVars,
                 histVars, boundVars>>

(* The same turn when find_by_id returns an error: try_assign_pending skips  *)
(* the job, retry_stale_pending drops it.                                    *)
ScanError ==
  /\ pc = "scan"
  /\ Fault("db")
  /\ \E j \in todo :
       /\ IF scan = "stale" THEN Forget(j) ELSE UNCHANGED pendVars
       /\ Resume(todo \ {j})
  /\ UNCHANGED <<dbVars, apiVars, cmds, events, online, p2pVars, netVars, workerVars,
                 histVars>>

(* What the assignment's UPDATE needs: the job still pending, and a row in   *)
(* workers for the foreign key worker_peer_id.                               *)
CanAssign(j, w) == InStatus(j, "pending") /\ w \in known

(* transition_status(pending -> assigned); on an error the job is left as it *)
(* is, and a lost answer may hide an update that was made.                   *)
CasAssign ==
  /\ pc = "cas"
  /\ \/ /\ CanAssign(cur, pick)
        /\ status' = [status EXCEPT ![cur] = "assigned"]
        /\ owner' = [owner EXCEPT ![cur] = pick]
        /\ pc' = "build"
        /\ UNCHANGED <<scan, todo, cur, pick, boundVars>>
     \/ /\ ~CanAssign(cur, pick)
        /\ Resume(todo)
        /\ UNCHANGED <<status, owner, boundVars>>
     \/ /\ Fault("db")
        /\ CanAssign(cur, pick)
        /\ \/ UNCHANGED <<status, owner>>
           \/ /\ status' = [status EXCEPT ![cur] = "assigned"]
              /\ owner' = [owner EXCEPT ![cur] = pick]
        /\ Resume(todo)
  /\ UNCHANGED <<aged, known, apiVars, cmds, events, online, pendVars, p2pVars, netVars,
                 workerVars, histVars>>

(* build_job_assignment: reads the row and the files again.                  *)
BuildAssignment ==
  /\ pc = "build"
  /\ \/ /\ pc' = "send"
        /\ UNCHANGED <<scan, todo, cur, pick, boundVars>>
     \/ /\ Fault("db")
        /\ Resume(todo)
  /\ UNCHANGED <<dbVars, apiVars, cmds, events, online, pendVars, p2pVars, netVars,
                 workerVars, histVars>>

(* Mutant: the peer is selected again when the message is sent.              *)
SendToCurrentBest ==
  /\ pc = "send"
  /\ Len(assignCh) < AssignCap
  /\ \E w \in Eligible(cur, {}) : assignCh' = Append(assignCh, [job |-> cur, peer |-> w])
  /\ waiting' = waiting \cup {cur}
  /\ tried' = [tried EXCEPT ![cur] = @ \cup {pick}]
  /\ Resume(todo)
  /\ UNCHANGED <<dbVars, apiVars, cmds, events, online, regs, announcing, tasks, netVars, workerVars,
                 histVars, boundVars>>

(* p2p_cmd_tx.send waits for room; then the peer is recorded as tried.       *)
SendAssign ==
  /\ pc = "send"
  /\ Len(assignCh) < AssignCap
  /\ assignCh' = Append(assignCh, [job |-> cur, peer |-> pick])
  /\ waiting' = waiting \cup {cur}
  /\ tried' = [tried EXCEPT ![cur] = @ \cup {pick}]
  /\ Resume(todo)
  /\ UNCHANGED <<dbVars, apiVars, cmds, events, online, regs, announcing, tasks, netVars, workerVars,
                 histVars, boundVars>>

-----------------------------------------------------------------------------
(* The master's P2P loop and the tasks it spawns                             *)

schedVars == <<cmds, online, pendVars, localVars>>

(* The loop is at its select!, not waiting inside a branch.                  *)
LoopFree == announcing = NoPeer

(* A worker event of kind k for w; a full channel drops what is try_sent.    *)
Emit(k, w) ==
  /\ LoopFree
  /\ churn < MaxChurn
  /\ churn' = churn + 1
  /\ UNCHANGED faults
  /\ events' = IF Len(events) < EventCap
               THEN Append(events, [kind |-> k, peer |-> w]) ELSE events

(* RegisterWorker: a task verifies the token and upserts the worker.  An     *)
(* upsert whose answer is lost is taken for one that failed.                 *)
RegisterUpsert(w) ==
  /\ w \notin TokenLess /\ w \notin regs
  /\ known' = known \cup {w}
  /\ \/ /\ churn < MaxChurn /\ churn' = churn + 1
        /\ regs' = regs \cup {w}
        /\ UNCHANGED faults
     \/ Fault("db") /\ UNCHANGED regs
  /\ UNCHANGED <<status, owner, aged, apiVars, events, schedVars, assignCh, announcing, tasks,
                 netVars, workerVars, histVars>>

(* The loop answers the worker ...                                           *)
RegisterReply(w) ==
  /\ LoopFree
  /\ w \in regs
  /\ regs' = regs \ {w}
  /\ announcing' = w
  /\ UNCHANGED <<dbVars, apiVars, events, schedVars, assignCh, tasks, netVars, workerVars,
                 histVars, boundVars>>

(* ... and sends Online: until there is room in the channel nothing else of  *)
(* the loop runs.                                                            *)
AnnounceOnline ==
  /\ ~LoopFree
  /\ Len(events) < EventCap
  /\ events' = Append(events, [kind |-> "online", peer |-> announcing])
  /\ announcing' = NoPeer
  /\ UNCHANGED <<dbVars, apiVars, schedVars, assignCh, regs, tasks, netVars, workerVars,
                 histVars, boundVars>>

(* A connection to w closes (another may remain), or w unsubscribes.         *)
ConnectionClosed(w) ==
  /\ Emit("offline", w)
  /\ UNCHANGED <<dbVars, apiVars, schedVars, p2pVars, netVars, workerVars, histVars>>

(* A heartbeat of w arrives; workers publish them, registered or not.        *)
Heartbeat(w) ==
  /\ Emit("heartbeat", w)
  /\ UNCHANGED <<dbVars, apiVars, schedVars, p2pVars, netVars, workerVars, histVars>>

(* handle_job_command(Assign): send_request to the peer.                     *)
SendRequest ==
  /\ LoopFree
  /\ assignCh # <<>>
  /\ wire' = wire \cup {Head(assignCh)}
  /\ assignCh' = Tail(assignCh)
  /\ UNCHANGED <<dbVars, apiVars, events, schedVars, regs, announcing, tasks, reports, workerVars,
                 histVars, boundVars>>

(* JobCompleted: the ack is sent and a task spawned for the rest.            *)
RecvReport(r) ==
  /\ LoopFree
  /\ r \in reports
  /\ reports' = reports \ {r}
  /\ tasks' = tasks \cup {r}
  /\ UNCHANGED <<dbVars, apiVars, events, schedVars, assignCh, regs, announcing, wire, workerVars,
                 histVars, boundVars>>

(* The completion task: transition_status(assigned -> completed | failed).   *)
(* An error is only logged.                                                  *)
CompleteJob(r) ==
  /\ r \in tasks
  /\ tasks' = tasks \ {r}
  /\ \/ /\ status' = IF InStatus(r.job, "assigned")
                     THEN [status EXCEPT ![r.job] = IF r.ok THEN "completed" ELSE "failed"]
                     ELSE status
        /\ UNCHANGED boundVars
     \/ /\ Fault("db")
        /\ UNCHANGED status
  /\ UNCHANGED <<owner, aged, known, apiVars, events, schedVars, assignCh, regs, announcing, netVars,
                 workerVars, histVars>>

(* Mutant: a restart puts every unfinished job back to pending.              *)
RestartRecovers ==
  /\ Fault("master")
  /\ status' = [j \in Job |-> IF status[j] = "assigned" THEN "pending" ELSE status[j]]
  /\ submit' = [j \in Job |-> IF submit[j] = "idle" THEN "idle" ELSE "built"]
  /\ cancel' = [j \in Job |-> "idle"]
  /\ cmds' = <<>> /\ events' = <<>>
  /\ online' = [w \in Worker |-> "absent"]
  /\ waiting' = {}
  /\ tried' = [j \in Job |-> {}]
  /\ pc' = "idle" /\ scan' = "none" /\ todo' = {} /\ cur' = NoJob /\ pick' = NoPeer
  /\ assignCh' = <<>> /\ regs' = {} /\ announcing' = NoPeer /\ tasks' = {}
  /\ UNCHANGED <<owner, aged, known, netVars, workerVars, histVars>>

(* The master stops and starts again: only the database is left.             *)
MasterRestart ==
  /\ Fault("master")
  /\ submit' = [j \in Job |-> IF submit[j] \in {"inserted", "building", "built"}
                              THEN "dead" ELSE submit[j]]
  /\ cancel' = [j \in Job |-> "idle"]
  /\ cmds' = <<>> /\ events' = <<>>
  /\ online' = [w \in Worker |-> "absent"]
  /\ waiting' = {}
  /\ tried' = [j \in Job |-> {}]
  /\ pc' = "idle" /\ scan' = "none" /\ todo' = {} /\ cur' = NoJob /\ pick' = NoPeer
  /\ assignCh' = <<>> /\ regs' = {} /\ announcing' = NoPeer /\ tasks' = {}
  /\ UNCHANGED <<dbVars, netVars, workerVars, histVars>>

-----------------------------------------------------------------------------
(* The workers and the network                                               *)

masterVars == <<dbVars, apiVars, events, schedVars, p2pVars>>

(* Mutant: the queue counts as full one place early.                         *)
RecvAssignEarlyFull(m) ==
  /\ m \in wire
  /\ wire' = wire \ {m}
  /\ queue' = IF Len(queue[m.peer]) + 1 < QueueCap
              THEN [queue EXCEPT ![m.peer] = Append(@, m.job)] ELSE queue
  /\ refused' = IF Len(queue[m.peer]) < QueueCap THEN refused ELSE refused \cup {m.job}
  /\ UNCHANGED <<masterVars, reports, running, results, runs, result, boundVars>>

(* The worker's loop try_sends the assignment to its executor; with a full   *)
(* queue it answers accepted = false, which the master only logs.            *)
RecvAssign(m) ==
  /\ m \in wire
  /\ wire' = wire \ {m}
  /\ \/ /\ Len(queue[m.peer]) < QueueCap
        /\ queue' = [queue EXCEPT ![m.peer] = Append(@, m.job)]
        /\ UNCHANGED refused
     \/ /\ Len(queue[m.peer]) >= QueueCap
        /\ refused' = refused \cup {m.job}
        /\ UNCHANGED queue
  /\ UNCHANGED <<masterVars, reports, running, results, runs, result, boundVars>>

(* The executor takes the next job and runs its code.                        *)
StartJob(w) ==
  /\ running[w] = NoJob
  /\ queue[w] # <<>>
  /\ running' = [running EXCEPT ![w] = Head(queue[w])]
  /\ queue' = [queue EXCEPT ![w] = Tail(@)]
  /\ runs' = [runs EXCEPT ![Head(queue[w])] = @ + 1]
  /\ UNCHANGED <<masterVars, netVars, results, result, refused, boundVars>>

(* The code ends, fails, times out, or could not be run at all; every        *)
(* outcome is sent to the P2P loop.                                          *)
FinishJob(w, ok) ==
  /\ running[w] # NoJob
  /\ Len(results[w]) < ResultCap
  /\ results' = [results EXCEPT ![w] = Append(@, [job |-> running[w], ok |-> ok])]
  /\ result' = [result EXCEPT ![running[w]] = IF ok THEN "completed" ELSE "failed"]
  /\ running' = [running EXCEPT ![w] = NoJob]
  /\ UNCHANGED <<masterVars, netVars, queue, runs, refused, boundVars>>

(* The P2P loop sends JobCompleted to the master.                            *)
SendReport(w) ==
  /\ results[w] # <<>>
  /\ reports' = reports \cup {Head(results[w])}
  /\ results' = [results EXCEPT ![w] = Tail(@)]
  /\ UNCHANGED <<masterVars, wire, queue, running, histVars, boundVars>>

(* A request fails (no connection, timeout, reset) or, for a result, no      *)
(* master is identified yet.  Both sides only log it.                        *)
LoseAssign(m) ==
  /\ m \in wire
  /\ Fault("net")
  /\ wire' = wire \ {m}
  /\ UNCHANGED <<masterVars, reports, workerVars, histVars>>

LoseReport(r) ==
  /\ r \in reports
  /\ Fault("net")
  /\ reports' = reports \ {r}
  /\ UNCHANGED <<masterVars, wire, workerVars, histVars>>

(* A worker process stops and starts again.                                  *)
WorkerRestart(w) ==
  /\ Fault("worker")
  /\ queue' = [queue EXCEPT ![w] = <<>>]
  /\ running' = [running EXCEPT ![w] = NoJob]
  /\ results' = [results EXCEPT ![w] = <<>>]
  /\ UNCHANGED <<masterVars, netVars, histVars>>

-----------------------------------------------------------------------------
SubmitStep(j) == SaveFiles(j) \/ BuildImage(j) \/ Enqueue(j)

SchedulerStep ==
  \/ RecvEnqueue \/ RecvOnline \/ RecvHeartbeat \/ RecvOffline \/ RetryTick
  \/ ScanRow \/ ScanError \/ CasAssign \/ BuildAssignment \/ SendAssign

ExecutorStep(w) == StartJob(w) \/ \E ok \in BOOLEAN : FinishJob(w, ok)

Next ==
  \/ \E j \in Job : InsertRow(j) \/ SubmitStep(j) \/ Age(j) \/ CancelRead(j) \/ CancelWrite(j)
  \/ SchedulerStep
  \/ \E w \in Worker : \/ RegisterUpsert(w) \/ RegisterReply(w)
                       \/ ConnectionClosed(w) \/ Heartbeat(w)
                       \/ ExecutorStep(w) \/ SendReport(w) \/ WorkerRestart(w)
  \/ AnnounceOnline \/ SendRequest
  \/ \E m \in Assignment : RecvAssign(m) \/ LoseAssign(m)
  \/ \E r \in Completion : RecvReport(r) \/ CompleteJob(r) \/ LoseReport(r)
  \/ MasterRestart

Spec == Init /\ [][Next]_vars

(* Tasks are scheduled fairly by the runtime, every branch of the P2P        *)
(* loop's unbiased select! is taken in the end, executions are cut off by    *)
(* max_duration_secs, time passes.  Nothing is assumed of users, of worker   *)
(* events or of faults.                                                      *)
Fairness ==
  /\ \A j \in Job : WF_vars(SubmitStep(j)) /\ WF_vars(Age(j))
  /\ WF_vars(SchedulerStep)
  /\ WF_vars(AnnounceOnline) /\ WF_vars(SendRequest)
  /\ \A w \in Worker : /\ WF_vars(RegisterReply(w))
                       /\ WF_vars(ExecutorStep(w))
                       /\ WF_vars(SendReport(w))
  /\ WF_vars(\E m \in Assignment : RecvAssign(m))
  /\ WF_vars(\E r \in Completion : RecvReport(r))
  /\ WF_vars(\E r \in Completion : CompleteJob(r))

FairSpec == Spec /\ Fairness

-----------------------------------------------------------------------------
(* The types of the variables, by the part of the program that keeps them. *)
DbTypeOK ==
  /\ status \in [Job -> Status]
  /\ owner \in [Job -> Worker \cup {NoPeer}]
  /\ aged \subseteq Job /\ known \subseteq Worker
ApiTypeOK ==
  /\ submit \in [Job -> {"idle", "inserted", "building", "built", "done", "dead"}]
  /\ cancel \in [Job -> Cancellable \cup {"idle"}]
SchedTypeOK ==
  /\ cmds \in Seq(Job) /\ events \in Seq(Event)
  /\ online \in [Worker -> {"absent", "bare", "full"}]
  /\ waiting \subseteq Job
  /\ tried \in [Job -> SUBSET Worker]
LocalsTypeOK ==
  /\ pc \in {"idle", "scan", "cas", "build", "send"}
  /\ scan \in {"none", "pending", "stale"}
  /\ todo \subseteq Job
  /\ cur \in Job \cup {NoJob} /\ pick \in Worker \cup {NoPeer}
  /\ pc \in {"cas", "build", "send"} => cur \in Job /\ pick \in Worker
NetTypeOK ==
  /\ assignCh \in Seq(Assignment)
  /\ regs \subseteq Worker /\ announcing \in Worker \cup {NoPeer}
  /\ tasks \subseteq Completion
  /\ wire \subseteq Assignment /\ reports \subseteq Completion
WorkerTypeOK ==
  /\ queue \in [Worker -> Seq(Job)]
  /\ running \in [Worker -> Job \cup {NoJob}]
  /\ results \in [Worker -> Seq(Completion)]
HistTypeOK ==
  /\ runs \in [Job -> Nat]
  /\ result \in [Job -> Outcome \cup {"none"}]
  /\ refused \subseteq Job
  /\ faults \in Nat /\ churn \in Nat
TypeOK == /\ DbTypeOK /\ ApiTypeOK /\ SchedTypeOK /\ LocalsTypeOK
          /\ NetTypeOK /\ WorkerTypeOK /\ HistTypeOK

InSeq(x, s) == \E i \in DOMAIN s : s[i] = x

(* The places an assignment of j to w can be in before it runs. *)
Sending(j, w)  == pc \in {"build", "send"} /\ cur = j /\ pick = w
InChannel(j, w) == InSeq([job |-> j, peer |-> w], assignCh)
OnWire(j, w)   == [job |-> j, peer |-> w] \in wire
Queued(j, w)   == InSeq(j, queue[w])
(* The places its execution and its result can be in afterwards. *)
Executing(j, w) == running[w] = j
ResultHeld(j, w) == \E ok \in BOOLEAN : InSeq([job |-> j, ok |-> ok], results[w])
Reported(j) == \E ok \in BOOLEAN : [job |-> j, ok |-> ok] \in reports \cup tasks

Held(j, w) == Sending(j, w) \/ InChannel(j, w) \/ OnWire(j, w) \/ Queued(j, w)

(* The strengthening that makes the two properties below inductive: where a  *)
(* job's assignment is, what was started, and what the results say agree.    *)
Distinct(s) == \A i, k \in DOMAIN s : s[i] = s[k] => i = k

OwnedOnceAssigned ==
  \A j \in Job : /\ submit[j] = "idle" => status[j] = "none"
                 /\ status[j] \in {"none", "pending"} => owner[j] = NoPeer
HeldByOwner ==
  \A j \in Job, w \in Worker : Held(j, w) => owner[j] = w /\ runs[j] = 0
HeldInOnePlace ==
  /\ Distinct(assignCh)
  /\ \A w \in Worker : Distinct(queue[w])
  /\ \A j \in Job, w \in Worker :
       /\ Sending(j, w) => ~InChannel(j, w) /\ ~OnWire(j, w) /\ ~Queued(j, w)
       /\ InChannel(j, w) => ~OnWire(j, w) /\ ~Queued(j, w)
       /\ OnWire(j, w) => ~Queued(j, w)
StartedByOwner ==
  /\ \A j \in Job : /\ (runs[j] = 0 /\ result[j] = "none") \/ runs[j] = 1
                    /\ runs[j] = 1 => owner[j] # NoPeer
  /\ \A j \in Job, w \in Worker :
       Executing(j, w) => owner[j] = w /\ runs[j] = 1 /\ result[j] = "none"
Claimed(r) == r \in reports \cup tasks \/ \E w \in Worker : InSeq(r, results[w])
ReportsAreTrue ==
  \A r \in Completion :
    Claimed(r) => result[r.job] = IF r.ok THEN "completed" ELSE "failed"

(* Every assignment of a job is in one place only, on its way to the owner,  *)
(* and only until the job has started; what is reported is what happened.    *)
PlacesAgree ==
  /\ OwnedOnceAssigned
  /\ HeldByOwner
  /\ HeldInOnePlace
  /\ StartedByOwner
  /\ ReportsAreTrue

(* A job's code is started at most once, whatever restarts, lost answers and *)
(* repeated worker events happen: nothing sends an assignment twice.         *)
RunAtMostOnce == \A j \in Job : runs[j] <= 1

(* An assignment travels only towards, and runs only on, the worker that     *)
(* jobs.worker_peer_id names: what GET /jobs/:id shows is who runs the job.  *)
OnlyOwnerHolds ==
  \A j \in Job, w \in Worker : Held(j, w) \/ Executing(j, w) => owner[j] = w

(* While nothing has failed, a job that is assigned is somewhere between the *)
(* scheduler and the completion task, or its worker's queue was full when it *)
(* arrived: no other step on the way forgets it.  A refused job stays        *)
(* assigned, because the master only logs the answer.                        *)
AssignedIsInFlight ==
  faults = 0 =>
    \A j \in Job : status[j] = "assigned" =>
      \/ j \in refused
      \/ Reported(j)
      \/ \E w \in Worker : Held(j, w) \/ Executing(j, w) \/ ResultHeld(j, w)

(* A pending job that was enqueued is one the scheduler will try again: it   *)
(* is in self.pending or still in the command channel.                       *)
KnownToScheduler(j) ==
  status[j] = "pending" /\ submit[j] = "done" => j \in waiting \/ InSeq(j, cmds)

(* While nothing has failed every enqueued pending job stays known to the    *)
(* scheduler, whatever the interleaving of cancels, scans and assignments.   *)
PendingIsKnown == faults = 0 => \A j \in Job : KnownToScheduler(j)

(* The jobs of the platform live as JobLifecycle promises.                   *)
Lifecycle == INSTANCE JobLifecycle WITH
    Job <- Job, Worker <- Worker, NoPeer <- NoPeer,
    status <- status, owner <- owner, runs <- runs, result <- result
ImplementsLifecycle == Lifecycle!Spec

(* The scheduler task always comes back to its select!, though its send to   *)
(* the P2P loop may have to wait, unless the loop itself waits for ever to   *)
(* announce a worker: no scan is endless, and the only way to block the      *)
(* scheduler is the circle of waits that OnlineIsDelivered is about.         *)
SchedulerReturns == []<>LoopFree => []<>(pc = "idle")

(* "Notify the scheduler that this worker is now online so it can be         *)
(* considered for job assignment" (p2p/handler.rs:169): the Online event of  *)
(* a registered worker reaches the scheduler's channel.  The loop that sends *)
(* it also drains the channel the scheduler sends assignments to.            *)
OnlineIsDelivered == \A w \in Worker : announcing = w ~> announcing # w

(* A worker in the online map, with its real capabilities, that can run j.   *)
Servable(j) == \E w \in known : online[w] = "full" /\ (j \in GpuJob => w \in GpuWorker)
(* Every worker in the online map has a row in workers.                      *)
OnlineIsKnown == \A w \in Worker : online[w] # "absent" => w \in known

(* An enqueued job ends, or its worker refuses it, if from some point on a    *)
(* fitting worker stays online, every online worker is registered, and the   *)
(* scheduler is not blocked for ever.                                        *)
JobsEnd ==
  \A j \in Job : []<>(pc = "idle") /\ <>[](Servable(j) /\ OnlineIsKnown)
                   => (submit[j] = "done" ~> status[j] \in Terminal \/ j \in refused)

(* "Find any job assigned to this worker and mark it failed"                 *)
(* (scheduler/mod.rs:269): a job assigned to a worker that went offline does *)
(* not stay assigned to it while the worker is away.                         *)
OfflineReleasesJobs ==
  \A j \in Job, w \in Worker :
    (status[j] = "assigned" /\ owner[j] = w /\ online[w] = "absent")
      ~> (status[j] # "assigned" \/ online[w] # "absent")
=============================================================================
