# Verification of the decentralized GPU network

TLA+ models, TLC runs and TLAPS proofs for the Rust workspace under `src/crates`:
a master that takes jobs over HTTP and schedules them, workers that execute them, and
the libp2p protocol between the two. Paths below are relative to `src/crates`.

## 1. The system

| Component | Code | State it keeps | Operations |
|---|---|---|---|
| Jobs API | `decentgpu-master/src/api/jobs.rs` | none of its own; a spawned build task per job | `create_job` (row, files, image, enqueue), `cancel_job`, upload, download |
| Jobs table | `decentgpu-master/src/db/jobs.rs`, `db/migrations/004_jobs.sql` | `status`, `worker_peer_id`, logs, files | `create`, `transition_status` (update guarded by the status read before), `list_by_hirer`, `append_log` |
| Scheduler | `decentgpu-master/src/scheduler/mod.rs` | `online` map, `pending` map (job -> peers tried) | a biased `select!`: commands, worker events, retry tick |
| Matcher | `decentgpu-master/src/scheduler/matcher.rs` | none | filter and rank candidates |
| Master P2P loop | `decentgpu-master/src/p2p/handler.rs` | swarm, bootstrap peer, reconnect counters | registrations, worker events, assignments, results, reconnection |
| Worker P2P loop | `decentgpu-worker/src/p2p/handler.rs` | master peer, registration flag | accept assignments, send results and heartbeats, register, reconnect |
| Executor | `decentgpu-worker/src/main.rs` | one job at a time, queue of 32 | run the code, report |
| Start-up | `decentgpu-master/src/main.rs` | fan-out of worker events | `mark_all_offline`, tasks and channels |
| Worker table | `decentgpu-master/src/db/workers.rs` | owner, capabilities, `is_online` | `upsert`, `set_online` |
| Ledger | `decentgpu-master/src/credits/engine.rs` | balance and reservation per user, transactions | `allocate`, `reserve`, `settle`, `refund_full` (the last three have no caller) |
| Terminal | `decentgpu-master/src/api/terminal.rs`, `api/logs.rs` | `log_bus` broadcast channels | replay, subscribe, forward, 15 s status check |
| Users and roles | `decentgpu-master/src/api/{auth,admin}.rs`, `db/users.rs` | users, roles; tokens that nobody can take back | register, login, change role, disconnect worker |
| Files | `decentgpu-master/src/api/{jobs,admin,downloads}.rs` | files on disk, rows of `job_files` | upload, download |
| Chunked transfer | `decentgpu-common/src/transfer.rs` | offset | send and receive with acknowledgements |
| Sandbox helpers | `decentgpu-worker/src/{executor,docker}` | containers, images, directories | `run_job` (no caller), clean-up |
| Bootstrap node | `decentgpu-bootstrap/src/main.rs` | connection counter, rendezvous registrations | relay and rendezvous (libp2p) |

How they interact. An HTTP handler writes the jobs table and sends `Enqueue` on a bounded
channel. The scheduler reads the row, updates it, and sends `Assign` on a second bounded
channel to the P2P loop, which sends a request to the worker. The worker's loop puts it in
the executor's queue; the executor's result goes back through a channel and a request, and a
task of the master updates the row. Worker events (online, offline, heartbeat) go from the
P2P loop through a fan-out to the scheduler and to a task that updates `workers.is_online`.
Cancels go to the database only.

What is hard: the database is the only lock between the handlers, the scheduler and the
completion tasks; every database call is an await where the others act; requests, results and
events are lost without a retry (`try_send`, `OutboundFailure`); the master restarts with an
empty scheduler and the workers with empty queues; two bounded channels run in opposite
directions between the scheduler and the P2P loop.

What makes each part correct:

- **Jobs**: a job goes to one worker, runs at most once there, and ends as it ran; nothing on
  the way forgets it; a waiting job is tried again when a worker appears; the scheduler and
  the loop do not wait for each other.
- **Ledger**: a balance grows only with a transaction that explains it, no update is lost, what is
  reserved is there, settlements do not deadlock; jobs create no units.
- **Terminal**: who connects after the job is over sees every line; who watches misses or repeats
  lines only in the window the code leaves; everybody who reads learns that the job is done.
- **Workers**: the online map, the database and the connections agree once events stop, a
  connected worker comes into the pool, and a pick fits its job.
- **Executor**: jobs share the machine one after the other and leave nothing to each other; a
  success is an exit code of zero; every job ends.
- **Roles**: only who was made one is an administrator, and role updates that do not overlap
  leave one.
- **Files**: a file is one whole version, unless uploads of it overlap or fail.
- **Transfer**: what is received is what was sent, and both sides end, unless the stream takes no
  more writes.
- **Reconnection**: a loop that lost its bootstrap node never runs out of attempts.

This is the yardstick; where the code falls short of it section 3 says so, and which conditions the
properties carry for that reason.

`PROJECT.json` lists the hazards line by line.

## 2. Modules

| Module | What it is |
|---|---|
| `JobLifecycle` | the promise: the life of a job as its users may think of it (`Submit`, `Assign`, `Start`, `Finish`, `Report`, `Cancel`) |
| `Scheduler` | the code: handlers, scheduler task, master P2P loop and its tasks, network, workers |
| `Scheduler_proofs` | theorems about `Scheduler` |
| `AtomicLedger` | the promise: every ledger operation at once or not at all |
| `Ledger` | the code: `credits/engine.rs` as database transactions with row locks |
| `Ledger_proofs` | theorems about `Ledger` |
| `Terminal`, `Terminal_proofs` | the completion task, the terminals that watch one job, the log stream and the download; theorems |
| `AtomicCopy`, `Transfer`, `Transfer_proofs` | the promise of a chunked transfer, the code, theorems |
| `Executor`, `Executor_proofs` | how a worker runs one job after the other: in Docker, as a process, and by `run_job`; theorems |
| `Accounts`, `Files`, `Api` | users, roles and tokens; uploads and downloads; the two behind the routes of the HTTP API |
| `Api_proofs` | theorems about `Api` |
| `Reconnect`, `Reconnect_proofs` | the connections of master and worker with the bootstrap node, timers, flags, rendezvous; theorems |
| `Matcher`, `WorkerPool`, `WorkerPool_proofs` | the pure selection of workers; connections, registrations and heartbeats on their way to the scheduler's map and the table, with `Matcher` applied to the map; theorems about both |
| `MC...` and their `.cfg` files | the instances that TLC checks |

`Scheduler` takes the pool of workers as given by events and any eligible worker as the best;
`WorkerPool` is where those events come from and `Matcher` how the best is found. `Executor`
is the inside of `Scheduler`'s `running`, `Terminal` what `CompleteJob` does besides the status.
They are separate modules, each with the others reduced to the actions it meets, because their
product is out of TLC's reach.

### `Scheduler`

One action is what a task does between two awaits. The variables follow the code:

| Variables | In the code |
|---|---|
| `status`, `owner`, `known`, `aged` | `jobs.status`, `jobs.worker_peer_id`, the rows of `workers`, `created_at` older than 30 s |
| `submit`, `cancel` | where `create_job` and its build task are; the status that a `cancel_job` handler has read |
| `cmds`, `events`, `assignCh` | the channels API -> scheduler, P2P -> scheduler (with the fan-out of `main.rs` as one queue), scheduler -> P2P |
| `online`, `waiting`, `tried` | `self.online`; the keys and values of `self.pending` |
| `pc`, `scan`, `todo`, `cur`, `pick` | the scheduler's position: the loop it is in, the jobs it has left, the job and peer it is assigning |
| `regs`, `announcing`, `tasks` | registrations to answer; the peer whose `Online` event the loop is waiting to send; completion tasks |
| `wire`, `reports` | requests on their way |
| `queue`, `running`, `results` | the executor's queue, its job, the results the worker's loop has not sent |
| `runs`, `result` | history: how often a job started and how it ended |
| `refused` | history: the jobs whose assignment met a full executor queue |
| `faults`, `churn` | counters of the bounds `MaxFaults` and `MaxChurn` (worker events and cancels) |

Points where the model follows the code closely because a property depends on it:

- `InStatus` is the guard of `transition_status`; `CancelRead` and `CancelWrite` are two steps.
- The `select!` is biased: worker events wait for commands, the tick for both.
- `try_assign_pending` and `retry_stale_pending` iterate over a snapshot of the keys
  (`todo`), in any order; only the second forgets a job whose query failed (`ScanError`).
- `CasAssign` needs a row in `workers` (foreign key), and a lost answer may hide an update.
- `Stranded` is what `handle_worker_offline` finds: nothing, since `list_by_hirer` filters by
  the nil hirer.
- `AnnounceOnline` blocks the whole P2P loop (`LoopFree`), the assignment send the scheduler.
- `RecvAssign` refuses an assignment when the queue is full; the master only logs the answer.
- `RegisterUpsert` may lose its answer: the row is there, and no `Online` follows.
- `MasterRestart` keeps the database, `WorkerRestart` keeps nothing.

Data left out: code, files, prices and log lines; the score of a worker (any eligible one may
be the best); `is_busy`, which workers always send as false; `list_by_hirer`'s limit.

### `Ledger`

A client (`tx`) is a handler in one of the methods of `ComputeUnitLedger`; `lock` says who
holds the lock of a row of `compute_unit_balances`; `row` and `log` are the committed balances
and the sums of `compute_unit_transactions`; `account` is how far a registration got.

- `AllocateRead`, `ReserveRead`, `SettleLockFirst`, `SettleLockSecond` are the `SELECT ... FOR
  UPDATE`s, `RefundUpdate` the `UPDATE` with which `refund_full` starts; each may have to wait.
- What follows the last lock (`UPDATE`s, `INSERT`s, `COMMIT`) is one step: PostgreSQL shows
  none of it before the commit, the rows are locked, and a failure undoes all (`Abort`).
- `AllocateCommit` writes the sum of the value it read; the other updates are relative.
- `LockIfPresent`: `settle` ignores a missing row, neither locking nor failing.
- The `CHECK` constraints are guards of the commits.
- `InitializeFails`: `register` fails between the user and the balance row, for good.

Only `allocate` has a caller. `reserve`, `settle` and `refund_full` are called in the model as
their comments say: a job is reserved once and then settled or refunded once with the amount
reserved (`phase`, `price`, `Untouched`). This is an assumption about callers that do not
exist yet: the methods check none of it. A user takes part in jobs only after the
registration has ended, well or not. A commit whose answer is lost is not told from one that
succeeded: no code asks again.

### `Terminal`

One job with lines `1..length`. `task`/`next` is the position of the completion task: store the
lines one by one, update the status, broadcast the lines one by one, broadcast `job_done`, remove
the entry of `log_bus`. `pc[v]` is the position of a terminal's handler: replay, status check,
subscribe, loop. `entry` and `open` are the channel in `log_bus` and the receivers that belong to
it: a viewer that subscribes after the removal creates an entry that nobody ever removes, and is
ended by the 15 s ticker. `live[v]` is the receiver's queue, which drops its oldest message when
full (`Capacity`). `GetLogs` is any sequence the query may return, oldest first and cut at `Limit`.
History: `replayed[v]` and `count[v]` are how far the task had stored and how many lines the viewer
got when it replayed, `subscribed[v]` how far the task had broadcast when it subscribed, `lagged` the
viewers whose queue dropped something, `heard` those that received `job_done` live. `stalled` are the
clients that stay connected and read no more: every `socket.send` of the handler is awaited without a
timeout, so it may wait there for ever, and in the loop the 15 s ticker is not polled meanwhile. The properties say
which lines may be missing or doubled in these terms. The
`result.tar.gz` that `download_result` prefers is written by no code, so it is not modelled.

### `Transfer`

`sPc`, `offset` and `rPc`, `chunk`, `got` are the locals of `send_file_chunked` and
`receive_file_chunked`; `toR`, `toS` the two directions of the stream. A chunk carries its data,
a hash (the data it was made from) and `is_last`. `Damage` changes the data only: a changed hash
or length is noticed in the same way. `Lose` makes the stream worse: "silent", nothing that is written
arrives and nobody is told; "stalled", the buffers are full and a write does not end (`CanWrite`:
`write_length_prefixed` has no timeout); "broken", both sides notice. A crash does the same.
`AckTimeout` and `ChunkTimeout` may fire at any time, also when the answer is on its way.

### `Executor`

`pc` goes through the calls of `main.rs` in their order; each of them may fail (`MaxFaults`), and
what follows is the code's error path. `mode` chooses between `run_in_docker`,
`run_python3_direct` and the unused `run_job`. `dirs`, `images`, `containers` are names in use on
the machine, named after the first eight characters of the job id (`Prefix`; the whole id in
`run_job`). A call to Docker that fails may have taken effect (`BuildImage`, `Create`, `Start`), and an
image is not removed while a container is made from it. `left` are, for directories, images and
containers each, the names of which one may stay: its own removal failed, the worker crashed, or
`main.rs` returns without trying. `Tidy` is claimed of all others, in both ways of `main.rs`; in
`run_job` every early return leaves what is there. `child` and `heirs` are the
python3 process and whatever it left running with its pipes open.

### `Accounts`, `Files`, `Api`

A request in `req` is a handler between two queries. `tokens` holds the claims (`sub`, `role`) that
some valid token carries. `Expire` may happen at any time, but nothing takes a token back, also not a
restart. `generate_worker_token` copies the claims of the token it is asked with, so it changes
nothing but how long they last. `overlap` records that two role updates overlapped: the guard "must not remove the last
admin" (`api/admin.rs:98`) counts and writes in two queries, so two administrators who demote each
other at once leave none, and `AdminRemains` states under which condition the guard works.

A file is a sequence of blocks, each from one version: `tokio::fs::write` truncates and then writes
in place, so an overlapping upload can cut off or mix (`PutBlock`, `Hole`), and a download can see
a part. `torn` and `clean` record overlaps; `WholeUnlessOverlap` says nothing else can go wrong.
`Api` puts both behind the routes: who may upload what, one request at a time per connection, and
stops of the master in the middle of anything.

### `Reconnect`

`conn` counts the connections between two nodes, `dials` the dials in progress. Per loop: `boot`
(`bootstrap_peer_id`), `reconnect` and `reregister` (the timers are armed), `asking` (a rendezvous
request is open); of the master `reconnecting` (`RECONNECTING`) and `discovering`, of the worker
`masterKnown` and `attempted`. `registered` and `connections` belong to the bootstrap node. The
master notes a loss with the last connection to its bootstrap peer, the worker with any
(`NotesLoss`). Delays and the backoff are left out: a timer is armed or it is not. That the backoff
grows for ever (`reconnect_attempts` is never reset after an identification) is not visible here.

Three things the code does are kept and limit what can be claimed. Both loops take the first peer
that identifies for the bootstrap node (`p2p/handler.rs:569` of the master), which after a loss
may be the other one; `Reconnects` is therefore about a master that identified the real one. A
master that loses its first connection before the identification, and a worker whose first dial
fails, arm no timer. And the worker's timer, once armed, fires every 10 s for ever and opens
another connection each time (`MaxConns`).

### `WorkerPool` and `Matcher`

`link` are the loop's connections with a worker, `reg` a registration in progress, `events` the
channel `worker_tx`, `schedEvents`, `hand` and `dbEvents` the fan-out of `main.rs` with the scheduler's
and the DB updater's channel, `online` the scheduler's map with capabilities, `row` the `is_online` of
the table. `Disconnect` sends Offline by `try_send` even if other connections remain, `Unsubscribe`
sends one of a worker that stays, `RegistrationResult` waits for room and may announce a worker that
has left meanwhile. A heartbeat is taken for its author's, whoever relayed it (`p2p/handler.rs:675`): it
puts a worker back into the map with made-up capabilities (`ReAdd`), also one that has left or never
registered. Two history variables say what may be wrong: `skewed` are the rows written past the events
(an administrator, a registration whose upsert worked and whose answer was lost) or not written at all
(a failed query), until the worker's next event; `stale` are the workers whose Offline was dropped by a
full channel, or that were announced or had a heartbeat delivered when they had already left.

`Matcher` computes scores in thousandths. Its filter asks for a GPU with the backend and for a GPU
with the memory, which need not be the same one: `PickFits` is about workers whose GPUs have one
backend. Heartbeats always report an idle worker, so the busy filter never applies.

## 3. Runs

| Run | Instance | Shows |
|---|---|---|
| `faults` | 1 job, 2 workers, 4 worker events or cancels, 2 faults of any kind | `TypeOK`, `PlacesAgree`, `RunAtMostOnce`, `OnlyOwnerHolds`, and that `Scheduler` implements `JobLifecycle` |
| `jobs` | 2 jobs (one needs a GPU), 1 worker (with one), every channel and the queue of 1, 3 worker events or cancels, no fault, fair | `AssignedIsInFlight`, `PendingIsKnown`, `SchedulerReturns`, `JobsEnd` |
| `offline` | 1 job, 1 worker, a worker restart, fair | violates `OfflineReleasesJobs` |
| `backpressure` | 2 jobs, 1 worker, channels of 1, fair | violates `OnlineIsDelivered` |
| `ledger` | 2 users, 3 jobs (2 of one user), 2 clients, fair | `TypeOK`, `ReservedWithinBalance`, `GainsAreLogged`, `ReservedIsOpenJobs`, `NoLockCycle`, `TransactionsEnd`, and that `Ledger` implements `AtomicLedger` |
| `units` | as `ledger` | violates `UnitsComeFromAllocation` |
| `terminal` | 2 viewers, 0 or 2 lines, a replay limit of 1, a channel of 2, 1 fault, fair | `TypeOK`, `MissedOnlyInGap`, `LinesInOrder`, `DoneMeansOver`, `ViewersEnd` |
| `transfer` | files of 0 to 3 chunks with 2 contents, fair | `TypeOK`, `InStep`, `BothEnd`, and that `Transfer` implements `AtomicCopy` |
| `executor` | 3 jobs (2 with one prefix), each of the 3 ways, 2 failing calls or crashes, fair | `TypeOK`, `Tidy`, `SuccessIsExitZero`, `EveryJobEnds` |
| `api` | 2 users, 2 connections, claims of 1 user valid at a time, a binary and a job's file, 2 versions of 1 and 2 blocks, 2 uploads | `TypeOK`, `AdminRemains`, `AdminsAreMade`, `WholeUnlessOverlap` |
| `links` | master, worker, bootstrap node, 2 connections between two of them, 2 faults, fair | `TypeOK`, `Reconnects` |
| `pool` | 2 workers (a valid token and a refused one), 2 links each, 2 connections or unsubscriptions, 3 channels of 1, 1 fault, fair | `TypeOK`, `PoolsAgree`, `PickFits`, `ComesOnline` |

Bounds. Channels hold 1 (the code: 256, 512, 64, 32, 32), so that full channels occur at once.
In `jobs` the executor's queue holds 1 as well: with two jobs and one worker it refuses, and the
scheduler waits for room in the assignment channel while the loop waits for room to announce the
worker, the cases that `AssignedIsInFlight` and `SchedulerReturns` name. `MaxChurn` bounds the worker
events and the cancels of the environment: 3 let a worker register, an event fill its channel, and one
more come or a job be cancelled; 4 let two workers come, one go and the job be cancelled.
`MaxFaults` of 2 lets one fault hit the recovery from another. Two jobs are what the
competition for a worker, a scan with a remainder, and a full channel need. Runs allow the
system to stop (`CHECK_DEADLOCK FALSE`): the environment may do nothing more once its bounds
are used up and all jobs ended.

In `ledger` a lock circle needs two users who are each other's hirer and worker, a race of
reservations two jobs of one hirer, and both no more than two operations at a time. Amounts of
2 leave partial charges of 0, 1 and 2 and payouts of 0 and 1; `MaxGranted` bounds what a user
is allocated when an allocation begins (two at once may pass it), enough for one reservation
to be refused and, with two allocations, for both to be granted.

The other bounds are the smallest at which every case of the code happens. `terminal`: two lines
and `job_done` overflow a channel of 2, two lines a limit of 1; two viewers share the entry, so one
can find it gone or re-created by the other. `transfer`: three chunks are a first, a middle and a
last one. `executor`: two jobs with one prefix meet, and the third shows that a different name is
not disturbed; two faults let the clean-up after a fault fail too. `api`: two administrators who
demote each other, and two uploads of different lengths over a download, need two connections; a
user, a role and a token that are out of step need two users. One set of claims at a time is enough:
a handler goes on when the token it was asked with has expired, so both administrators can be in it. `links`: the worker
reacts to the loss of one of two connections and the master only to the last, hence two; two
faults let a failed dial follow a loss. `pool`: channels of 1 drop an event at once; two
connections let a worker leave and return or have two links, or both workers be there; an
unsubscription counts as one of them, heartbeats are not counted.

Fairness (`FairSpec`). Weak fairness of every task that the runtime schedules: build tasks,
the scheduler, each ready branch of the P2P loop (tokio's unbiased `select!` picks among the
ready ones at random), the executor (every execution is cut off by `max_duration_secs`), the
result and completion tasks, and time (`Age`, for the jobs that wait). Nothing is assumed of hirers,
connections, registrations or faults. `JobsEnd` asks that from some point on a fitting worker stays in
the online map with its real capabilities and that every online worker has a row, and that the
scheduler comes back to its `select!` again and again; a job that the worker refused is excepted, and
named. `SchedulerReturns` gives that last premise from a loop that is free again and again
(`LoopFree`): a scan ends, a full assignment channel is drained, and only the circle of waits that
`backpressure` exhibits keeps the scheduler for good.

`Ledger` assumes strong fairness of a client's statements: a waiter gets the row lock in the
end because PostgreSQL serves the waiters of a row in order.

Elsewhere: in `terminal` the task and the handlers are scheduled and the 15 s ticker ticks, but
nothing is assumed of clients: one that stays connected may stop reading at any point, its handler then
waits in a send without a timeout, and `ViewersEnd` is about the others. In `transfer` each side runs
and its timeouts, which are on reads only, fire; nothing is assumed of the stream, and a side that is in
a write which the stream never takes counts as over in `BothEnd`: it is the one place where it may
wait for ever. In `executor` the calls return and the timeout fires; of the job's code nothing is assumed,
which is why `EveryJobEnds` is conditional for a python3 job: its timeout covers only stdout. (The
fairness of the executor in `Scheduler` rests on the Docker path.) In `links` the loops run, timers
fire, dials end and a pair that stays connected identifies; nobody has to start the bootstrap node.
In `pool` the tasks go on, and by strong fairness a worker that stays connected finds room for one of
its heartbeats (one every 30 s) and the answer of a registration finds room in the end; that the
scheduler drains the channel is assumed there, `backpressure` shows when it does not.

Disagreements found, each with its run (details in `PROJECT.json`):

1. `offline`: `handle_worker_offline` finds no job ("Find any job assigned to this worker and
   mark it failed", `scheduler/mod.rs:269`), since it lists the jobs of the nil hirer.
   "Re-enqueue as pending" (`:282`) is never reached, so the peers already tried (`:56`) are none.
2. `backpressure`: scheduler and P2P loop can wait for each other.
3. `units`: `reserve` "moves balance → reserved" (`credits/engine.rs:105`) but takes nothing from the
   balance, to which `settle` and `refund_full` then add the refund: units come from nowhere.

Known consequences of the code that the models contain and that limit what is claimed:

- a failed query of the retry tick removes a job that "will retry" (`scheduler/mod.rs:201`, `:244`)
  from the retry list: `PendingIsKnown` is about runs without faults;
- a heartbeat re-adds a worker that has no row, which then cannot be assigned and is selected again
  (`scheduler/mod.rs:128`): `JobsEnd` asks for known workers only;
- `cancel_job` ("cancel a pending job", `api/jobs.rs:297`) also cancels assigned jobs, which run on:
  `JobLifecycle` lets a cancelled job start;
- `AtomicLedger` has the missing debit of `units` too: it promises atomicity, not sound prices;
  `GainsAreLogged` is about the logged gains, since the logged debits are never taken;
- a job whose assignment the worker refused stays assigned: the master only logs the answer;
- a client that stays connected and reads no more keeps its terminal's handler, and its entry of
  `log_bus`, for ever; so does a stream that takes no more writes with one side of a transfer;
- a build or a `create_container` whose answer is an error may leave an image or a container
  (`main.rs:248`, `:293` of the worker), which nobody removes later;
- a worker that has left comes back into the map by a heartbeat that another peer relays, and stays
  until its next Offline;
- a registration whose upsert worked and whose answer was lost leaves a row that says online of a
  worker the scheduler does not know;
- a demoted administrator's token keeps its role until it expires;
- a python3 job that leaves a process behind, or closes its stdout and runs on, blocks the executor;
- overlapping role changes can leave no administrator, overlapping uploads a mixed file;
- the sender of an empty file succeeds, its receiver times out;
- `run_job` reports success when the wait for its container ends without an answer, and returns
  without cleaning up when a call before it fails, although `cleanup_job` "must be called regardless of
  job success or failure" (`docker/cleanup.rs:11`): `Tidy` and `SuccessIsExitZero` leave it out.

## 4. Proofs

`Scheduler_proofs` proves, for every set of jobs and workers, every capacity and any number of
faults and events, from `SchedulerAssumption` (the null values are not jobs or workers, the
capacities are positive):

- `Typing`: `Spec => []TypeOK`;
- `PlacesAlwaysAgree`: `Spec => []PlacesAgree`;
- `StartedOnce`, `HeldByItsOwner`: `[]RunAtMostOnce`, `[]OnlyOwnerHolds`;
- `RefinesLifecycle`: `Spec => Lifecycle!Spec`;
- `PendingStaysKnown`: `[]PendingIsKnown`;
- `AssignedIsOnItsWay`: `[]AssignedIsInFlight`, for every capacity of the executor's queue: a job that
  met a full one is in `refused`, and every other assigned job is on its way.

`RunAtMostOnce` is not inductive: that `StartJob` does not start a job again depends on where
its assignment may still be. `PlacesAgree` says so: an assignment is with the scheduler, in the
channel, on the wire or in a queue, in one of them and once (`HeldInOnePlace`); all of them
lead to the owner and none is left once the job has started (`HeldByOwner`); a job that is
pending has no owner and so is nowhere (`OwnedOnceAssigned`), hence the update that assigns it
cannot create a second assignment; and what results, reports and completion tasks carry is the
recorded result (`ReportsAreTrue`), which the refinement of `Report` needs. The proof has a
lemma per group of actions; `FewerPlaces` covers all the steps that only lose or keep things.
`PendingIsKnown` is inductive as it stands; `AssignedIsInFlight` is, together with `PlacesAgree`.

`Ledger_proofs` proves, for all users, jobs, amounts and numbers of clients, from
`LedgerAssumption` (UUIDs are numbers up to some maximum, every job has a hirer, amounts are
natural numbers, at most 1 000 000 for an allocation) and `NoTxAssumption`:

- `LedgerTyping`, `ReservationsAreCovered`, `BalancesAreGains`: `[]TypeOK`,
  `[]ReservedWithinBalance`, `[]GainsAreLogged`;
- `ReservationsAddUp`: `[]ReservedIsOpenJobs`, for any number of open jobs;
- `NoDeadlock`: `[]NoLockCycle`, for circles of any length;
- `RefinesAtomicLedger`: `Spec => Atomic!Spec`.

All use `LocksProtect` (`Spec => []LedgerInv`). That the balance read by `allocate` and
the availability seen by `reserve` still hold at the commit is not inductive without who holds
which lock (`LocksHeld`, `TxSound`) and that a job is in one transaction (`OneTxPerJob`).
`EndKeepsOthers` is the heart: a commit changes only rows it has locked, so it breaks no
promise of another. For `NoDeadlock`, along a circle of waits the wanted UUIDs would grow for
ever (`WaitsUpwards`), which a bounded set of numbers does not allow.

`ReservedIsOpenJobs` is about `MapThenSumSet`, a recursive function over the subsets of a set. The
lemmas on `Cost` say what becomes of the sum when a job joins or leaves: on a finite set there is a
way to add up that does not depend on the order (`AdditiveExists`), and the recursion computes it
(`CostIsAdditive`). Both are inductions over the size, stated as the absence of a smallest
counterexample (`Smallest`). The invariant is `BooksInv`, which adds that the open jobs are finitely many.

`Transfer_proofs` proves, for files of every length and content, from `TransferAssumption` (a damaged
chunk is not a chunk, chunk counts are natural numbers):

- `TransferTyping`, `StaysInStep`: `[]TypeOK`, `[]InStep`;
- `RefinesCopy`: `Spec => Copy!Spec`.

They follow from `OneChunkAtATime` (`[]TransferInv`). `InStep` is not inductive: it depends on what is
on its way. One chunk or one acknowledgement is (`OneOnItsWay`); a chunk is the next of the file
(`ChunksAreNext`), an acknowledgement says what the receiver did (`AcksAreTrue`); and what the receiver
has kept is the beginning of the file, as far as the sender has got or one chunk further
(`KeptInStep`). A completed receiver has all of it (`SamePrefix`, `SameLength`), which is the step of
`AtomicCopy`.

`Api_proofs` proves, for all users, roles, connections, tokens and files, from the named assumptions of
`Accounts`, `Files` and `Api` (finitely many users, nobody registers as "admin", versions have a
length, null values are none of the others):

- `ApiTyping`, `MadeAdmins`, `LastAdmin`, `WholeFiles`: `[]TypeOK`, `[]AdminsAreMade`,
  `[]AdminRemains`, `[]WholeUnlessOverlap`.

For the roles, `AccountsInv` adds that a role which a handler carries from one query to the next is one
its user had been given (`RequestSound`), and that while no updates overlap a demotion still finds
another administrator when it writes (`DemotionSound`): `AnotherOne` gets him from the count. For the
files, `FilesInv` adds that a file which is not torn has one writer and holds the beginning of its
version (`WriterSound`, with `PutNext` for the write of a block), and that an undisturbed reader holds
the beginning of the file (`ReaderSound`). `OthersSound` and `UntouchedSound` say why a step of one
connection leaves the others sound.

`Executor_proofs` proves, for all jobs, however their names collide, any number of failing calls and
crashes, from `ExecutorAssumption` (the null value is no job):

- `ExecutorTyping`, `LeavesNothing`, `SuccessIsEarned`: `[]TypeOK`, `[]Tidy`, `[]SuccessIsExitZero`.

They follow from `MachineAndTruth` (`[]ExecutorInv`). `Tidy` needs which call the executor is in when
something of the current job exists (`MineInOrder`) and that nobody else's is left (`OthersClean`).
`SuccessIsExitZero` needs that a container or process whose end is read is the current job's own
(`OwnContainer`, `OwnChild`) and that after a success no code of the job is left that could end
otherwise (`VerdictIsTrue`, `ResultsStay`): a container that survived a crash bears the name of the
job that left it, and a job's code is not started twice (`TakenOnce`).

`Terminal_proofs` proves, for any number of viewers, lines and faults, every replay limit and channel
capacity, from `TerminalAssumption` (lengths are numbers, a channel holds something):

- `TerminalTyping`, `DoneIsOver`, `NothingElseMissed`, `InOrder`: `[]TypeOK`, `[]DoneMeansOver`,
  `[]MissedOnlyInGap`, `[]LinesInOrder`.

They follow from `AlwaysInv` (`[]TerminalInv`): what is stored and what the row says at each position
of the task (`TaskInv`), who has an open channel (`ChannelInv`), what a viewer has before its loop
(`FreshInv`), that the replay is the beginning of what was stored (`ReplayInv`), and that what a viewer
heard, followed by what is in its queue, ascends, lies between its subscription and the broadcast, and
has no gap unless it lagged (`StreamInv`).

`WorkerPool_proofs` proves, for every finite set of workers, all GPUs, requests and capacities, any
number of connections and faults, from `PoolAssumption` (uptimes are percentages, no token is valid and
refused, null values are none of the others):

- `PoolTyping`, `PoolsAgreeWhenQuiet`, `PicksFit`: `[]TypeOK`, `[]PoolsAgree`, `[]PickFits`.

`PoolsAgree` is about the moments at which nothing is on its way; `PoolInv` says what holds in between:
the fan-out said something last of each worker, online or offline, which is on its way to the map or
shown by it (`SchedSide`) and is on its way to the table or shown by it, unless the row is of a
registration about to be announced (`DbSide`; `FeedInv` is that there is one such word for both); the
last event of one that has left is its Offline (`LinkInv`), and capabilities in the map are the worker's
own or made-up ones without a GPU (`KnownInv`), which with `SelectedIsEligible`, about
`select_workers` for all inputs, gives `PickFits`.

`Reconnect_proofs` proves, for any number of connections and faults, from `ReconnectAssumption` (the
null value is no node):

- `ReconnectTyping`: `[]TypeOK`, which contains that the counter of `/health` is the number of
  connections and that a master that has identified its bootstrap node is connected with it, dials it
  or has a timer to.

It is inductive as it stands; its four parts have a step each in every lemma.

So every safety property and refinement that a run checks is also a theorem. Only model-checked is
liveness (`SchedulerReturns`, `JobsEnd`, `TransactionsEnd`, `ViewersEnd`, `BothEnd`, `EveryJobEnds`,
`Reconnects`, `ComesOnline`), which depends on fairness and `ENABLED`, and the three disagreements,
which are counterexamples.

## 5. Plan

Done: `Scheduler` with `JobLifecycle`, `Ledger` with `AtomicLedger`, `Transfer` with `AtomicCopy`,
`Accounts`, `Files` and `Api`, `Terminal`, `Executor`, `Reconnect`, `WorkerPool` with `Matcher`, all
checked and with theorems for all their safety properties.

Left:

1. A pure module for the price and the payout in fractions, whose rounding `Ledger` leaves out.
2. More theorems about `Matcher`: that the selection is the best of the eligible workers, in order.

Not modelled, and why:

- GPU detection, and the calls to Docker and the operating system (`executor/streams.rs`,
  `executor/netns.rs`, the two `docker/builder.rs`): wrappers of libraries; what matters of their
  outcomes is in `Executor` and `BuildImage`;
- the relay and Kademlia of the bootstrap node, and what libp2p does with a connection: library code;
  only its connections and registrations are in `Reconnect`;
- generated protobuf code, encoding, configuration and logging: no state that a property is about;
- the web frontend: it keeps no state the others rely on;
- endpoints that only read (`api/workers.rs`, `list_jobs`, `get_job`, balances) and the text of the
  setup scripts;
- rounding in the ledger, where amounts are small whole numbers;
- passwords, hashes and signatures, taken to do what they are for.
