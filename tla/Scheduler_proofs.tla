-------------------------- MODULE Scheduler_proofs --------------------------
(***************************************************************************)
(* What Scheduler guarantees for every set of jobs and workers, every      *)
(* channel capacity and any number of faults:                              *)
(*   Typing                the variables keep their types;                 *)
(*   PlacesAlwaysAgree     the inductive invariant PlacesAgree;            *)
(*   StartedOnce           no job is started twice;                        *)
(*   HeldByItsOwner        only the recorded worker holds or runs a job;   *)
(*   RefinesLifecycle      every behaviour is one of JobLifecycle;         *)
(*   PendingStaysKnown     no pending job is forgotten before a fault;     *)
(*   AssignedIsOnItsWay    nor an assigned one, unless it was refused.     *)
(***************************************************************************)
EXTENDS Scheduler, TLAPS

-----------------------------------------------------------------------------
(* Facts about the FIFO channels *)

(* An appended element is in the channel, and so are the others only. *)
LEMMA InAppend ==
  ASSUME NEW S, NEW s \in Seq(S), NEW x \in S, NEW y
  PROVE  InSeq(y, Append(s, x)) <=> InSeq(y, s) \/ y = x
<1>1. DOMAIN Append(s, x) = 1 .. Len(s) + 1 /\ DOMAIN s = 1 .. Len(s) /\ Len(s) \in Nat
  OBVIOUS
<1>2. Append(s, x)[Len(s) + 1] = x /\ \A i \in 1 .. Len(s) : Append(s, x)[i] = s[i]
  OBVIOUS
<1> QED BY <1>1, <1>2 DEF InSeq

(* What is left after the head is taken was in the channel. *)
LEMMA InTail ==
  ASSUME NEW S, NEW s \in Seq(S), s # <<>>, NEW y, InSeq(y, Tail(s))
  PROVE  InSeq(y, s)
<1>1. DOMAIN Tail(s) = 1 .. Len(s) - 1 /\ DOMAIN s = 1 .. Len(s) /\ Len(s) \in Nat
  OBVIOUS
<1>2. \A i \in 1 .. Len(s) - 1 : Tail(s)[i] = s[i + 1]
  OBVIOUS
<1> QED BY <1>1, <1>2 DEF InSeq

(* The head is in the channel, and is of its type. *)
LEMMA InHead ==
  ASSUME NEW S, NEW s \in Seq(S), s # <<>>
  PROVE  InSeq(Head(s), s) /\ Head(s) \in S
<1>1. 1 \in DOMAIN s /\ Head(s) = s[1] /\ s[1] \in S
  OBVIOUS
<1> QED BY <1>1 DEF InSeq

(* What was in the channel is its head or is left. *)
LEMMA InHeadOrTail ==
  ASSUME NEW S, NEW s \in Seq(S), s # <<>>, NEW y, InSeq(y, s)
  PROVE  y = Head(s) \/ InSeq(y, Tail(s))
<1>1. DOMAIN Tail(s) = 1 .. Len(s) - 1 /\ DOMAIN s = 1 .. Len(s) /\ Len(s) \in Nat \ {0}
  OBVIOUS
<1>2. Head(s) = s[1] /\ \A i \in 1 .. Len(s) - 1 : Tail(s)[i] = s[i + 1]
  OBVIOUS
<1>3. \A i \in 1 .. Len(s) : i = 1 \/ (i - 1 \in 1 .. Len(s) - 1 /\ (i - 1) + 1 = i)
  BY <1>1
<1> QED BY <1>1, <1>2, <1>3 DEF InSeq

(* A channel without duplicates stays so when a new element is appended. *)
LEMMA DistinctAppend ==
  ASSUME NEW S, NEW s \in Seq(S), NEW x \in S, Distinct(s), ~InSeq(x, s)
  PROVE  Distinct(Append(s, x))
<1>1. DOMAIN Append(s, x) = 1 .. Len(s) + 1 /\ DOMAIN s = 1 .. Len(s) /\ Len(s) \in Nat
  OBVIOUS
<1>2. Append(s, x)[Len(s) + 1] = x /\ \A i \in 1 .. Len(s) : Append(s, x)[i] = s[i]
  OBVIOUS
<1> QED BY <1>1, <1>2 DEF InSeq, Distinct

(* It stays so when the head is taken, and the head is in it no more. *)
LEMMA DistinctTail ==
  ASSUME NEW S, NEW s \in Seq(S), s # <<>>, Distinct(s)
  PROVE  Distinct(Tail(s)) /\ ~InSeq(Head(s), Tail(s))
<1>1. DOMAIN Tail(s) = 1 .. Len(s) - 1 /\ DOMAIN s = 1 .. Len(s) /\ Len(s) \in Nat \ {0}
  OBVIOUS
<1>2. Head(s) = s[1] /\ \A i \in 1 .. Len(s) - 1 : Tail(s)[i] = s[i + 1]
  OBVIOUS
<1> QED BY <1>1, <1>2 DEF InSeq, Distinct

-----------------------------------------------------------------------------
(* Types *)

(* The initial state is well typed. *)
LEMMA InitTyped == ASSUME Init PROVE TypeOK
BY DEF Init, TypeOK, DbTypeOK, ApiTypeOK, SchedTypeOK, LocalsTypeOK, NetTypeOK, WorkerTypeOK,
       HistTypeOK, Status

(* What a step leaves alone keeps its type. *)
LEMMA Untouched ==
  ASSUME TypeOK
  PROVE  /\ UNCHANGED dbVars => DbTypeOK'
         /\ UNCHANGED apiVars => ApiTypeOK'
         /\ UNCHANGED <<cmds, events, online, pendVars>> => SchedTypeOK'
         /\ UNCHANGED localVars => LocalsTypeOK'
         /\ UNCHANGED <<p2pVars, netVars>> => NetTypeOK'
         /\ UNCHANGED workerVars => WorkerTypeOK'
         /\ UNCHANGED <<histVars, boundVars>> => HistTypeOK'
<1>1. UNCHANGED dbVars => DbTypeOK' BY DEF TypeOK, DbTypeOK, dbVars
<1>2. UNCHANGED apiVars => ApiTypeOK' BY DEF TypeOK, ApiTypeOK, apiVars
<1>3. UNCHANGED <<cmds, events, online, pendVars>> => SchedTypeOK'
  BY DEF TypeOK, SchedTypeOK, pendVars
<1>4. UNCHANGED localVars => LocalsTypeOK' BY DEF TypeOK, LocalsTypeOK, localVars
<1>5. UNCHANGED <<p2pVars, netVars>> => NetTypeOK' BY DEF TypeOK, NetTypeOK, p2pVars, netVars
<1>6. UNCHANGED workerVars => WorkerTypeOK' BY DEF TypeOK, WorkerTypeOK, workerVars
<1>7. UNCHANGED <<histVars, boundVars>> => HistTypeOK'
  BY DEF TypeOK, HistTypeOK, histVars, boundVars
<1> QED BY <1>1, <1>2, <1>3, <1>4, <1>5, <1>6, <1>7

(* A fault or a worker event only counts. *)
LEMMA CountTyped ==
  ASSUME HistTypeOK, UNCHANGED histVars, faults' \in {faults, faults + 1},
         churn' \in {churn, churn + 1}
  PROVE  HistTypeOK'
BY DEF HistTypeOK, histVars

(* The steps of the HTTP handlers and their build tasks keep the types. *)
LEMMA ApiTyped ==
  ASSUME TypeOK, NEW j \in Job,
         InsertRow(j) \/ SubmitStep(j) \/ Age(j) \/ CancelRead(j) \/ CancelWrite(j)
  PROVE  TypeOK'
<1>a. /\ UNCHANGED <<localVars, p2pVars, netVars, workerVars, histVars>>
      /\ faults' \in {faults, faults + 1} /\ churn' \in {churn, churn + 1}
  <2>1. CASE InsertRow(j) BY <2>1 DEF InsertRow, boundVars
  <2>2. CASE SaveFiles(j) BY <2>2 DEF SaveFiles, Fault, boundVars
  <2>3. CASE BuildImage(j) BY <2>3 DEF BuildImage, Fault, boundVars
  <2>4. CASE Enqueue(j) BY <2>4 DEF Enqueue, boundVars
  <2>5. CASE Age(j) BY <2>5 DEF Age, boundVars
  <2>6. CASE CancelRead(j) BY <2>6 DEF CancelRead, boundVars
  <2>7. CASE CancelWrite(j) BY <2>7 DEF CancelWrite, boundVars
  <2> QED BY <2>1, <2>2, <2>3, <2>4, <2>5, <2>6, <2>7 DEF SubmitStep
<1>b. LocalsTypeOK' /\ NetTypeOK' /\ WorkerTypeOK'
  BY <1>a, Untouched
<1>c. HistTypeOK'
  BY <1>a, CountTyped DEF TypeOK
<1>d. DbTypeOK'
  <2>1. CASE InsertRow(j) BY <2>1 DEF InsertRow, TypeOK, DbTypeOK, Status
  <2>2. CASE Age(j) BY <2>2 DEF Age, TypeOK, DbTypeOK
  <2>3. CASE CancelWrite(j) BY <2>3 DEF CancelWrite, TypeOK, DbTypeOK, Status, Terminal
  <2>4. CASE SubmitStep(j) \/ CancelRead(j)
    BY <2>4, Untouched DEF SubmitStep, SaveFiles, BuildImage, Enqueue, CancelRead
  <2> QED BY <2>1, <2>2, <2>3, <2>4
<1>e. ApiTypeOK'
  <2>1. CASE InsertRow(j) BY <2>1 DEF InsertRow, TypeOK, ApiTypeOK
  <2>2. CASE SubmitStep(j)
    BY <2>2 DEF SubmitStep, SaveFiles, BuildImage, Enqueue, TypeOK, ApiTypeOK
  <2>3. CASE Age(j) BY <2>3, Untouched DEF Age
  <2>4. CASE CancelRead(j) BY <2>4 DEF CancelRead, TypeOK, ApiTypeOK
  <2>5. CASE CancelWrite(j) BY <2>5 DEF CancelWrite, TypeOK, ApiTypeOK
  <2> QED BY <2>1, <2>2, <2>3, <2>4, <2>5
<1>f. SchedTypeOK'
  <2>1. CASE Enqueue(j) BY <2>1 DEF Enqueue, TypeOK, SchedTypeOK, pendVars
  <2>2. CASE ~Enqueue(j)
    BY <2>2, Untouched DEF InsertRow, SubmitStep, SaveFiles, BuildImage, Age, CancelRead, CancelWrite
  <2> QED BY <2>1, <2>2
<1> QED BY <1>b, <1>c, <1>d, <1>e, <1>f DEF TypeOK
(* The head of a channel is taken. *)
LEMMA Taken ==
  ASSUME NEW S, NEW s \in Seq(S), s # <<>>
  PROVE  Head(s) \in S /\ Tail(s) \in Seq(S)
OBVIOUS

(* An element joins a channel. *)
LEMMA Appended ==
  ASSUME NEW S, NEW s \in Seq(S), NEW x \in S
  PROVE  Append(s, x) \in Seq(S)
OBVIOUS

(* Going on to the next job, trying to assign one and starting a scan leave  *)
(* the scheduler's locals well typed.                                        *)
LEMMA ResumeTyped ==
  ASSUME LocalsTypeOK, NEW rest \in SUBSET Job, Resume(rest)
  PROVE  LocalsTypeOK'
BY DEF Resume, LocalsTypeOK

LEMMA TryAssignTyped ==
  ASSUME LocalsTypeOK, NEW rest \in SUBSET Job, NEW j \in Job, NEW ex, TryAssign(j, ex, rest)
  PROVE  LocalsTypeOK'
<1>1. CASE Resume(rest) BY <1>1, ResumeTyped
<1>2. CASE \E w \in Eligible(j, ex) : /\ pc' = "cas" /\ cur' = j /\ pick' = w
                                     /\ todo' = rest /\ UNCHANGED scan
  BY <1>2 DEF LocalsTypeOK, Eligible
<1> QED BY <1>1, <1>2 DEF TryAssign

LEMMA StartScanTyped ==
  ASSUME LocalsTypeOK, pc = "idle", waiting \subseteq Job,
         NEW kind \in {"pending", "stale"}, StartScan(kind)
  PROVE  LocalsTypeOK'
BY DEF StartScan, LocalsTypeOK

(* The scheduler's steps keep the types. *)
LEMMA SchedulerTyped ==
  ASSUME TypeOK, SchedulerStep
  PROVE  TypeOK'
<1> USE DEF TypeOK
<1>a. /\ UNCHANGED <<apiVars, netVars, workerVars, histVars>>
      /\ faults' \in {faults, faults + 1} /\ churn' \in {churn, churn + 1}
  <2>1. CASE RecvEnqueue \/ RecvOnline \/ RecvHeartbeat \/ RecvOffline \/ RetryTick \/ ScanRow
    BY <2>1 DEF RecvEnqueue, RecvOnline, RecvHeartbeat, RecvOffline, RetryTick, ScanRow, boundVars
  <2>2. CASE ScanError BY <2>2 DEF ScanError, Fault
  <2>3. CASE CasAssign BY <2>3 DEF CasAssign, Fault, boundVars
  <2>4. CASE BuildAssignment BY <2>4 DEF BuildAssignment, Fault, boundVars
  <2>5. CASE SendAssign BY <2>5 DEF SendAssign, boundVars
  <2> QED BY <2>1, <2>2, <2>3, <2>4, <2>5 DEF SchedulerStep
<1>b. ApiTypeOK' /\ WorkerTypeOK'
  BY <1>a, Untouched
<1>c. HistTypeOK'
  BY <1>a, CountTyped
<1>d. DbTypeOK'
  <2>1. CASE CasAssign BY <2>1 DEF CasAssign, DbTypeOK, LocalsTypeOK, Status
  <2>2. CASE RecvOffline BY <2>2 DEF RecvOffline, DbTypeOK, Status
  <2>3. CASE ~CasAssign /\ ~RecvOffline
    BY <2>3, Untouched DEF SchedulerStep, RecvEnqueue, RecvOnline, RecvHeartbeat, RetryTick,
                           ScanRow, ScanError, BuildAssignment, SendAssign
  <2> QED BY <2>1, <2>2, <2>3
<1>e. SchedTypeOK'
  <2> USE DEF SchedTypeOK
  <2>1. CASE RecvEnqueue BY <2>1, Taken DEF RecvEnqueue
  <2>2. CASE RecvOnline BY <2>2, Taken DEF RecvOnline, Event, pendVars
  <2>3. CASE RecvHeartbeat BY <2>3, Taken DEF RecvHeartbeat, Event, pendVars
  <2>4. CASE RecvOffline BY <2>4, Taken DEF RecvOffline, Event, Stranded, NilHirerJobs
  <2>5. CASE RetryTick BY <2>5 DEF RetryTick, pendVars
  <2>6. CASE ScanRow BY <2>6 DEF ScanRow, Forget, pendVars, LocalsTypeOK
  <2>7. CASE ScanError BY <2>7 DEF ScanError, Forget, pendVars, LocalsTypeOK
  <2>8. CASE CasAssign BY <2>8 DEF CasAssign, pendVars
  <2>9. CASE BuildAssignment BY <2>9 DEF BuildAssignment, pendVars
  <2>10. CASE SendAssign BY <2>10 DEF SendAssign, LocalsTypeOK
  <2> QED BY <2>1, <2>2, <2>3, <2>4, <2>5, <2>6, <2>7, <2>8, <2>9, <2>10 DEF SchedulerStep
<1>f. LocalsTypeOK'
  <2>0. todo \subseteq Job /\ waiting \subseteq Job /\ {} \in SUBSET Job
        /\ \A j \in todo : j \in Job /\ todo \ {j} \in SUBSET Job
    BY DEF LocalsTypeOK, SchedTypeOK
  <2>1. CASE RecvEnqueue
    <3>1. Head(cmds) \in Job /\ TryAssign(Head(cmds), {}, {})
      BY <2>1, Taken DEF RecvEnqueue, SchedTypeOK
    <3> QED BY <2>0, <3>1, TryAssignTyped
  <2>2. CASE RecvOnline \/ RetryTick
    <3>1. pc = "idle" /\ (StartScan("pending") \/ StartScan("stale"))
      BY <2>2 DEF RecvOnline, RetryTick
    <3> QED BY <2>0, <3>1, StartScanTyped
  <2>3. CASE RecvHeartbeat
    <3>1. pc = "idle" /\ (StartScan("pending") \/ UNCHANGED localVars)
      BY <2>3 DEF RecvHeartbeat
    <3> QED BY <2>0, <3>1, StartScanTyped, Untouched
  <2>4. CASE RecvOffline BY <2>4, Untouched DEF RecvOffline
  <2>5. CASE ScanRow
    <3>1. PICK j \in todo : Resume(todo \ {j}) \/ TryAssign(j, tried[j], todo \ {j})
      BY <2>5 DEF ScanRow
    <3> QED BY <2>0, <3>1, ResumeTyped, TryAssignTyped
  <2>6. CASE ScanError
    <3>1. PICK j \in todo : Resume(todo \ {j})
      BY <2>6 DEF ScanError
    <3> QED BY <2>0, <3>1, ResumeTyped
  <2>7. CASE CasAssign
    <3>1. CASE Resume(todo) BY <2>0, <3>1, ResumeTyped
    <3>2. CASE pc' = "build" /\ UNCHANGED <<scan, todo, cur, pick>>
      BY <2>7, <3>2 DEF CasAssign, LocalsTypeOK
    <3> QED BY <2>7, <3>1, <3>2 DEF CasAssign
  <2>8. CASE BuildAssignment
    <3>1. CASE Resume(todo) BY <2>0, <3>1, ResumeTyped
    <3>2. CASE pc' = "send" /\ UNCHANGED <<scan, todo, cur, pick>>
      BY <2>8, <3>2 DEF BuildAssignment, LocalsTypeOK
    <3> QED BY <2>8, <3>1, <3>2 DEF BuildAssignment
  <2>9. CASE SendAssign BY <2>0, <2>9, ResumeTyped DEF SendAssign
  <2> QED BY <2>1, <2>2, <2>3, <2>4, <2>5, <2>6, <2>7, <2>8, <2>9 DEF SchedulerStep
<1>g. NetTypeOK'
  <2>1. CASE SendAssign
    BY <2>1 DEF SendAssign, NetTypeOK, LocalsTypeOK, Assignment, netVars
  <2>2. CASE ~SendAssign
    BY <2>2, Untouched DEF SchedulerStep, RecvEnqueue, RecvOnline, RecvHeartbeat, RecvOffline,
                           RetryTick, ScanRow, ScanError, CasAssign, BuildAssignment
  <2> QED BY <2>1, <2>2
<1> QED BY <1>b, <1>c, <1>d, <1>e, <1>f, <1>g
(* The steps of the master's P2P loop and its tasks. *)
P2PStep ==
  \/ \E w \in Worker : RegisterUpsert(w) \/ RegisterReply(w) \/ ConnectionClosed(w) \/ Heartbeat(w)
  \/ AnnounceOnline \/ SendRequest
  \/ \E r \in Completion : RecvReport(r) \/ CompleteJob(r)

(* They keep the types. *)
LEMMA P2PTyped ==
  ASSUME TypeOK, P2PStep
  PROVE  TypeOK'
<1> USE DEF TypeOK, schedVars
<1>a. /\ UNCHANGED <<apiVars, localVars, pendVars, cmds, online, workerVars, histVars>>
      /\ faults' \in {faults, faults + 1} /\ churn' \in {churn, churn + 1}
  <2>1. ASSUME NEW w \in Worker,
               RegisterUpsert(w) \/ RegisterReply(w) \/ ConnectionClosed(w) \/ Heartbeat(w)
        PROVE  <1>a!:
    BY <2>1 DEF RegisterUpsert, RegisterReply, ConnectionClosed, Heartbeat, Emit, Fault, boundVars
  <2>2. CASE AnnounceOnline \/ SendRequest
    BY <2>2 DEF AnnounceOnline, SendRequest, boundVars
  <2>3. ASSUME NEW r \in Completion, RecvReport(r) \/ CompleteJob(r)
        PROVE  <1>a!:
    BY <2>3 DEF RecvReport, CompleteJob, Fault, boundVars
  <2> QED BY <2>1, <2>2, <2>3 DEF P2PStep
<1>b. ApiTypeOK' /\ LocalsTypeOK' /\ WorkerTypeOK'
  BY <1>a, Untouched
<1>c. HistTypeOK'
  BY <1>a, CountTyped
<1>d. DbTypeOK'
  <2>1. ASSUME NEW w \in Worker, RegisterUpsert(w) PROVE DbTypeOK'
    BY <2>1 DEF RegisterUpsert, DbTypeOK
  <2>2. ASSUME NEW w \in Worker, RegisterReply(w) \/ ConnectionClosed(w) \/ Heartbeat(w)
        PROVE  DbTypeOK'
    BY <2>2, Untouched DEF RegisterReply, ConnectionClosed, Heartbeat
  <2>3. CASE AnnounceOnline \/ SendRequest BY <2>3, Untouched DEF AnnounceOnline, SendRequest
  <2>4. ASSUME NEW r \in Completion, RecvReport(r) PROVE DbTypeOK'
    BY <2>4, Untouched DEF RecvReport
  <2>5. ASSUME NEW r \in Completion, CompleteJob(r) PROVE DbTypeOK'
    BY <2>5 DEF CompleteJob, DbTypeOK, Completion, Status, Terminal, Outcome
  <2> QED BY <2>1, <2>2, <2>3, <2>4, <2>5 DEF P2PStep
<1>e. SchedTypeOK'
  <2>1. events' \in Seq(Event)
    <3>1. ASSUME NEW w \in Worker, RegisterUpsert(w) \/ RegisterReply(w)
          PROVE  events' \in Seq(Event)
      BY <3>1 DEF RegisterUpsert, RegisterReply, SchedTypeOK
    <3>2. ASSUME NEW w \in Worker, ConnectionClosed(w) \/ Heartbeat(w)
          PROVE  events' \in Seq(Event)
      <4>1. PICK k \in {"offline", "heartbeat"} : Emit(k, w)
        BY <3>2 DEF ConnectionClosed, Heartbeat
      <4>2. [kind |-> k, peer |-> w] \in Event
        BY DEF Event
      <4>3. Append(events, [kind |-> k, peer |-> w]) \in Seq(Event)
        BY <4>2, Appended DEF SchedTypeOK
      <4> QED BY <4>1, <4>3 DEF Emit, SchedTypeOK
    <3>3. CASE SendRequest BY <3>3 DEF SendRequest, SchedTypeOK
    <3>5. CASE AnnounceOnline
      <4>1. [kind |-> "online", peer |-> announcing] \in Event
        BY <3>5 DEF AnnounceOnline, LoopFree, NetTypeOK, Event
      <4> QED BY <3>5, <4>1, Appended DEF AnnounceOnline, SchedTypeOK
    <3>4. ASSUME NEW r \in Completion, RecvReport(r) \/ CompleteJob(r)
          PROVE  events' \in Seq(Event)
      BY <3>4 DEF RecvReport, CompleteJob, SchedTypeOK
    <3> QED BY <3>1, <3>2, <3>3, <3>4, <3>5 DEF P2PStep
  <2> QED BY <1>a, <2>1 DEF SchedTypeOK, pendVars
<1>g. NetTypeOK'
  <2>1. ASSUME NEW w \in Worker, RegisterUpsert(w) \/ RegisterReply(w) PROVE NetTypeOK'
    BY <2>1 DEF RegisterUpsert, RegisterReply, NetTypeOK, netVars
  <2>2. ASSUME NEW w \in Worker, ConnectionClosed(w) \/ Heartbeat(w) PROVE NetTypeOK'
    BY <2>2, Untouched DEF ConnectionClosed, Heartbeat
  <2>3. CASE SendRequest BY <2>3, Taken DEF SendRequest, NetTypeOK
  <2>5. CASE AnnounceOnline BY <2>5 DEF AnnounceOnline, NetTypeOK, netVars
  <2>4. ASSUME NEW r \in Completion, RecvReport(r) \/ CompleteJob(r) PROVE NetTypeOK'
    BY <2>4 DEF RecvReport, CompleteJob, NetTypeOK, netVars
  <2> QED BY <2>1, <2>2, <2>3, <2>4, <2>5 DEF P2PStep
<1> QED BY <1>b, <1>c, <1>d, <1>e, <1>g

(* A restart of the master keeps the types. *)
LEMMA RestartTyped ==
  ASSUME TypeOK, MasterRestart
  PROVE  TypeOK'
<1> USE DEF TypeOK
<1>1. DbTypeOK' /\ WorkerTypeOK'
  BY Untouched DEF MasterRestart
<1>2. HistTypeOK'
  BY CountTyped DEF MasterRestart, Fault
<1>3. ApiTypeOK'
  BY DEF MasterRestart, ApiTypeOK
<1>4. SchedTypeOK' /\ LocalsTypeOK'
  BY DEF MasterRestart, SchedTypeOK, LocalsTypeOK
<1>5. NetTypeOK'
  BY DEF MasterRestart, NetTypeOK, netVars
<1> QED BY <1>1, <1>2, <1>3, <1>4, <1>5

(* The steps of the workers and of the network between them and the master. *)
WorkerStep ==
  \/ \E w \in Worker : ExecutorStep(w) \/ SendReport(w) \/ WorkerRestart(w)
  \/ \E m \in Assignment : RecvAssign(m) \/ LoseAssign(m)
  \/ \E r \in Completion : LoseReport(r)

(* They keep the types. *)
LEMMA WorkerTyped ==
  ASSUME TypeOK, WorkerStep
  PROVE  TypeOK'
<1> USE DEF TypeOK, masterVars, schedVars
<1>1. ASSUME NEW w \in Worker, StartJob(w) PROVE TypeOK'
  <2>1. DbTypeOK' /\ ApiTypeOK' /\ SchedTypeOK' /\ LocalsTypeOK' /\ NetTypeOK'
    BY <1>1, Untouched DEF StartJob
  <2>2. Head(queue[w]) \in Job /\ Tail(queue[w]) \in Seq(Job)
    BY <1>1, Taken DEF StartJob, WorkerTypeOK
  <2>3. WorkerTypeOK'
    BY <1>1, <2>2 DEF StartJob, WorkerTypeOK
  <2>4. HistTypeOK'
    BY <1>1, <2>2 DEF StartJob, HistTypeOK, boundVars
  <2> QED BY <2>1, <2>3, <2>4
<1>2. ASSUME NEW w \in Worker, NEW ok \in BOOLEAN, FinishJob(w, ok) PROVE TypeOK'
  <2>1. DbTypeOK' /\ ApiTypeOK' /\ SchedTypeOK' /\ LocalsTypeOK' /\ NetTypeOK'
    BY <1>2, Untouched DEF FinishJob
  <2>2. running[w] \in Job
    BY <1>2 DEF FinishJob, WorkerTypeOK
  <2>3. WorkerTypeOK'
    <3>1. [job |-> running[w], ok |-> ok] \in Completion
      BY <2>2 DEF Completion
    <3>2. Append(results[w], [job |-> running[w], ok |-> ok]) \in Seq(Completion)
      BY <3>1, Appended DEF WorkerTypeOK
    <3> QED BY <1>2, <3>2 DEF FinishJob, WorkerTypeOK
  <2>4. HistTypeOK'
    BY <1>2, <2>2 DEF FinishJob, HistTypeOK, Outcome, boundVars
  <2> QED BY <2>1, <2>3, <2>4
<1>3. ASSUME NEW w \in Worker, SendReport(w) PROVE TypeOK'
  <2>1. DbTypeOK' /\ ApiTypeOK' /\ SchedTypeOK' /\ LocalsTypeOK' /\ HistTypeOK'
    BY <1>3, Untouched DEF SendReport
  <2>2. Head(results[w]) \in Completion /\ Tail(results[w]) \in Seq(Completion)
    BY <1>3, Taken DEF SendReport, WorkerTypeOK
  <2>3. NetTypeOK' /\ WorkerTypeOK'
    BY <1>3, <2>2 DEF SendReport, NetTypeOK, WorkerTypeOK, p2pVars
  <2> QED BY <2>1, <2>3
<1>4. ASSUME NEW w \in Worker, WorkerRestart(w) PROVE TypeOK'
  <2>1. DbTypeOK' /\ ApiTypeOK' /\ SchedTypeOK' /\ LocalsTypeOK' /\ NetTypeOK'
    BY <1>4, Untouched DEF WorkerRestart
  <2>2. HistTypeOK'
    BY <1>4, CountTyped DEF WorkerRestart, Fault
  <2>3. WorkerTypeOK'
    BY <1>4 DEF WorkerRestart, WorkerTypeOK
  <2> QED BY <2>1, <2>2, <2>3
<1>5. ASSUME NEW m \in Assignment, RecvAssign(m) PROVE TypeOK'
  <2>1. DbTypeOK' /\ ApiTypeOK' /\ SchedTypeOK' /\ LocalsTypeOK'
    BY <1>5, Untouched DEF RecvAssign
  <2>3. HistTypeOK'
    BY <1>5 DEF RecvAssign, HistTypeOK, Assignment, boundVars
  <2>2. NetTypeOK'
    BY <1>5 DEF RecvAssign, NetTypeOK, p2pVars
  <2>4. WorkerTypeOK'
    <3>1. queue[m.peer] \in Seq(Job) /\ m.job \in Job
      BY DEF Assignment, WorkerTypeOK
    <3>2. Append(queue[m.peer], m.job) \in Seq(Job)
      BY <3>1, Appended
    <3> QED BY <1>5, <3>2 DEF RecvAssign, WorkerTypeOK
  <2> QED BY <2>1, <2>2, <2>3, <2>4
<1>6. ASSUME NEW m \in Assignment, LoseAssign(m) PROVE TypeOK'
  <2>1. DbTypeOK' /\ ApiTypeOK' /\ SchedTypeOK' /\ LocalsTypeOK' /\ WorkerTypeOK'
    BY <1>6, Untouched DEF LoseAssign
  <2>2. NetTypeOK' /\ HistTypeOK'
    BY <1>6, CountTyped DEF LoseAssign, NetTypeOK, p2pVars, Fault
  <2> QED BY <2>1, <2>2
<1>7. ASSUME NEW r \in Completion, LoseReport(r) PROVE TypeOK'
  <2>1. DbTypeOK' /\ ApiTypeOK' /\ SchedTypeOK' /\ LocalsTypeOK' /\ WorkerTypeOK'
    BY <1>7, Untouched DEF LoseReport
  <2>2. NetTypeOK' /\ HistTypeOK'
    BY <1>7, CountTyped DEF LoseReport, NetTypeOK, p2pVars, Fault
  <2> QED BY <2>1, <2>2
<1> QED BY <1>1, <1>2, <1>3, <1>4, <1>5, <1>6, <1>7 DEF WorkerStep, ExecutorStep

(* Every step is one of five kinds. *)
LEMMA Steps ==
  ASSUME Next
  PROVE  \/ \E j \in Job : InsertRow(j) \/ SubmitStep(j) \/ Age(j) \/ CancelRead(j) \/ CancelWrite(j)
         \/ SchedulerStep \/ P2PStep \/ MasterRestart \/ WorkerStep
BY DEF Next, P2PStep, WorkerStep

(* The variables of the program always have their types: no state reaches an *)
(* unknown status, an assignment to nobody or a scheduler that is about to   *)
(* assign without a job and a worker at hand.                                *)
THEOREM Typing == Spec => []TypeOK
<1>1. Init => TypeOK
  BY InitTyped
<1>2. TypeOK /\ [Next]_vars => TypeOK'
  <2>1. CASE UNCHANGED vars
    BY <2>1, Untouched DEF vars, TypeOK
  <2>2. CASE Next
    BY <2>2, Steps, ApiTyped, SchedulerTyped, P2PTyped, RestartTyped, WorkerTyped
  <2> QED BY <2>1, <2>2
<1> QED BY <1>1, <1>2, PTL DEF Spec
-----------------------------------------------------------------------------
(* The inductive invariant *)

(* A step that moves nothing to a new place, starts nothing, and assigns     *)
(* nothing keeps PlacesAgree: it may lose assignments, results and the       *)
(* scheduler's position.                                                     *)
LEMMA FewerPlaces ==
  ASSUME PlacesAgree,
         UNCHANGED <<owner, runs, result>>,
         OwnedOnceAssigned',
         Distinct(assignCh)', \A w \in Worker : Distinct(queue[w])',
         \A j \in Job, w \in Worker :
           /\ Sending(j, w)' => Sending(j, w)
           /\ InChannel(j, w)' => InChannel(j, w)
           /\ OnWire(j, w)' => OnWire(j, w)
           /\ Queued(j, w)' => Queued(j, w)
           /\ Executing(j, w)' => Executing(j, w),
         \A r \in Completion : Claimed(r)' => Claimed(r)
  PROVE  PlacesAgree'
<1>1. HeldByOwner'
  BY DEF PlacesAgree, HeldByOwner, Held
<1>2. HeldInOnePlace'
  BY DEF PlacesAgree, HeldInOnePlace
<1>3. StartedByOwner'
  BY DEF PlacesAgree, StartedByOwner
<1>4. ReportsAreTrue'
  BY DEF PlacesAgree, ReportsAreTrue
<1> QED BY <1>1, <1>2, <1>3, <1>4 DEF PlacesAgree

(* So does a step that changes no place at all. *)
LEMMA NothingMoves ==
  ASSUME PlacesAgree,
         UNCHANGED <<owner, runs, result, assignCh, tasks, netVars, workerVars>>,
         OwnedOnceAssigned',
         pc' \in {"build", "send"} => UNCHANGED <<cur, pick>> /\ pc \in {"build", "send"}
  PROVE  PlacesAgree'
<1>1. Distinct(assignCh)' /\ \A w \in Worker : Distinct(queue[w])'
  BY DEF PlacesAgree, HeldInOnePlace, workerVars
<1>2. \A j \in Job, w \in Worker :
           /\ Sending(j, w)' => Sending(j, w)
           /\ InChannel(j, w)' => InChannel(j, w)
           /\ OnWire(j, w)' => OnWire(j, w)
           /\ Queued(j, w)' => Queued(j, w)
           /\ Executing(j, w)' => Executing(j, w)
  BY DEF Sending, InChannel, OnWire, Queued, Executing, workerVars, netVars
<1>3. \A r \in Completion : Claimed(r)' => Claimed(r)
  BY DEF Claimed, netVars, workerVars
<1> QED BY <1>1, <1>2, <1>3, FewerPlaces

(* Initially there is nothing anywhere. *)
LEMMA InitAgrees == ASSUME Init PROVE PlacesAgree
<1>1. OwnedOnceAssigned /\ StartedByOwner
  BY SchedulerAssumption DEF Init, OwnedOnceAssigned, StartedByOwner, Executing
<1>2. HeldByOwner /\ HeldInOnePlace
  BY DEF Init, HeldByOwner, HeldInOnePlace, Held, Sending, InChannel, OnWire, Queued, InSeq, Distinct
<1>3. ReportsAreTrue
  BY DEF Init, ReportsAreTrue, Claimed, InSeq
<1> QED BY <1>1, <1>2, <1>3 DEF PlacesAgree

(* The HTTP handlers change no place, and no job to unassigned. *)
LEMMA ApiAgrees ==
  ASSUME TypeOK, PlacesAgree, NEW j \in Job,
         InsertRow(j) \/ SubmitStep(j) \/ Age(j) \/ CancelRead(j) \/ CancelWrite(j)
  PROVE  PlacesAgree'
<1> USE DEF TypeOK
<1>1. UNCHANGED <<owner, runs, result, assignCh, tasks, netVars, workerVars, localVars>>
  BY DEF InsertRow, SubmitStep, SaveFiles, BuildImage, Enqueue, Age, CancelRead, CancelWrite,
         dbVars, p2pVars, histVars
<1>2. OwnedOnceAssigned'
  <2> USE DEF PlacesAgree, OwnedOnceAssigned, DbTypeOK, ApiTypeOK, dbVars, apiVars
  <2>1. CASE InsertRow(j) BY <2>1 DEF InsertRow
  <2>2. CASE SubmitStep(j) BY <2>2 DEF SubmitStep, SaveFiles, BuildImage, Enqueue
  <2>3. CASE Age(j) BY <2>3 DEF Age
  <2>4. CASE CancelRead(j) BY <2>4 DEF CancelRead
  <2>5. CASE CancelWrite(j) BY <2>5 DEF CancelWrite, InStatus, Cancellable
  <2> QED BY <2>1, <2>2, <2>3, <2>4, <2>5
<1> QED BY <1>1, <1>2, NothingMoves DEF localVars
(* The update that assigns a job finds it nowhere: it never had an owner. *)
LEMMA AssignAgrees ==
  ASSUME TypeOK, PlacesAgree, pc = "cas", CanAssign(cur, pick),
         status' = [status EXCEPT ![cur] = "assigned"],
         owner' = [owner EXCEPT ![cur] = pick],
         UNCHANGED <<submit, runs, result, assignCh, tasks, netVars, workerVars>>,
         pc' \in {"build", "send"} => UNCHANGED <<cur, pick>>
  PROVE  PlacesAgree'
<1> USE DEF TypeOK
<1>1. cur \in Job /\ pick \in Worker /\ pick # NoPeer
  BY SchedulerAssumption DEF LocalsTypeOK
<1>2. owner[cur] = NoPeer
  BY <1>1 DEF PlacesAgree, OwnedOnceAssigned, CanAssign, InStatus
<1>3. \A w \in Worker : w # NoPeer /\ owner[cur] # w
  BY <1>2, SchedulerAssumption
<1>4. /\ owner'[cur] = pick /\ runs[cur] = 0
      /\ \A w \in Worker : ~Held(cur, w) /\ ~Executing(cur, w)
  BY <1>1, <1>2, <1>3 DEF PlacesAgree, HeldByOwner, StartedByOwner, DbTypeOK
<1>5. \A j \in Job : j # cur => owner'[j] = owner[j] /\ status'[j] = status[j]
  BY DEF DbTypeOK
<1>6. \A j \in Job, w \in Worker :
        /\ InChannel(j, w)' <=> InChannel(j, w)
        /\ OnWire(j, w)' <=> OnWire(j, w)
        /\ Queued(j, w)' <=> Queued(j, w)
        /\ Executing(j, w)' <=> Executing(j, w)
        /\ Sending(j, w)' => j = cur /\ w = pick
  BY DEF InChannel, OnWire, Queued, Executing, Sending, netVars, workerVars
<1>7. OwnedOnceAssigned'
  BY <1>1, <1>5 DEF PlacesAgree, OwnedOnceAssigned, DbTypeOK, CanAssign, InStatus
<1>8. HeldByOwner'
  BY <1>4, <1>5, <1>6 DEF PlacesAgree, HeldByOwner, Held
<1>9. HeldInOnePlace'
  BY <1>4, <1>6 DEF PlacesAgree, HeldInOnePlace, Held, workerVars
<1>10. StartedByOwner'
  BY <1>4, <1>5, <1>6 DEF PlacesAgree, StartedByOwner
<1>11. ReportsAreTrue'
  BY DEF PlacesAgree, ReportsAreTrue, Claimed, netVars, workerVars
<1> QED BY <1>7, <1>8, <1>9, <1>10, <1>11 DEF PlacesAgree

(* What the scheduler holds goes to the end of the channel to the P2P loop. *)
LEMMA SendAgrees ==
  ASSUME TypeOK, PlacesAgree, SendAssign
  PROVE  PlacesAgree'
<1> USE DEF TypeOK
<1> DEFINE a == [job |-> cur, peer |-> pick]
<1>1. cur \in Job /\ pick \in Worker /\ a \in Assignment /\ Sending(cur, pick)
  BY DEF SendAssign, LocalsTypeOK, Assignment, Sending
<1>2. /\ UNCHANGED <<status, owner, submit, runs, result, tasks, netVars, workerVars>>
      /\ assignCh' = Append(assignCh, a) /\ assignCh \in Seq(Assignment)
      /\ pc' \notin {"build", "send"}
  BY DEF SendAssign, Resume, dbVars, apiVars, histVars, NetTypeOK
<1>3. ~InChannel(cur, pick) /\ ~OnWire(cur, pick) /\ ~Queued(cur, pick)
  BY <1>1 DEF PlacesAgree, HeldInOnePlace
<1>4. Distinct(assignCh')
  BY <1>1, <1>2, <1>3, DistinctAppend DEF PlacesAgree, HeldInOnePlace, InChannel
<1>5. \A x : InSeq(x, assignCh') <=> InSeq(x, assignCh) \/ x = a
  BY <1>1, <1>2, InAppend
<1>6. \A j \in Job, w \in Worker :
        /\ InChannel(j, w)' <=> InChannel(j, w) \/ (j = cur /\ w = pick)
        /\ OnWire(j, w)' <=> OnWire(j, w)
        /\ Queued(j, w)' <=> Queued(j, w)
        /\ Executing(j, w)' <=> Executing(j, w)
        /\ ~Sending(j, w)'
  BY <1>2, <1>5 DEF InChannel, OnWire, Queued, Executing, Sending, netVars, workerVars
<1>7. OwnedOnceAssigned'
  BY <1>2 DEF PlacesAgree, OwnedOnceAssigned
<1>8. HeldByOwner'
  BY <1>1, <1>2, <1>6 DEF PlacesAgree, HeldByOwner, Held
<1>9. HeldInOnePlace'
  BY <1>2, <1>3, <1>4, <1>6 DEF PlacesAgree, HeldInOnePlace, workerVars
<1>10. StartedByOwner'
  BY <1>2, <1>6 DEF PlacesAgree, StartedByOwner
<1>11. ReportsAreTrue'
  BY <1>2 DEF PlacesAgree, ReportsAreTrue, Claimed, netVars, workerVars
<1> QED BY <1>7, <1>8, <1>9, <1>10, <1>11 DEF PlacesAgree

(* No step of the scheduler disturbs the agreement. *)
LEMMA SchedulerAgrees ==
  ASSUME TypeOK, PlacesAgree, SchedulerStep
  PROVE  PlacesAgree'
<1>1. CASE RecvEnqueue \/ RecvOnline \/ RecvHeartbeat \/ RecvOffline \/ RetryTick \/ ScanRow
           \/ ScanError \/ BuildAssignment
  <2>1. /\ UNCHANGED <<status, owner, submit, runs, result, assignCh, tasks, netVars, workerVars>>
        /\ pc' \in {"build", "send"} => UNCHANGED <<cur, pick>> /\ pc \in {"build", "send"}
    <3>1. CASE RecvEnqueue \/ ScanRow
      BY <3>1 DEF RecvEnqueue, ScanRow, TryAssign, Resume, dbVars, apiVars, p2pVars, histVars
    <3>2. CASE RecvOnline \/ RecvHeartbeat \/ RetryTick
      BY <3>2 DEF RecvOnline, RecvHeartbeat, RetryTick, StartScan, dbVars, apiVars, p2pVars,
                  histVars, localVars
    <3>3. CASE RecvOffline
      <4>1. status' = status
        BY <3>3 DEF RecvOffline, Stranded, NilHirerJobs, TypeOK, DbTypeOK
      <4> QED BY <3>3, <4>1 DEF RecvOffline, apiVars, p2pVars, histVars, localVars
    <3>4. CASE ScanError \/ BuildAssignment
      BY <3>4 DEF ScanError, BuildAssignment, Resume, dbVars, apiVars, p2pVars, histVars
    <3> QED BY <1>1, <3>1, <3>2, <3>3, <3>4
  <2>2. OwnedOnceAssigned'
    BY <2>1 DEF PlacesAgree, OwnedOnceAssigned
  <2> QED BY <2>1, <2>2, NothingMoves
<1>2. CASE CasAssign
  <2>1. /\ pc = "cas"
        /\ UNCHANGED <<submit, runs, result, assignCh, tasks, netVars, workerVars>>
        /\ pc' \in {"build", "send"} => UNCHANGED <<cur, pick>>
    BY <1>2 DEF CasAssign, Resume, apiVars, p2pVars, histVars
  <2>2. CASE /\ CanAssign(cur, pick)
             /\ status' = [status EXCEPT ![cur] = "assigned"]
             /\ owner' = [owner EXCEPT ![cur] = pick]
    BY <2>1, <2>2, AssignAgrees
  <2>3. CASE UNCHANGED <<status, owner>> /\ pc' \notin {"build", "send"}
    <3>1. OwnedOnceAssigned'
      BY <2>1, <2>3 DEF PlacesAgree, OwnedOnceAssigned
    <3> QED BY <2>1, <2>3, <3>1, NothingMoves
  <2> QED BY <1>2, <2>2, <2>3 DEF CasAssign, Resume
<1>3. CASE SendAssign BY <1>3, SendAgrees
<1> QED BY <1>1, <1>2, <1>3 DEF SchedulerStep
(* The head of the channel goes on the wire, and is in the channel no more. *)
LEMMA RequestAgrees ==
  ASSUME TypeOK, PlacesAgree, SendRequest
  PROVE  PlacesAgree'
<1> USE DEF TypeOK
<1> DEFINE a == Head(assignCh)
<1>1. /\ UNCHANGED <<status, owner, submit, runs, result, tasks, reports, localVars, workerVars>>
      /\ wire' = wire \cup {a} /\ assignCh' = Tail(assignCh)
      /\ assignCh # <<>> /\ assignCh \in Seq(Assignment)
  BY DEF SendRequest, dbVars, apiVars, histVars, NetTypeOK, schedVars
<1>2. PICK k \in Job, v \in Worker : a = [job |-> k, peer |-> v]
  BY <1>1, InHead DEF Assignment
<1>3. InChannel(k, v) /\ Distinct(assignCh)
  BY <1>1, <1>2, InHead DEF InChannel, PlacesAgree, HeldInOnePlace
<1>4. Distinct(assignCh') /\ ~InSeq(a, assignCh')
  BY <1>1, <1>3, DistinctTail
<1>5. \A x : InSeq(x, assignCh') => InSeq(x, assignCh) /\ x # a
  BY <1>1, <1>4, InTail
<1>6. \A j \in Job, w \in Worker :
        /\ InChannel(j, w)' => InChannel(j, w) /\ ~(j = k /\ w = v)
        /\ OnWire(j, w)' <=> OnWire(j, w) \/ (j = k /\ w = v)
        /\ Queued(j, w)' <=> Queued(j, w)
        /\ Executing(j, w)' <=> Executing(j, w)
        /\ Sending(j, w)' <=> Sending(j, w)
  BY <1>1, <1>2, <1>5 DEF InChannel, OnWire, Queued, Executing, Sending, localVars, workerVars
<1>7. OwnedOnceAssigned'
  BY <1>1 DEF PlacesAgree, OwnedOnceAssigned
<1>8. HeldByOwner'
  BY <1>1, <1>3, <1>6 DEF PlacesAgree, HeldByOwner, Held
<1>9. HeldInOnePlace'
  BY <1>1, <1>3, <1>4, <1>6 DEF PlacesAgree, HeldInOnePlace, workerVars
<1>10. StartedByOwner'
  BY <1>1, <1>6 DEF PlacesAgree, StartedByOwner
<1>11. ReportsAreTrue'
  BY <1>1 DEF PlacesAgree, ReportsAreTrue, Claimed, workerVars
<1> QED BY <1>7, <1>8, <1>9, <1>10, <1>11 DEF PlacesAgree

(* Nor do the other steps of the P2P loop and its tasks. *)
LEMMA P2PAgrees ==
  ASSUME TypeOK, PlacesAgree, P2PStep
  PROVE  PlacesAgree'
<1> USE DEF TypeOK
<1>1. ASSUME NEW w \in Worker,
             RegisterUpsert(w) \/ RegisterReply(w) \/ ConnectionClosed(w) \/ Heartbeat(w)
      PROVE  PlacesAgree'
  <2>1. UNCHANGED <<status, owner, submit, runs, result, assignCh, tasks, netVars, workerVars,
                    localVars>>
    BY <1>1 DEF RegisterUpsert, RegisterReply, ConnectionClosed, Heartbeat, dbVars, apiVars,
                p2pVars, histVars, schedVars
  <2>2. OwnedOnceAssigned'
    BY <2>1 DEF PlacesAgree, OwnedOnceAssigned
  <2> QED BY <2>1, <2>2, NothingMoves DEF localVars
<1>2. CASE SendRequest BY <1>2, RequestAgrees
<1>4. CASE AnnounceOnline
  <2>1. UNCHANGED <<status, owner, submit, runs, result, assignCh, tasks, netVars, workerVars,
                    localVars>>
    BY <1>4 DEF AnnounceOnline, dbVars, apiVars, histVars, schedVars
  <2>2. OwnedOnceAssigned'
    BY <2>1 DEF PlacesAgree, OwnedOnceAssigned
  <2> QED BY <2>1, <2>2, NothingMoves DEF localVars
<1>3. ASSUME NEW r \in Completion, RecvReport(r) \/ CompleteJob(r)
      PROVE  PlacesAgree'
  <2>1. /\ UNCHANGED <<owner, submit, runs, result, assignCh, wire, workerVars, localVars>>
        /\ reports' \cup tasks' \subseteq reports \cup tasks
    BY <1>3 DEF RecvReport, CompleteJob, dbVars, apiVars, histVars, schedVars, netVars
  <2>2. OwnedOnceAssigned'
    <3>1. \A j \in Job : status'[j] = status[j] \/ (status[j] = "assigned" /\ status'[j] \in Outcome)
      BY <1>3 DEF RecvReport, CompleteJob, InStatus, DbTypeOK, Outcome, Completion, dbVars
    <3> QED BY <2>1, <3>1 DEF PlacesAgree, OwnedOnceAssigned, Outcome
  <2>3. \A q \in Completion : Claimed(q)' => Claimed(q)
    BY <2>1 DEF Claimed, workerVars
  <2>4. /\ Distinct(assignCh)' /\ \A w \in Worker : Distinct(queue[w])'
        /\ \A j \in Job, w \in Worker :
             /\ Sending(j, w)' => Sending(j, w)
             /\ InChannel(j, w)' => InChannel(j, w)
             /\ OnWire(j, w)' => OnWire(j, w)
             /\ Queued(j, w)' => Queued(j, w)
             /\ Executing(j, w)' => Executing(j, w)
    BY <2>1 DEF PlacesAgree, HeldInOnePlace, Sending, InChannel, OnWire, Queued, Executing,
                localVars, workerVars
  <2> QED BY <2>1, <2>2, <2>3, <2>4, FewerPlaces
<1> QED BY <1>1, <1>2, <1>3, <1>4 DEF P2PStep

(* A restart of the master loses what it held in memory. *)
LEMMA RestartAgrees ==
  ASSUME TypeOK, PlacesAgree, MasterRestart
  PROVE  PlacesAgree'
<1> USE DEF TypeOK
<1>1. /\ UNCHANGED <<status, owner, runs, result, wire, reports, workerVars>>
      /\ assignCh' = <<>> /\ tasks' = {} /\ pc' = "idle"
  BY DEF MasterRestart, dbVars, histVars, netVars
<1>2. OwnedOnceAssigned'
  BY <1>1 DEF MasterRestart, PlacesAgree, OwnedOnceAssigned, ApiTypeOK
<1>3. Distinct(assignCh') /\ \A x : ~InSeq(x, assignCh')
  BY <1>1 DEF Distinct, InSeq
<1>4. /\ \A w \in Worker : Distinct(queue[w])'
      /\ \A j \in Job, w \in Worker :
           /\ Sending(j, w)' => Sending(j, w)
           /\ InChannel(j, w)' => InChannel(j, w)
           /\ OnWire(j, w)' => OnWire(j, w)
           /\ Queued(j, w)' => Queued(j, w)
           /\ Executing(j, w)' => Executing(j, w)
      /\ \A r \in Completion : Claimed(r)' => Claimed(r)
  BY <1>1, <1>3 DEF PlacesAgree, HeldInOnePlace, Sending, InChannel, OnWire, Queued, Executing,
                    Claimed, workerVars
<1> QED BY <1>1, <1>2, <1>3, <1>4, FewerPlaces
(* An assignment arrives: it moves from the wire to its peer's queue, or is  *)
(* refused.                                                                  *)
LEMMA ArrivalAgrees ==
  ASSUME TypeOK, PlacesAgree, NEW m \in Assignment, RecvAssign(m)
  PROVE  PlacesAgree'
<1> USE DEF TypeOK
<1>1. /\ UNCHANGED <<status, owner, submit, runs, result, assignCh, tasks, reports, localVars,
                     running, results>>
      /\ m \in wire /\ wire' = wire \ {m}
      /\ queue' = queue \/ queue' = [queue EXCEPT ![m.peer] = Append(@, m.job)]
  BY DEF RecvAssign, masterVars, dbVars, apiVars, p2pVars, histVars, schedVars
<1>2. PICK k \in Job, v \in Worker : m = [job |-> k, peer |-> v]
  BY DEF Assignment
<1>3. OnWire(k, v) /\ ~Queued(k, v) /\ ~InChannel(k, v) /\ ~Sending(k, v)
  BY <1>1, <1>2 DEF OnWire, PlacesAgree, HeldInOnePlace
<1>4. OwnedOnceAssigned' /\ ReportsAreTrue'
  BY <1>1 DEF PlacesAgree, OwnedOnceAssigned, ReportsAreTrue, Claimed
<1>5. \A w \in Worker : w # v => queue'[w] = queue[w]
  BY <1>1, <1>2 DEF WorkerTypeOK
<1>6. queue[v] \in Seq(Job) /\ (queue'[v] = queue[v] \/ queue'[v] = Append(queue[v], k))
  BY <1>1, <1>2 DEF WorkerTypeOK
<1>7. Distinct(queue'[v])
  BY <1>3, <1>6, DistinctAppend DEF PlacesAgree, HeldInOnePlace, Queued
<1>8. \A j \in Job : InSeq(j, queue'[v]) => InSeq(j, queue[v]) \/ j = k
  BY <1>6, InAppend
<1>9. \A j \in Job, w \in Worker :
        /\ InChannel(j, w)' <=> InChannel(j, w)
        /\ OnWire(j, w)' <=> OnWire(j, w) /\ ~(j = k /\ w = v)
        /\ Queued(j, w)' => Queued(j, w) \/ (j = k /\ w = v)
        /\ Executing(j, w)' <=> Executing(j, w)
        /\ Sending(j, w)' <=> Sending(j, w)
  BY <1>1, <1>2, <1>5, <1>8 DEF InChannel, OnWire, Queued, Executing, Sending, localVars
<1>10. HeldByOwner'
  BY <1>1, <1>3, <1>9 DEF PlacesAgree, HeldByOwner, Held
<1>11. HeldInOnePlace'
  BY <1>1, <1>3, <1>5, <1>7, <1>9 DEF PlacesAgree, HeldInOnePlace
<1>12. StartedByOwner'
  BY <1>1, <1>9 DEF PlacesAgree, StartedByOwner
<1> QED BY <1>4, <1>10, <1>11, <1>12 DEF PlacesAgree

(* A job that starts was queued at its owner only, and had not started. *)
LEMMA StartAgrees ==
  ASSUME TypeOK, PlacesAgree, NEW v \in Worker, StartJob(v)
  PROVE  PlacesAgree'
<1> USE DEF TypeOK
<1>0. PICK k \in Job : k = Head(queue[v])
  BY InHead DEF StartJob, WorkerTypeOK
<1>1. /\ UNCHANGED <<status, owner, submit, result, assignCh, tasks, netVars, localVars, results>>
      /\ running' = [running EXCEPT ![v] = k] /\ queue' = [queue EXCEPT ![v] = Tail(@)]
      /\ runs' = [runs EXCEPT ![k] = @ + 1]
      /\ queue[v] # <<>> /\ queue[v] \in Seq(Job)
  BY <1>0 DEF StartJob, masterVars, dbVars, apiVars, p2pVars, schedVars, WorkerTypeOK
<1>2. Queued(k, v)
  BY <1>0, <1>1, InHead DEF Queued
<1>3. /\ owner[k] = v /\ runs[k] = 0 /\ result[k] = "none" /\ v # NoPeer
      /\ ~Sending(k, v) /\ ~InChannel(k, v) /\ ~OnWire(k, v)
      /\ \A w \in Worker : w # v => ~Held(k, w)
      /\ \A w \in Worker : ~Executing(k, w)
  BY <1>2, SchedulerAssumption
     DEF PlacesAgree, HeldByOwner, HeldInOnePlace, StartedByOwner, Held
<1>4. Distinct(queue'[v]) /\ \A j : InSeq(j, queue'[v]) => InSeq(j, queue[v]) /\ j # k
  <2>1. queue'[v] = Tail(queue[v])
    BY <1>1 DEF WorkerTypeOK
  <2>2. Distinct(queue[v])
    BY DEF PlacesAgree, HeldInOnePlace
  <2> QED BY <1>0, <1>1, <2>1, <2>2, DistinctTail, InTail
<1>5. \A w \in Worker : w # v => queue'[w] = queue[w] /\ running'[w] = running[w]
  BY <1>1 DEF WorkerTypeOK
<1>6. running'[v] = k /\ runs'[k] = 1 /\ \A j \in Job : j # k => runs'[j] = runs[j]
  BY <1>1, <1>2, <1>3 DEF WorkerTypeOK, HistTypeOK
<1>7. \A j \in Job, w \in Worker :
        /\ InChannel(j, w)' <=> InChannel(j, w)
        /\ OnWire(j, w)' <=> OnWire(j, w)
        /\ Queued(j, w)' => Queued(j, w) /\ ~(j = k /\ w = v)
        /\ Executing(j, w)' => Executing(j, w) \/ (j = k /\ w = v)
        /\ Sending(j, w)' <=> Sending(j, w)
  BY <1>1, <1>4, <1>5, <1>6
     DEF InChannel, OnWire, Queued, Executing, Sending, localVars, netVars
<1>8. OwnedOnceAssigned' /\ ReportsAreTrue'
  BY <1>1 DEF PlacesAgree, OwnedOnceAssigned, ReportsAreTrue, Claimed, netVars
<1>9. HeldByOwner'
  <2>1. \A w \in Worker : ~Held(k, w)'
    BY <1>2, <1>3, <1>7 DEF Held
  <2>2. \A j \in Job, w \in Worker : Held(j, w)' => Held(j, w)
    BY <1>7 DEF Held
  <2> QED BY <1>1, <1>6, <2>1, <2>2 DEF PlacesAgree, HeldByOwner
<1>10. HeldInOnePlace'
  BY <1>1, <1>4, <1>5, <1>7 DEF PlacesAgree, HeldInOnePlace
<1>11. StartedByOwner'
  BY <1>1, <1>3, <1>6, <1>7 DEF PlacesAgree, StartedByOwner
<1> QED BY <1>8, <1>9, <1>10, <1>11 DEF PlacesAgree

(* A job that ends had no result, and its result is the one that is sent. *)
LEMMA FinishAgrees ==
  ASSUME TypeOK, PlacesAgree, NEW v \in Worker, NEW ok \in BOOLEAN, FinishJob(v, ok)
  PROVE  PlacesAgree'
<1> USE DEF TypeOK
<1> DEFINE k == running[v]
           e == IF ok THEN "completed" ELSE "failed"
           q == [job |-> k, ok |-> ok]
<1>1. /\ UNCHANGED <<status, owner, submit, runs, assignCh, tasks, netVars, localVars, queue>>
      /\ running' = [running EXCEPT ![v] = NoJob]
      /\ results' = [results EXCEPT ![v] = Append(@, q)]
      /\ result' = [result EXCEPT ![k] = e]
      /\ k \in Job /\ q \in Completion /\ results[v] \in Seq(Completion)
  BY DEF FinishJob, masterVars, dbVars, apiVars, p2pVars, schedVars, WorkerTypeOK, Completion
<1>2. owner[k] = v /\ runs[k] = 1 /\ result[k] = "none"
  BY <1>1 DEF PlacesAgree, StartedByOwner, Executing
<1>3. result'[k] = e /\ \A j \in Job : j # k => result'[j] = result[j]
  BY <1>1 DEF HistTypeOK
<1>4. running'[v] = NoJob /\ \A w \in Worker : w # v => running'[w] = running[w]
  BY <1>1 DEF WorkerTypeOK
<1>5. \A j \in Job, w \in Worker :
        /\ Executing(j, w)' => Executing(j, w) /\ w # v
        /\ Held(j, w)' <=> Held(j, w)
  BY <1>1, <1>4, SchedulerAssumption
     DEF Held, InChannel, OnWire, Queued, Executing, Sending, localVars, netVars
<1>6. OwnedOnceAssigned' /\ HeldByOwner'
  BY <1>1, <1>5 DEF PlacesAgree, OwnedOnceAssigned, HeldByOwner
<1>7. HeldInOnePlace'
  BY <1>1 DEF PlacesAgree, HeldInOnePlace, Sending, InChannel, OnWire, Queued, localVars, netVars
<1>8. StartedByOwner'
  BY <1>1, <1>2, <1>3, <1>5 DEF PlacesAgree, StartedByOwner
<1>9. ReportsAreTrue'
  <2>1. ASSUME NEW r \in Completion, Claimed(r)' PROVE Claimed(r) \/ r = q
    <3>1. \A w \in Worker : InSeq(r, results'[w]) => InSeq(r, results[w]) \/ r = q
      <4>1. \A w \in Worker : w # v => results'[w] = results[w]
        BY <1>1 DEF WorkerTypeOK
      <4>2. results'[v] = Append(results[v], q)
        BY <1>1 DEF WorkerTypeOK
      <4>3. InSeq(r, results'[v]) => InSeq(r, results[v]) \/ r = q
        BY <1>1, <4>2, InAppend
      <4> QED BY <4>1, <4>3
    <3> QED BY <1>1, <2>1, <3>1 DEF Claimed, netVars
  <2>2. ASSUME NEW r \in Completion, Claimed(r) PROVE r.job # k
    <3>1. result[r.job] # "none"
      BY <2>2 DEF PlacesAgree, ReportsAreTrue
    <3> QED BY <1>2, <3>1
  <2>3. ASSUME NEW r \in Completion, Claimed(r)'
        PROVE  result'[r.job] = IF r.ok THEN "completed" ELSE "failed"
    <3>1. CASE Claimed(r)
      BY <1>3, <2>2, <3>1 DEF PlacesAgree, ReportsAreTrue, Completion
    <3>2. CASE r = q
      BY <1>3, <3>2
    <3> QED BY <2>1, <2>3, <3>1, <3>2
  <2> QED BY <2>3 DEF ReportsAreTrue
<1> QED BY <1>6, <1>7, <1>8, <1>9 DEF PlacesAgree
(* The other steps of the workers and the network only forward or lose. *)
LEMMA WorkerAgrees ==
  ASSUME TypeOK, PlacesAgree, WorkerStep
  PROVE  PlacesAgree'
<1> USE DEF TypeOK
<1>1. ASSUME NEW w \in Worker, SendReport(w) PROVE PlacesAgree'
  <2>1. /\ UNCHANGED <<status, owner, submit, runs, result, localVars, assignCh, tasks, wire,
                       queue, running>>
        /\ results[w] # <<>> /\ results[w] \in Seq(Completion)
        /\ reports' = reports \cup {Head(results[w])}
    BY <1>1 DEF SendReport, masterVars, dbVars, apiVars, p2pVars, schedVars, histVars,
                WorkerTypeOK
  <2>2. /\ results'[w] = Tail(results[w])
        /\ \A v \in Worker : v # w => results'[v] = results[v]
    BY <1>1 DEF SendReport, WorkerTypeOK
  <2>3. InSeq(Head(results[w]), results[w])
        /\ \A r : InSeq(r, results'[w]) => InSeq(r, results[w])
    BY <2>1, <2>2, InHead, InTail
  <2>4. \A r \in Completion : Claimed(r)' => Claimed(r)
    BY <2>1, <2>2, <2>3 DEF Claimed
  <2>5. OwnedOnceAssigned' /\ Distinct(assignCh)' /\ \A v \in Worker : Distinct(queue[v])'
    BY <2>1 DEF PlacesAgree, OwnedOnceAssigned, HeldInOnePlace
  <2>6. \A j \in Job, v \in Worker :
          /\ Sending(j, v)' => Sending(j, v)
          /\ InChannel(j, v)' => InChannel(j, v)
          /\ OnWire(j, v)' => OnWire(j, v)
          /\ Queued(j, v)' => Queued(j, v)
          /\ Executing(j, v)' => Executing(j, v)
    BY <2>1 DEF Sending, InChannel, OnWire, Queued, Executing, localVars
  <2> QED BY <2>1, <2>4, <2>5, <2>6, FewerPlaces
<1>2. ASSUME NEW w \in Worker, WorkerRestart(w) PROVE PlacesAgree'
  <2>1. UNCHANGED <<status, owner, submit, runs, result, localVars, assignCh, tasks, netVars>>
    BY <1>2 DEF WorkerRestart, masterVars, dbVars, apiVars, p2pVars, schedVars, histVars
  <2>2. /\ queue'[w] = <<>> /\ results'[w] = <<>> /\ running'[w] = NoJob
        /\ \A v \in Worker : v # w => /\ queue'[v] = queue[v] /\ results'[v] = results[v]
                                      /\ running'[v] = running[v]
    BY <1>2 DEF WorkerRestart, WorkerTypeOK
  <2>3. Distinct(<<>>) /\ \A x : ~InSeq(x, <<>>)
    BY DEF Distinct, InSeq
  <2>4. OwnedOnceAssigned' /\ Distinct(assignCh)' /\ \A v \in Worker : Distinct(queue'[v])
    BY <2>1, <2>2, <2>3 DEF PlacesAgree, OwnedOnceAssigned, HeldInOnePlace
  <2>5. \A j \in Job, v \in Worker :
          /\ Sending(j, v)' => Sending(j, v)
          /\ InChannel(j, v)' => InChannel(j, v)
          /\ OnWire(j, v)' => OnWire(j, v)
          /\ Queued(j, v)' => Queued(j, v)
          /\ Executing(j, v)' => Executing(j, v)
    BY <2>1, <2>2, <2>3, SchedulerAssumption
       DEF Sending, InChannel, OnWire, Queued, Executing, localVars, netVars
  <2>6. \A r \in Completion : Claimed(r)' => Claimed(r)
    BY <2>1, <2>2, <2>3 DEF Claimed, netVars
  <2> QED BY <2>1, <2>4, <2>5, <2>6, FewerPlaces
<1>3. CASE (\E m \in Assignment : LoseAssign(m)) \/ (\E r \in Completion : LoseReport(r))
  <2>1. /\ UNCHANGED <<status, owner, submit, runs, result, localVars, assignCh, tasks, workerVars>>
        /\ wire' \subseteq wire /\ reports' \subseteq reports
    BY <1>3 DEF LoseAssign, LoseReport, masterVars, dbVars, apiVars, p2pVars, schedVars, histVars
  <2>2. /\ OwnedOnceAssigned' /\ Distinct(assignCh)' /\ \A v \in Worker : Distinct(queue[v])'
        /\ \A j \in Job, v \in Worker :
             /\ Sending(j, v)' => Sending(j, v)
             /\ InChannel(j, v)' => InChannel(j, v)
             /\ OnWire(j, v)' => OnWire(j, v)
             /\ Queued(j, v)' => Queued(j, v)
             /\ Executing(j, v)' => Executing(j, v)
        /\ \A q \in Completion : Claimed(q)' => Claimed(q)
    BY <2>1 DEF PlacesAgree, OwnedOnceAssigned, HeldInOnePlace, Sending, InChannel, OnWire,
                Queued, Executing, Claimed, localVars, workerVars
  <2> QED BY <2>1, <2>2, FewerPlaces
<1> QED BY <1>1, <1>2, <1>3, ArrivalAgrees, StartAgrees, FinishAgrees DEF WorkerStep, ExecutorStep
(* In every reachable state an assignment is in one place only, on its way   *)
(* to the owner, only until the job starts, and what is reported is how the  *)
(* execution ended: whatever is cancelled, lost or restarted in between.     *)
THEOREM PlacesAlwaysAgree == Spec => []PlacesAgree
<1>1. Init => PlacesAgree
  BY InitAgrees
<1>2. TypeOK /\ PlacesAgree /\ [Next]_vars => PlacesAgree'
  <2>1. CASE PlacesAgree /\ UNCHANGED vars
    <3>1. OwnedOnceAssigned'
      BY <2>1 DEF PlacesAgree, OwnedOnceAssigned, vars, dbVars, apiVars
    <3> QED BY <2>1, <3>1, NothingMoves DEF vars, dbVars, histVars, p2pVars, localVars
  <2>2. CASE TypeOK /\ PlacesAgree /\ Next
    BY <2>2, Steps, ApiAgrees, SchedulerAgrees, P2PAgrees, RestartAgrees, WorkerAgrees
  <2> QED BY <2>1, <2>2
<1> QED BY <1>1, <1>2, Typing, PTL DEF Spec

(* No job's code is started twice: StartJob finds a job that has not run.    *)
THEOREM StartedOnce == Spec => []RunAtMostOnce
<1>1. PlacesAgree => RunAtMostOnce
  <2>1. PlacesAgree => \A j \in Job : runs[j] \in {0, 1}
    BY DEF PlacesAgree, StartedByOwner
  <2>2. \A n \in {0, 1} : n <= 1
    OBVIOUS
  <2> QED BY <2>1, <2>2 DEF RunAtMostOnce
<1> QED BY <1>1, PlacesAlwaysAgree, PTL

(* Only the worker in jobs.worker_peer_id holds, or runs, a job.             *)
THEOREM HeldByItsOwner == Spec => []OnlyOwnerHolds
<1>1. PlacesAgree => OnlyOwnerHolds
  BY DEF PlacesAgree, HeldByOwner, StartedByOwner, OnlyOwnerHolds
<1> QED BY <1>1, PlacesAlwaysAgree, PTL

-----------------------------------------------------------------------------
(* Scheduler implements JobLifecycle *)

(* A step that touches none of the abstract variables is a stutter. *)
LEMMA ApiRefines ==
  ASSUME TypeOK, PlacesAgree, NEW j \in Job,
         InsertRow(j) \/ SubmitStep(j) \/ Age(j) \/ CancelRead(j) \/ CancelWrite(j)
  PROVE  Lifecycle!Submit(j) \/ Lifecycle!Cancel(j) \/ UNCHANGED <<status, owner, runs, result>>
<1>1. CASE InsertRow(j)
  BY <1>1 DEF InsertRow, PlacesAgree, OwnedOnceAssigned, Lifecycle!Submit, histVars
<1>2. CASE SubmitStep(j)
  BY <1>2 DEF SubmitStep, SaveFiles, BuildImage, Enqueue, dbVars, histVars
<1>3. CASE Age(j) \/ CancelRead(j)
  BY <1>3 DEF Age, CancelRead, dbVars, histVars
<1>4. CASE CancelWrite(j)
  BY <1>4 DEF CancelWrite, InStatus, Cancellable, TypeOK, ApiTypeOK, Lifecycle!Cancel, histVars
<1> QED BY <1>1, <1>2, <1>3, <1>4

(* The scheduler changes a job only by assigning it, once. *)
LEMMA SchedulerRefines ==
  ASSUME TypeOK, PlacesAgree, SchedulerStep
  PROVE  \/ \E j \in Job, w \in Worker : Lifecycle!Assign(j, w)
         \/ UNCHANGED <<status, owner, runs, result>>
<1>1. CASE CasAssign
  <2>1. cur \in Job /\ pick \in Worker /\ UNCHANGED histVars
    BY <1>1 DEF CasAssign, TypeOK, LocalsTypeOK
  <2>2. CASE /\ CanAssign(cur, pick)
             /\ status' = [status EXCEPT ![cur] = "assigned"]
             /\ owner' = [owner EXCEPT ![cur] = pick]
    <3>1. status[cur] = "pending" /\ owner[cur] = NoPeer
      BY <2>1, <2>2 DEF CanAssign, InStatus, PlacesAgree, OwnedOnceAssigned
    <3>2. Lifecycle!Assign(cur, pick)
      BY <2>1, <2>2, <3>1 DEF Lifecycle!Assign, histVars
    <3> QED BY <2>1, <3>2
  <2>3. CASE UNCHANGED <<status, owner>>
    BY <2>1, <2>3 DEF histVars
  <2> QED BY <1>1, <2>2, <2>3 DEF CasAssign
<1>2. CASE RecvOffline
  <2>1. status' = status
    BY <1>2 DEF RecvOffline, Stranded, NilHirerJobs, TypeOK, DbTypeOK
  <2> QED BY <1>2, <2>1 DEF RecvOffline, histVars
<1>3. CASE ~CasAssign /\ ~RecvOffline
  BY <1>3 DEF SchedulerStep, RecvEnqueue, RecvOnline, RecvHeartbeat, RetryTick, ScanRow, ScanError,
              BuildAssignment, SendAssign, dbVars, histVars
<1> QED BY <1>1, <1>2, <1>3

(* The P2P loop and its tasks change a job only to the result it had. *)
LEMMA P2PRefines ==
  ASSUME TypeOK, PlacesAgree, P2PStep
  PROVE  (\E j \in Job : Lifecycle!Report(j)) \/ UNCHANGED <<status, owner, runs, result>>
<1>1. ASSUME NEW r \in Completion, CompleteJob(r)
      PROVE  Lifecycle!Report(r.job) \/ UNCHANGED <<status, owner, runs, result>>
  <2>1. Claimed(r) /\ UNCHANGED <<owner, runs, result>>
    BY <1>1 DEF CompleteJob, Claimed, histVars
  <2>2. result[r.job] = IF r.ok THEN "completed" ELSE "failed"
    BY <2>1 DEF PlacesAgree, ReportsAreTrue
  <2> QED BY <1>1, <2>1, <2>2 DEF CompleteJob, InStatus, Lifecycle!Report, Lifecycle!Outcome
<1>2. ASSUME NEW w \in Worker,
             RegisterUpsert(w) \/ RegisterReply(w) \/ ConnectionClosed(w) \/ Heartbeat(w)
      PROVE  UNCHANGED <<status, owner, runs, result>>
  BY <1>2 DEF RegisterUpsert, RegisterReply, ConnectionClosed, Heartbeat, dbVars, histVars
<1>3. CASE AnnounceOnline \/ SendRequest
  BY <1>3 DEF AnnounceOnline, SendRequest, dbVars, histVars
<1>4. ASSUME NEW r \in Completion, RecvReport(r)
      PROVE  UNCHANGED <<status, owner, runs, result>>
  BY <1>4 DEF RecvReport, dbVars, histVars
<1>5. \A r \in Completion : r.job \in Job
  BY DEF Completion
<1> QED BY <1>1, <1>2, <1>3, <1>4, <1>5 DEF P2PStep

(* A worker starts a job of its own once, and ends it once. *)
LEMMA WorkerRefines ==
  ASSUME TypeOK, PlacesAgree, WorkerStep
  PROVE  \/ \E j \in Job : Lifecycle!Start(j) \/ \E o \in Lifecycle!Outcome : Lifecycle!Finish(j, o)
         \/ UNCHANGED <<status, owner, runs, result>>
<1> USE DEF masterVars, dbVars
<1>1. ASSUME NEW w \in Worker, StartJob(w)
      PROVE  \E j \in Job : Lifecycle!Start(j)
  <2>1. PICK j \in Job : j = Head(queue[w]) /\ Queued(j, w)
    BY <1>1, InHead DEF StartJob, TypeOK, WorkerTypeOK, Queued
  <2>2. owner[j] # NoPeer /\ runs[j] = 0
    BY <2>1, SchedulerAssumption DEF PlacesAgree, HeldByOwner, Held
  <2>3. runs' = [runs EXCEPT ![j] = 1] /\ UNCHANGED <<status, owner, result>>
    BY <1>1, <2>1, <2>2 DEF StartJob, TypeOK, HistTypeOK
  <2> QED BY <2>2, <2>3 DEF Lifecycle!Start
<1>2. ASSUME NEW w \in Worker, NEW ok \in BOOLEAN, FinishJob(w, ok)
      PROVE  \E j \in Job : \E o \in Lifecycle!Outcome : Lifecycle!Finish(j, o)
  <2>1. PICK j \in Job : j = running[w]
    BY <1>2 DEF FinishJob, TypeOK, WorkerTypeOK
  <2>2. runs[j] = 1 /\ result[j] = "none"
    BY <2>1 DEF PlacesAgree, StartedByOwner, Executing
  <2>3. PICK o \in {"completed", "failed"} : result' = [result EXCEPT ![j] = o]
    BY <1>2, <2>1 DEF FinishJob
  <2>4. UNCHANGED <<status, owner, runs>>
    BY <1>2 DEF FinishJob
  <2> QED BY <2>2, <2>3, <2>4 DEF Lifecycle!Finish, Lifecycle!Outcome
<1>3. ASSUME NEW w \in Worker, SendReport(w) \/ WorkerRestart(w)
      PROVE  UNCHANGED <<status, owner, runs, result>>
  BY <1>3 DEF SendReport, WorkerRestart, histVars
<1>4. ASSUME NEW m \in Assignment, RecvAssign(m) \/ LoseAssign(m)
      PROVE  UNCHANGED <<status, owner, runs, result>>
  BY <1>4 DEF RecvAssign, LoseAssign, histVars
<1>5. ASSUME NEW r \in Completion, LoseReport(r)
      PROVE  UNCHANGED <<status, owner, runs, result>>
  BY <1>5 DEF LoseReport, histVars
<1> QED BY <1>1, <1>2, <1>3, <1>4, <1>5 DEF WorkerStep, ExecutorStep

(* The platform keeps the promise of JobLifecycle: every behaviour of the    *)
(* handlers, the scheduler, the P2P loop and the workers, with their faults, *)
(* is one where a job goes to one worker, runs once, and ends as it ran.     *)
THEOREM RefinesLifecycle == Spec => ImplementsLifecycle
<1>1. Init => Lifecycle!Init
  BY DEF Init, Lifecycle!Init
<1>2. TypeOK /\ PlacesAgree /\ [Next]_vars => [Lifecycle!Next]_(Lifecycle!vars)
  <2>1. CASE UNCHANGED vars
    BY <2>1 DEF vars, dbVars, histVars, Lifecycle!vars
  <2>2. CASE TypeOK /\ PlacesAgree /\ Next
    <3>1. CASE MasterRestart
      BY <3>1 DEF MasterRestart, dbVars, histVars, Lifecycle!vars
    <3> QED BY <2>2, <3>1, Steps, ApiRefines, SchedulerRefines, P2PRefines, WorkerRefines
            DEF Lifecycle!Next, Lifecycle!vars
  <2> QED BY <2>1, <2>2
<1> QED BY <1>1, <1>2, Typing, PlacesAlwaysAgree, PTL DEF Spec, ImplementsLifecycle, Lifecycle!Spec

-----------------------------------------------------------------------------
(* What the scheduler remembers *)

(* A fault is counted. *)
LEMMA FaultCounts ==
  ASSUME TypeOK, NEW k, Fault(k)
  PROVE  faults' # 0
BY DEF TypeOK, HistTypeOK, Fault

LEMMA FaultsGrow ==
  ASSUME TypeOK, Next, faults' = 0
  PROVE  faults = 0
<1>1. UNCHANGED faults \/ \E k : Fault(k)
  <2>1. ASSUME NEW j \in Job,
               InsertRow(j) \/ SubmitStep(j) \/ Age(j) \/ CancelRead(j) \/ CancelWrite(j)
        PROVE  <1>1!:
    BY <2>1 DEF InsertRow, SubmitStep, SaveFiles, BuildImage, Enqueue, Age, CancelRead, CancelWrite,
                boundVars
  <2>2. CASE SchedulerStep
    BY <2>2 DEF SchedulerStep, RecvEnqueue, RecvOnline, RecvHeartbeat, RecvOffline, RetryTick,
                ScanRow, ScanError, CasAssign, BuildAssignment, SendAssign, boundVars
  <2>3. CASE P2PStep
    BY <2>3 DEF P2PStep, RegisterUpsert, RegisterReply, ConnectionClosed, Heartbeat, Emit,
                AnnounceOnline, SendRequest, RecvReport, CompleteJob, boundVars
  <2>4. CASE WorkerStep
    BY <2>4 DEF WorkerStep, ExecutorStep, StartJob, FinishJob, SendReport, WorkerRestart, RecvAssign,
                LoseAssign, LoseReport, boundVars
  <2>5. CASE MasterRestart
    BY <2>5 DEF MasterRestart
  <2> QED BY <2>1, <2>2, <2>3, <2>4, <2>5, Steps
<1> QED BY <1>1, FaultCounts

LEMMA KnownKeeps ==
  ASSUME TypeOK, PendingIsKnown, Next
  PROVE  PendingIsKnown'
<1> SUFFICES ASSUME faults' = 0, NEW j \in Job, status'[j] = "pending", submit'[j] = "done"
             PROVE  j \in waiting' \/ InSeq(j, cmds')
  BY DEF PendingIsKnown, KnownToScheduler
<1> USE DEF TypeOK
<1>1. faults = 0 => KnownToScheduler(j)
  BY DEF PendingIsKnown
<1>2. CASE /\ UNCHANGED <<waiting, cmds, faults>>
           /\ status'[j] = "pending" => status[j] = "pending"
           /\ submit'[j] = "done" => submit[j] = "done"
  BY <1>1, <1>2 DEF KnownToScheduler
<1>3. ASSUME NEW i \in Job,
             InsertRow(i) \/ SubmitStep(i) \/ Age(i) \/ CancelRead(i) \/ CancelWrite(i)
      PROVE  j \in waiting' \/ InSeq(j, cmds')
  <2>1. CASE InsertRow(i)
    BY <1>2, <2>1 DEF InsertRow, ApiTypeOK, DbTypeOK, pendVars, boundVars
  <2>2. CASE SaveFiles(i) \/ BuildImage(i)
    <3>1. ~Fault("fs")
      BY FaultCounts
    <3>2. UNCHANGED <<status, waiting, cmds, faults>> /\ (submit'[j] = "done" => submit[j] = "done")
      BY <2>2, <3>1 DEF SaveFiles, BuildImage, ApiTypeOK, dbVars, pendVars, boundVars
    <3> QED BY <1>2, <3>2
  <2>3. CASE Enqueue(i)
    <3>1. /\ cmds' = Append(cmds, i) /\ cmds \in Seq(Job)
          /\ UNCHANGED <<status, waiting, faults>> /\ submit' = [submit EXCEPT ![i] = "done"]
      BY <2>3 DEF Enqueue, SchedTypeOK, dbVars, pendVars, boundVars
    <3>2. InSeq(j, cmds') <=> InSeq(j, cmds) \/ j = i
      BY <3>1, InAppend
    <3> QED BY <1>1, <3>1, <3>2 DEF KnownToScheduler, ApiTypeOK
  <2>4. CASE Age(i) \/ CancelRead(i) \/ CancelWrite(i)
    <3>1. /\ UNCHANGED <<waiting, cmds, faults, submit>>
          /\ status' = status \/ status' = [status EXCEPT ![i] = "cancelled"]
      BY <2>4 DEF Age, CancelRead, CancelWrite, apiVars, dbVars, pendVars, boundVars
    <3> QED BY <1>2, <3>1 DEF DbTypeOK
  <2> QED BY <1>3, <2>1, <2>2, <2>3, <2>4 DEF SubmitStep
<1>4. CASE SchedulerStep
  <2>0. ~Fault("db")
    BY FaultCounts
  <2>1. CASE RecvEnqueue
    <3>1. /\ cmds \in Seq(Job) /\ cmds # <<>> /\ cmds' = Tail(cmds)
          /\ waiting' = waiting \cup {Head(cmds)} /\ UNCHANGED <<status, submit, faults>>
      BY <2>1 DEF RecvEnqueue, SchedTypeOK, dbVars, apiVars, boundVars
    <3>2. InSeq(j, cmds) => j = Head(cmds) \/ InSeq(j, Tail(cmds))
      BY <3>1, InHeadOrTail
    <3> QED BY <1>1, <3>1, <3>2 DEF KnownToScheduler
  <2>2. CASE RecvOnline \/ RecvHeartbeat \/ RetryTick \/ BuildAssignment \/ CasAssign
    <3>1. /\ UNCHANGED <<waiting, cmds, submit, faults>>
          /\ status' = status \/ status' = [status EXCEPT ![cur] = "assigned"]
      BY <2>0, <2>2 DEF RecvOnline, RecvHeartbeat, RetryTick, BuildAssignment, CasAssign, dbVars,
                        apiVars, pendVars, boundVars
    <3> QED BY <1>2, <3>1 DEF DbTypeOK
  <2>3. CASE RecvOffline
    <3>1. UNCHANGED <<waiting, cmds, submit, faults, status>>
      BY <2>3 DEF RecvOffline, Stranded, NilHirerJobs, apiVars, boundVars, DbTypeOK
    <3> QED BY <1>2, <3>1
  <2>4. CASE ScanRow
    <3>1. UNCHANGED <<cmds, submit, faults, status>>
      BY <2>4 DEF ScanRow, dbVars, apiVars, boundVars
    <3>2. j \in waiting => j \in waiting'
      BY <2>4, <3>1 DEF ScanRow, Forget, pendVars
    <3> QED BY <1>1, <3>1, <3>2 DEF KnownToScheduler
  <2>5. CASE ScanError
    BY <2>0, <2>5 DEF ScanError
  <2>6. CASE SendAssign
    <3>1. UNCHANGED <<cmds, submit, faults, status>> /\ waiting' = waiting \cup {cur}
      BY <2>6 DEF SendAssign, dbVars, apiVars, boundVars
    <3> QED BY <1>1, <3>1 DEF KnownToScheduler
  <2> QED BY <1>4, <2>1, <2>2, <2>3, <2>4, <2>5, <2>6 DEF SchedulerStep
<1>5. CASE P2PStep
  <2>1. ASSUME NEW r \in Completion, CompleteJob(r) PROVE j \in waiting' \/ InSeq(j, cmds')
    <3>1. ~Fault("db")
      BY FaultCounts
    <3>2. UNCHANGED <<waiting, cmds, submit, faults>>
      BY <2>1, <3>1 DEF CompleteJob, schedVars, pendVars, apiVars, boundVars
    <3>3. status'[j] = "pending" => status[j] = "pending"
      BY <2>1 DEF CompleteJob, DbTypeOK
    <3> QED BY <1>2, <3>2, <3>3
  <2>2. CASE ~\E r \in Completion : CompleteJob(r)
    <3>0. ~Fault("db")
      BY FaultCounts
    <3>1. UNCHANGED <<waiting, cmds, submit, faults, status>>
      BY <1>5, <2>2, <3>0 DEF P2PStep, RegisterUpsert, RegisterReply, ConnectionClosed, Heartbeat, Emit,
            AnnounceOnline, SendRequest, RecvReport, schedVars, pendVars, dbVars, apiVars, boundVars
    <3> QED BY <1>2, <3>1
  <2> QED BY <2>1, <2>2
<1>6. CASE MasterRestart
  BY <1>6, FaultCounts DEF MasterRestart
<1>7. CASE WorkerStep
  <2>1. UNCHANGED <<waiting, cmds, submit, status>> /\ (faults' = faults \/ \E k : Fault(k))
    BY <1>7 DEF WorkerStep, ExecutorStep, StartJob, FinishJob, SendReport, WorkerRestart, RecvAssign,
                LoseAssign, LoseReport, masterVars, schedVars, pendVars, dbVars, apiVars, boundVars
  <2> QED BY <1>2, <2>1, FaultCounts
<1> QED BY <1>3, <1>4, <1>5, <1>6, <1>7, Steps

(* While nothing has failed, a pending job that was enqueued is in           *)
(* self.pending or still in the command channel.                             *)
THEOREM PendingStaysKnown == Spec => []PendingIsKnown
<1>1. Init => PendingIsKnown
  BY DEF Init, PendingIsKnown, KnownToScheduler
<1>2. TypeOK /\ PendingIsKnown /\ [Next]_vars => PendingIsKnown'
  <2>1. UNCHANGED vars /\ PendingIsKnown => PendingIsKnown'
    BY DEF vars, pendVars, dbVars, apiVars, boundVars, PendingIsKnown, KnownToScheduler, InSeq
  <2> QED BY <2>1, KnownKeeps
<1> QED BY <1>1, <1>2, Typing, PTL DEF Spec

-----------------------------------------------------------------------------
(* Assignments on their way *)

InFlight(j) == \/ Reported(j)
               \/ \E w \in Worker : Held(j, w) \/ Executing(j, w) \/ ResultHeld(j, w)

(* The handlers move no assignment. *)
LEMMA ApiFlight ==
  ASSUME TypeOK, NEW i \in Job,
         InsertRow(i) \/ SubmitStep(i) \/ Age(i) \/ CancelRead(i) \/ CancelWrite(i),
         NEW j \in Job, status[j] = "assigned" => InFlight(j)
  PROVE  status'[j] = "assigned" => InFlight(j)'
<1>1. UNCHANGED <<localVars, p2pVars, netVars, workerVars>>
  BY DEF InsertRow, SubmitStep, SaveFiles, BuildImage, Enqueue, Age, CancelRead, CancelWrite
<1>2. InFlight(j)' <=> InFlight(j)
  BY <1>1 DEF InFlight, Reported, Held, Sending, InChannel, OnWire, Queued, Executing, ResultHeld,
              localVars, p2pVars, netVars, workerVars
<1>3. \/ status' = status \/ status' = [status EXCEPT ![i] = "pending"]
      \/ status' = [status EXCEPT ![i] = "cancelled"]
  BY DEF InsertRow, SubmitStep, SaveFiles, BuildImage, Enqueue, Age, CancelRead, CancelWrite, dbVars
<1> QED BY <1>2, <1>3 DEF TypeOK, DbTypeOK

(* The scheduler sends every job it has assigned. *)
LEMMA SchedulerFlight ==
  ASSUME TypeOK, SchedulerStep, faults' = 0, NEW j \in Job, status[j] = "assigned" => InFlight(j)
  PROVE  status'[j] = "assigned" => InFlight(j)'
<1> USE DEF TypeOK
<1>1. ~Fault("db") /\ UNCHANGED <<reports, tasks, wire, queue, running, results>>
  BY FaultCounts DEF SchedulerStep, RecvEnqueue, RecvOnline, RecvHeartbeat, RecvOffline, RetryTick,
         ScanRow, ScanError, CasAssign, BuildAssignment, SendAssign, p2pVars, netVars, workerVars
<1>2. /\ Reported(j)' <=> Reported(j)
      /\ \A w \in Worker : /\ OnWire(j, w)' <=> OnWire(j, w)
                           /\ Queued(j, w)' <=> Queued(j, w)
                           /\ Executing(j, w)' <=> Executing(j, w)
                           /\ ResultHeld(j, w)' <=> ResultHeld(j, w)
  BY <1>1 DEF Reported, OnWire, Queued, Executing, ResultHeld
<1>3. CASE /\ UNCHANGED <<status, assignCh>>
           /\ \A w \in Worker : Sending(j, w) => Sending(j, w)'
  BY <1>2, <1>3 DEF InFlight, Held, InChannel
<1>4. CASE CasAssign
  <2>1. UNCHANGED assignCh /\ \A w \in Worker : ~Sending(j, w)
    BY <1>4 DEF CasAssign, Sending, p2pVars
  <2>2. CASE Resume(todo) /\ UNCHANGED status
    BY <1>3, <2>1, <2>2
  <2>3. CASE /\ status' = [status EXCEPT ![cur] = "assigned"] /\ pc' = "build"
             /\ UNCHANGED <<cur, pick>>
    <3>1. CASE j = cur
      <4>1. PICK w \in Worker : Sending(j, w)'
        BY <1>4, <2>3, <3>1 DEF CasAssign, LocalsTypeOK, Sending
      <4> QED BY <4>1 DEF InFlight, Held
    <3>2. CASE j # cur
      <4>1. status'[j] = status[j]
        BY <2>3, <3>2 DEF DbTypeOK
      <4> QED BY <1>2, <2>1, <4>1 DEF InFlight, Held, InChannel
    <3> QED BY <3>1, <3>2
  <2> QED BY <1>1, <1>4, <2>2, <2>3 DEF CasAssign
<1>5. CASE BuildAssignment
  <2>1. UNCHANGED <<status, assignCh, cur, pick>> /\ pc' = "send"
    BY <1>1, <1>5 DEF BuildAssignment, dbVars, p2pVars
  <2> QED BY <1>3, <2>1 DEF Sending
<1>6. CASE SendAssign
  <2>1. /\ assignCh \in Seq(Assignment) /\ cur \in Job /\ pick \in Worker /\ UNCHANGED status
        /\ [job |-> cur, peer |-> pick] \in Assignment
        /\ assignCh' = Append(assignCh, [job |-> cur, peer |-> pick])
    BY <1>6 DEF SendAssign, NetTypeOK, LocalsTypeOK, Assignment, dbVars
  <2>2. \A m : InSeq(m, assignCh') <=> InSeq(m, assignCh) \/ m = [job |-> cur, peer |-> pick]
    BY <2>1, InAppend
  <2>3. \A w \in Worker : Sending(j, w) \/ InChannel(j, w) => InChannel(j, w)'
    BY <2>2 DEF Sending, InChannel
  <2> QED BY <1>2, <2>1, <2>3 DEF InFlight, Held
<1>7. CASE RecvOffline
  <2>1. UNCHANGED <<status, assignCh, pc, cur, pick>>
    BY <1>7 DEF RecvOffline, Stranded, NilHirerJobs, DbTypeOK, localVars, p2pVars
  <2> QED BY <1>3, <2>1 DEF Sending
<1>8. CASE RecvEnqueue \/ RecvOnline \/ RecvHeartbeat \/ RetryTick \/ ScanRow \/ ScanError
  <2>1. UNCHANGED <<status, assignCh>> /\ pc \in {"idle", "scan"}
    BY <1>8 DEF RecvEnqueue, RecvOnline, RecvHeartbeat, RetryTick, ScanRow, ScanError, dbVars, p2pVars
  <2> QED BY <1>3, <2>1 DEF Sending
<1> QED BY <1>4, <1>5, <1>6, <1>7, <1>8 DEF SchedulerStep

(* The P2P loop puts it on the wire, and takes the result to its task. *)
LEMMA P2PFlight ==
  ASSUME TypeOK, P2PStep, faults' = 0, NEW j \in Job, status[j] = "assigned" => InFlight(j)
  PROVE  status'[j] = "assigned" => InFlight(j)'
<1> USE DEF TypeOK
<1>1. UNCHANGED <<pc, cur, pick, queue, running, results>>
  BY DEF P2PStep, RegisterUpsert, RegisterReply, ConnectionClosed, Heartbeat, AnnounceOnline,
         SendRequest, RecvReport, CompleteJob, schedVars, localVars, workerVars
<1>2. \A w \in Worker : /\ Sending(j, w)' <=> Sending(j, w)
                        /\ Queued(j, w)' <=> Queued(j, w)
                        /\ Executing(j, w)' <=> Executing(j, w)
                        /\ ResultHeld(j, w)' <=> ResultHeld(j, w)
  BY <1>1 DEF Sending, Queued, Executing, ResultHeld
<1>3. CASE SendRequest
  <2>1. /\ assignCh \in Seq(Assignment) /\ assignCh # <<>> /\ assignCh' = Tail(assignCh)
        /\ wire' = wire \cup {Head(assignCh)} /\ UNCHANGED <<status, reports, tasks>>
    BY <1>3 DEF SendRequest, NetTypeOK, dbVars
  <2>2. \A m : InSeq(m, assignCh) => m = Head(assignCh) \/ InSeq(m, assignCh')
    BY <2>1, InHeadOrTail
  <2>3. \A w \in Worker : InChannel(j, w) \/ OnWire(j, w) => InChannel(j, w)' \/ OnWire(j, w)'
    BY <2>1, <2>2 DEF InChannel, OnWire
  <2>4. Reported(j)' <=> Reported(j)
    BY <2>1 DEF Reported
  <2> QED BY <1>2, <2>1, <2>3, <2>4 DEF InFlight, Held
<1>4. CASE UNCHANGED <<assignCh, wire>> /\ (status'[j] = "assigned" => status[j] = "assigned" /\ (Reported(j) => Reported(j)'))
  <2>1. \A w \in Worker : (InChannel(j, w)' <=> InChannel(j, w)) /\ (OnWire(j, w)' <=> OnWire(j, w))
    BY <1>4 DEF InChannel, OnWire
  <2> QED BY <1>2, <1>4, <2>1 DEF InFlight, Held
<1>5. ASSUME NEW r \in Completion, RecvReport(r) PROVE status'[j] = "assigned" => InFlight(j)'
  <2>1. UNCHANGED <<assignCh, wire, status>> /\ reports' \cup tasks' = reports \cup tasks
    BY <1>5 DEF RecvReport, dbVars
  <2> QED BY <1>4, <2>1 DEF Reported
<1>6. ASSUME NEW r \in Completion, CompleteJob(r) PROVE status'[j] = "assigned" => InFlight(j)'
  <2>1. ~Fault("db")
    BY FaultCounts
  <2>2. /\ UNCHANGED <<assignCh, wire, reports>> /\ tasks' = tasks \ {r}
        /\ status' = IF status[r.job] = "assigned"
                     THEN [status EXCEPT ![r.job] = IF r.ok THEN "completed" ELSE "failed"] ELSE status
    BY <1>6, <2>1 DEF CompleteJob, InStatus, netVars
  <2>3. status'[j] = "assigned" => status[j] = "assigned" /\ r.job # j
    BY <2>2 DEF DbTypeOK
  <2>4. r.job # j => (Reported(j) => Reported(j)')
    BY <2>2 DEF Reported
  <2> QED BY <1>4, <2>2, <2>3, <2>4
<1>7. ASSUME NEW w \in Worker,
             RegisterUpsert(w) \/ RegisterReply(w) \/ ConnectionClosed(w) \/ Heartbeat(w)
      PROVE  status'[j] = "assigned" => InFlight(j)'
  <2>1. UNCHANGED <<assignCh, wire, status, reports, tasks>>
    BY <1>7 DEF RegisterUpsert, RegisterReply, ConnectionClosed, Heartbeat, dbVars, p2pVars, netVars
  <2> QED BY <1>4, <2>1 DEF Reported
<1>8. CASE AnnounceOnline
  <2>1. UNCHANGED <<assignCh, wire, status, reports, tasks>>
    BY <1>8 DEF AnnounceOnline, dbVars, netVars
  <2> QED BY <1>4, <2>1 DEF Reported
<1> QED BY <1>3, <1>5, <1>6, <1>7, <1>8 DEF P2PStep

(* A refusal is never taken back.                                            *)
LEMMA RefusedStay ==
  ASSUME Next
  PROVE  refused \subseteq refused'
<1>1. ASSUME NEW j \in Job,
             InsertRow(j) \/ SubmitStep(j) \/ Age(j) \/ CancelRead(j) \/ CancelWrite(j)
      PROVE  UNCHANGED refused
  BY <1>1 DEF InsertRow, SubmitStep, SaveFiles, BuildImage, Enqueue, Age, CancelRead, CancelWrite,
              histVars
<1>2. SchedulerStep => UNCHANGED refused
  BY DEF SchedulerStep, RecvEnqueue, RecvOnline, RecvHeartbeat, RecvOffline, RetryTick, ScanRow,
         ScanError, CasAssign, BuildAssignment, SendAssign, histVars
<1>3. P2PStep => UNCHANGED refused
  BY DEF P2PStep, RegisterUpsert, RegisterReply, ConnectionClosed, Heartbeat, AnnounceOnline,
         SendRequest, RecvReport, CompleteJob, histVars
<1>4. WorkerStep => refused \subseteq refused'
  BY DEF WorkerStep, ExecutorStep, StartJob, FinishJob, SendReport, WorkerRestart, RecvAssign,
         LoseAssign, LoseReport, histVars
<1>5. MasterRestart => UNCHANGED refused
  BY DEF MasterRestart, histVars
<1> QED BY <1>1, <1>2, <1>3, <1>4, <1>5, Steps

(* The worker queues it or refuses it, starts it, and sends what came of it. *)
LEMMA WorkerFlight ==
  ASSUME TypeOK, PlacesAgree, WorkerStep, faults' = 0,
         NEW j \in Job, j \notin refused', status[j] = "assigned" => InFlight(j)
  PROVE  status'[j] = "assigned" => InFlight(j)'
<1> USE DEF TypeOK
<1>1. UNCHANGED <<status, pc, cur, pick, assignCh, tasks>>
  BY DEF WorkerStep, ExecutorStep, StartJob, FinishJob, SendReport, WorkerRestart, RecvAssign,
         LoseAssign, LoseReport, masterVars, schedVars, localVars, p2pVars, dbVars
<1>2. \A w \in Worker : (Sending(j, w)' <=> Sending(j, w)) /\ (InChannel(j, w)' <=> InChannel(j, w))
  BY <1>1 DEF Sending, InChannel
<1>3. Reported(j) => Reported(j)'
  <2>1. \A k : ~Fault(k)
    BY FaultCounts
  <2>2. reports \subseteq reports'
    BY <2>1 DEF WorkerStep, ExecutorStep, StartJob, FinishJob, SendReport, WorkerRestart, RecvAssign,
                LoseAssign, LoseReport, netVars
  <2> QED BY <1>1, <2>2 DEF Reported
<1> SUFFICES ASSUME NEW v \in Worker
             PROVE  OnWire(j, v) \/ Queued(j, v) \/ Executing(j, v) \/ ResultHeld(j, v) => InFlight(j)'
  BY <1>1, <1>2, <1>3 DEF InFlight, Held
<1>4. /\ Reported(j)' => InFlight(j)'
      /\ \A w \in Worker : OnWire(j, w)' \/ Queued(j, w)' \/ Executing(j, w)' \/ ResultHeld(j, w)'
                             => InFlight(j)'
  BY DEF InFlight, Held
<1>5. ASSUME NEW m \in Assignment, RecvAssign(m)
      PROVE  OnWire(j, v) \/ Queued(j, v) \/ Executing(j, v) \/ ResultHeld(j, v) => InFlight(j)'
  <2>1. PICK i \in Job, u \in Worker : m = [job |-> i, peer |-> u]
    BY DEF Assignment
  <2>2. OnWire(i, u) /\ i = m.job /\ u = m.peer
    BY <1>5, <2>1 DEF RecvAssign, OnWire
  <2>3. queue[u] \in Seq(Job) /\ Distinct(queue[u]) /\ ~InSeq(i, queue[u])
    BY <2>2 DEF PlacesAgree, HeldInOnePlace, Queued, WorkerTypeOK
  <2>4. /\ wire' = wire \ {m} /\ UNCHANGED <<reports, tasks, running, results>>
        /\ \/ queue' = [queue EXCEPT ![u] = Append(queue[u], i)]
           \/ UNCHANGED queue /\ i # j
    BY <1>5, <2>2 DEF RecvAssign, masterVars, p2pVars
  <2>5. \A y : InSeq(y, Append(queue[u], i)) <=> InSeq(y, queue[u]) \/ y = i
    BY <2>3, InAppend
  <2>6. Queued(j, v) => Queued(j, v)'
    BY <2>4, <2>5 DEF Queued, WorkerTypeOK
  <2>7. OnWire(j, v) => OnWire(j, v)' \/ Queued(j, v)'
    <3>1. CASE [job |-> j, peer |-> v] = m
      <4>1. j = i /\ v = u
        BY <2>2, <3>1
      <4> QED BY <2>4, <2>5, <4>1 DEF Queued, WorkerTypeOK
    <3>2. CASE [job |-> j, peer |-> v] # m
      BY <2>4, <3>2 DEF OnWire
    <3> QED BY <3>1, <3>2
  <2>8. /\ Executing(j, v)' <=> Executing(j, v)
        /\ ResultHeld(j, v)' <=> ResultHeld(j, v)
    BY <2>4 DEF Executing, ResultHeld
  <2> QED BY <1>4, <2>6, <2>7, <2>8
<1>6. ASSUME NEW w \in Worker, StartJob(w)
      PROVE  OnWire(j, v) \/ Queued(j, v) \/ Executing(j, v) \/ ResultHeld(j, v) => InFlight(j)'
  <2>1. /\ queue[w] \in Seq(Job) /\ queue[w] # <<>> /\ running[w] = NoJob
        /\ queue' = [queue EXCEPT ![w] = Tail(queue[w])]
        /\ running' = [running EXCEPT ![w] = Head(queue[w])]
        /\ UNCHANGED <<wire, reports, tasks, results>>
    BY <1>6 DEF StartJob, WorkerTypeOK, masterVars, p2pVars, netVars
  <2>2. \A y : InSeq(y, queue[w]) => y = Head(queue[w]) \/ InSeq(y, Tail(queue[w]))
    BY <2>1, InHeadOrTail
  <2>3. Queued(j, v) => Queued(j, v)' \/ Executing(j, v)'
    BY <2>1, <2>2 DEF Queued, Executing, WorkerTypeOK
  <2>4. Executing(j, v) => Executing(j, v)'
    BY <2>1, SchedulerAssumption DEF Executing, WorkerTypeOK
  <2>5. /\ OnWire(j, v)' <=> OnWire(j, v)
        /\ ResultHeld(j, v)' <=> ResultHeld(j, v)
    BY <2>1 DEF OnWire, ResultHeld
  <2> QED BY <1>4, <2>3, <2>4, <2>5
<1>7. ASSUME NEW w \in Worker, NEW ok \in BOOLEAN, FinishJob(w, ok)
      PROVE  OnWire(j, v) \/ Queued(j, v) \/ Executing(j, v) \/ ResultHeld(j, v) => InFlight(j)'
  <2>1. PICK i \in Job : i = running[w]
    BY <1>7 DEF FinishJob, WorkerTypeOK
  <2>2. PICK r \in Completion : r = [job |-> i, ok |-> ok]
    BY DEF Completion
  <2>3. /\ results[w] \in Seq(Completion)
        /\ results' = [results EXCEPT ![w] = Append(results[w], r)]
        /\ running' = [running EXCEPT ![w] = NoJob]
        /\ UNCHANGED <<wire, reports, tasks, queue>>
    BY <1>7, <2>1, <2>2 DEF FinishJob, WorkerTypeOK, masterVars, p2pVars, netVars
  <2>4. \A y : InSeq(y, Append(results[w], r)) <=> InSeq(y, results[w]) \/ y = r
    BY <2>3, InAppend
  <2>5. ResultHeld(j, v) => ResultHeld(j, v)'
    BY <2>3, <2>4 DEF ResultHeld, WorkerTypeOK
  <2>6. Executing(j, v) => Executing(j, v)' \/ ResultHeld(j, v)'
    <3>1. CASE v = w
      BY <2>1, <2>2, <2>3, <2>4, <3>1 DEF Executing, ResultHeld, WorkerTypeOK
    <3>2. CASE v # w
      BY <2>3, <3>2 DEF Executing, WorkerTypeOK
    <3> QED BY <3>1, <3>2
  <2>7. /\ OnWire(j, v)' <=> OnWire(j, v)
        /\ Queued(j, v)' <=> Queued(j, v)
    BY <2>3 DEF OnWire, Queued
  <2> QED BY <1>4, <2>5, <2>6, <2>7
<1>8. ASSUME NEW w \in Worker, SendReport(w)
      PROVE  OnWire(j, v) \/ Queued(j, v) \/ Executing(j, v) \/ ResultHeld(j, v) => InFlight(j)'
  <2>1. /\ results[w] \in Seq(Completion) /\ results[w] # <<>>
        /\ results' = [results EXCEPT ![w] = Tail(results[w])]
        /\ reports' = reports \cup {Head(results[w])}
        /\ UNCHANGED <<wire, tasks, queue, running>>
    BY <1>8 DEF SendReport, WorkerTypeOK, masterVars, p2pVars
  <2>2. \A y : InSeq(y, results[w]) => y = Head(results[w]) \/ InSeq(y, Tail(results[w]))
    BY <2>1, InHeadOrTail
  <2>3. ResultHeld(j, v) => ResultHeld(j, v)' \/ Reported(j)'
    BY <2>1, <2>2 DEF ResultHeld, Reported, WorkerTypeOK
  <2>4. /\ OnWire(j, v)' <=> OnWire(j, v)
        /\ Queued(j, v)' <=> Queued(j, v)
        /\ Executing(j, v)' <=> Executing(j, v)
    BY <2>1 DEF OnWire, Queued, Executing
  <2> QED BY <1>4, <2>3, <2>4
<1>9. ~\E k : Fault(k)
  BY FaultCounts
<1>10. /\ \A w \in Worker : ~WorkerRestart(w)
       /\ \A m \in Assignment : ~LoseAssign(m)
       /\ \A r \in Completion : ~LoseReport(r)
  BY <1>9 DEF WorkerRestart, LoseAssign, LoseReport
<1> QED BY <1>5, <1>6, <1>7, <1>8, <1>10 DEF WorkerStep, ExecutorStep

(* While nothing has failed, a job that is assigned is on its way between    *)
(* the scheduler and the completion task, or a full queue has refused it:    *)
(* no other step forgets it, for queues and channels of any size.            *)
THEOREM AssignedIsOnItsWay == Spec => []AssignedIsInFlight
<1>1. Init => AssignedIsInFlight
  BY DEF Init, AssignedIsInFlight
<1>2. TypeOK /\ PlacesAgree /\ AssignedIsInFlight /\ [Next]_vars => AssignedIsInFlight'
  <2>1. ASSUME TypeOK, PlacesAgree, AssignedIsInFlight, Next, faults' = 0,
               NEW j \in Job, j \notin refused'
        PROVE  status'[j] = "assigned" => InFlight(j)'
    <3>1. faults = 0
      BY <2>1, FaultsGrow
    <3>2. status[j] = "assigned" => InFlight(j)
      BY <2>1, <3>1, RefusedStay DEF AssignedIsInFlight, InFlight
    <3>3. ~MasterRestart
      BY <2>1, FaultCounts DEF MasterRestart
    <3> QED BY <2>1, <3>2, <3>3, Steps, ApiFlight, SchedulerFlight, P2PFlight, WorkerFlight
  <2>2. UNCHANGED vars /\ AssignedIsInFlight => AssignedIsInFlight'
    BY DEF vars, dbVars, localVars, p2pVars, netVars, workerVars, histVars, boundVars, AssignedIsInFlight,
           Reported, Held, Sending, InChannel, OnWire, Queued, Executing, ResultHeld
  <2> QED BY <2>1, <2>2 DEF AssignedIsInFlight, InFlight
<1> QED BY <1>1, <1>2, Typing, PlacesAlwaysAgree, PTL DEF Spec

=============================================================================
