-------------------------- MODULE Terminal_proofs ---------------------------
(***************************************************************************)
(* What Terminal guarantees for any number of viewers, outputs of any      *)
(* length, every replay limit and channel capacity, and any number of      *)
(* faults.                                                                 *)
(***************************************************************************)
EXTENDS Terminal, FiniteSetTheorems, SequenceTheorems, TLAPS

-----------------------------------------------------------------------------
(* What is read and broadcast *)

(* Lines are positive numbers, so none of them is job_done. *)
LEMMA LinesPositive == Lines \subseteq Nat \ {0}
BY TerminalAssumption DEF Lines

(* The task never gets beyond the output. *)
LEMMA Progress == ASSUME TypeOK PROVE /\ length \in Nat
                                      /\ Handled \in 0..length /\ Broadcasted \in 0..length
<1>1. length \in Nat /\ next \in 1..length + 1
  BY TerminalAssumption DEF TypeOK, JobTypeOK
<1> QED BY <1>1 DEF Handled, Broadcasted

(* The lines of the output are lines. *)
LEMMA LinesOfOutput == ASSUME TypeOK PROVE 1..length \subseteq Lines
<1>1. CASE length = 0
  BY <1>1
<1>2. CASE length \in Length
  BY <1>2 DEF Lines
<1> QED BY <1>1, <1>2 DEF TypeOK, JobTypeOK

(* The answer to the query is in order and has stored lines only, *)
LEMMA AnswerStored ==
  ASSUME TypeOK, NEW q \in GetLogs
  PROVE  /\ q \in Seq(Lines) /\ Range(q) = Rows /\ OldestFirst(q)
         /\ \A i \in 1..Len(q) : q[i] \in stored
<1>1. length \in Nat /\ stored \subseteq 1..length
  BY Progress DEF TypeOK, JobTypeOK
<1>2. 1..length \subseteq Lines
  BY LinesOfOutput
<1>3. Rows \subseteq stored
  BY DEF Rows
<1>4. IsFiniteSet(Rows)
  <2>1. IsFiniteSet(1..length)
    BY <1>1, FS_Interval
  <2> QED BY <1>1, <1>3, <2>1, FS_Subset
<1>5. Cardinality(Rows) \in Nat
  BY <1>4, FS_CardinalityType
<1>6. q \in [1..Cardinality(Rows) -> Rows] /\ Range(q) = Rows /\ OldestFirst(q)
  BY DEF GetLogs
<1>7. q \in [1..Cardinality(Rows) -> Lines]
  BY <1>1, <1>2, <1>3, <1>6
<1>8. q \in Seq(Lines)
  BY <1>5, <1>7
<1>9. \A i \in 1..Len(q) : q[i] \in Range(q)
  BY <1>8 DEF Range
<1> QED BY <1>3, <1>6, <1>8, <1>9

(* and every one of them up to the limit, if nothing was lost. *)
LEMMA AnswerComplete ==
  ASSUME TypeOK, NEW n \in 1..Handled, stored = 1..Handled, n <= Limit
  PROVE  n \in Rows
<1>1. Handled \in Nat /\ n \in Nat /\ Limit \in Nat
  BY Progress, TerminalAssumption
<1>2. {k \in stored : k < n} = 1..n - 1
  BY <1>1
<1>3. Cardinality(1..n - 1) < Limit
  <2>1. PICK m \in Int : m = n - 1
    BY <1>1
  <2>2. Cardinality(1..m) = IF 1 > m THEN 0 ELSE m - 1 + 1
    BY FS_Interval
  <2> QED BY <1>1, <2>1, <2>2
<1>4. Cardinality({k \in stored : k < n}) < Limit
  BY <1>2, <1>3, Zenon
<1>5. n \in stored
  OBVIOUS
<1> QED BY <1>4, <1>5, Zenon DEF Rows

-----------------------------------------------------------------------------
(* Types *)

Message == Lines \cup {JobDone}

(* A broadcast keeps the queues of the viewers, *)
LEMMA SendTypes ==
  ASSUME TypeOK, NEW msg \in Message, Send(msg)
  PROVE  live' \in [Viewer -> Seq(Message)] /\ lagged' \subseteq Viewer
<1>1. Receivers \subseteq Viewer /\ Capacity \in Nat
  BY TerminalAssumption DEF TypeOK, ViewTypeOK, Receivers
<1>2. ASSUME NEW s \in Seq(Message)
      PROVE  LET q == Append(s, msg) IN (IF Len(q) > Capacity THEN Tail(q) ELSE q) \in Seq(Message)
  <2>1. PICK q \in Seq(Message) : q = Append(s, msg)
    <3>1. Append(s, msg) \in Seq(Message)
      OBVIOUS
    <3> QED BY <3>1
  <2>2. q # <<>>
    BY <2>1
  <2> QED BY <2>1, <2>2
<1>3. live \in [Viewer -> Seq(Message)]
  BY DEF TypeOK, ViewTypeOK, Message
<1>4. \A v \in Viewer : live[v] \in Seq(Message)
  BY <1>3
<1> QED BY <1>1, <1>2, <1>4 DEF Send, TypeOK, ViewTypeOK

LEMMA ViewSame == ASSUME TypeOK, UNCHANGED viewVars PROVE ViewTypeOK'
BY DEF TypeOK, ViewTypeOK, viewVars, histVars

(* and the completion task all types. *)
LEMMA TaskTypes ==
  ASSUME TypeOK, TaskInv,
         \/ \E n \in Length, o \in {"completed", "failed"} : Report(n, o)
         \/ TaskStep \/ Cancel \/ Restart
  PROVE  TypeOK'
<1> USE DEF TypeOK, jobVars, taskVars, viewVars, histVars
<1>1. ASSUME NEW n \in Length, NEW o \in {"completed", "failed"}, Report(n, o)
      PROVE  TypeOK'
  <2>1. stored = {} /\ n \in Nat /\ next = 1
    BY <1>1, TerminalAssumption DEF Report, TaskInv, Handled
  <2> QED BY <1>1, <2>1 DEF Report, JobTypeOK, ViewTypeOK
<1>2. CASE StoreLine
  <2>1. next \in 1..length /\ next' \in 1..length + 1
    BY <1>2, Progress DEF StoreLine, JobTypeOK
  <2>2. stored' \subseteq stored \cup {next}
    BY <1>2 DEF StoreLine
  <2>3. stored' \subseteq 1..length
    BY <2>1, <2>2, Zenon DEF JobTypeOK
  <2>4. faults' \in 0..MaxFaults
    BY <1>2, TerminalAssumption DEF StoreLine, Fault, JobTypeOK
  <2>5. UNCHANGED <<status, task, length, outcome, entry>>
    BY <1>2 DEF StoreLine
  <2>6. JobTypeOK'
    BY <2>1, <2>3, <2>4, <2>5 DEF JobTypeOK
  <2>7. ViewTypeOK'
    BY <1>2, ViewSame DEF StoreLine
  <2> QED BY <2>6, <2>7
<1>3. CASE UpdateStatus
  <2>1. next' \in 1..length' + 1 /\ faults' \in 0..MaxFaults
    BY <1>3, Progress, TerminalAssumption DEF UpdateStatus, StoredAll, Fault, JobTypeOK
  <2>2. status' \in Terminal \cup {"assigned"}
    BY <1>3, TaskInv DEF UpdateStatus, StoredAll, JobTypeOK, Terminal, TaskInv
  <2> QED BY <1>3, <2>1, <2>2 DEF UpdateStatus, StoredAll, JobTypeOK, ViewTypeOK
<1>4. CASE Broadcast
  <2>1. next \in Message /\ next' \in 1..length + 1
    BY <1>4, Progress, LinesOfOutput DEF Broadcast, Message, JobTypeOK
  <2> QED BY <1>4, <2>1, SendTypes DEF Broadcast, Send, Message, JobTypeOK, ViewTypeOK
<1>5. CASE BroadcastDone
  BY <1>5, SendTypes DEF BroadcastDone, Send, Message, JobTypeOK, ViewTypeOK
<1>6. CASE RemoveEntry \/ Cancel
  <2>1. JobTypeOK'
    BY <1>6 DEF RemoveEntry, Cancel, JobTypeOK, Terminal
  <2>2. ViewTypeOK'
    BY <1>6 DEF RemoveEntry, Cancel, ViewTypeOK
  <2> QED BY <2>1, <2>2
<1>7. CASE Restart
  <2>1. JobTypeOK'
    <3>1. faults' \in 0..MaxFaults
      BY <1>7, TerminalAssumption DEF Restart, Fault, JobTypeOK
    <3>2. entry' \in BOOLEAN
      BY <1>7 DEF Restart
    <3> QED BY <1>7, <3>1, <3>2 DEF Restart, JobTypeOK
  <2>2. ViewTypeOK'
    BY <1>7 DEF Restart, ViewTypeOK
  <2> QED BY <2>1, <2>2
<1> QED BY <1>1, <1>2, <1>3, <1>4, <1>5, <1>6, <1>7 DEF TaskStep

(* So do the steps of a viewer. *)
LEMMA ViewerTypes ==
  ASSUME TypeOK, NEW v \in Viewer,
         \/ WsTerminal(v) \/ StreamLogs(v) \/ DownloadResult(v)
         \/ Leave(v) \/ Handler(v) \/ Tick(v)
  PROVE  TypeOK'
<1> USE DEF jobVars, taskVars, histVars, End, Tell, Handler, WsTerminal, StreamLogs, DownloadResult,
        Leave, Tick, Replay, CheckStatus, Subscribe, Receive, Closed, Show
<1>1. JobTypeOK'
  <2>1. entry' \in BOOLEAN
    BY DEF TypeOK, JobTypeOK
  <2>2. UNCHANGED <<status, stored, task, next, length, outcome>>
    OBVIOUS
  <2>3. faults' = faults \/ Fault
    OBVIOUS
  <2>4. faults' \in 0..MaxFaults
    BY <2>3, TerminalAssumption DEF Fault, TypeOK, JobTypeOK
  <2> QED BY <2>1, <2>2, <2>4 DEF TypeOK, JobTypeOK
<1>2. /\ pc' \in [Viewer -> {"away", "replay", "check", "subscribe", "loop", "ended"}]
      /\ open' \subseteq Viewer
  BY DEF TypeOK, ViewTypeOK
<1>3. told' \in [Viewer -> Terminal \cup {"none"}]
  <2>1. \/ told' = told
        \/ status \in Terminal /\ told' = [told EXCEPT ![v] = status]
        \/ told' = [told EXCEPT ![v] = outcome]
    BY DEF Terminal
  <2> QED BY <2>1 DEF TypeOK, JobTypeOK, ViewTypeOK, Terminal
<1>4. /\ shown' \in [Viewer -> Seq(Lines)] /\ count' \in [Viewer -> Nat]
      /\ replayed' \in [Viewer -> Nat] /\ subscribed' \in [Viewer -> Nat]
  <2>1. CASE Replay(v) \/ StreamLogs(v) \/ DownloadResult(v)
    <3>1. <<>> \in Seq(Lines) /\ \A q \in GetLogs : q \in Seq(Lines)
      BY AnswerStored
    <3>2. PICK q \in Seq(Lines) : Show(v, q)
      BY <2>1, <3>1, Zenon
    <3>3. Handled \in Nat /\ Len(q) \in Nat
      BY Progress
    <3>4. /\ shown \in [Viewer -> Seq(Lines)] /\ count \in [Viewer -> Nat]
          /\ replayed \in [Viewer -> Nat] /\ subscribed \in [Viewer -> Nat]
      BY DEF TypeOK, ViewTypeOK
    <3>5. shown' = [shown EXCEPT ![v] = q]
      BY <3>2
    <3>6. shown' \in [Viewer -> Seq(Lines)]
      BY <3>4, <3>5
    <3>7. /\ count' = [count EXCEPT ![v] = Len(q)] /\ replayed' = [replayed EXCEPT ![v] = Handled]
          /\ subscribed' = subscribed
      BY <3>2
    <3> QED BY <3>3, <3>4, <3>6, <3>7
  <2>2. CASE Subscribe(v)
    <3>1. UNCHANGED <<shown, count, replayed>> /\ subscribed' = [subscribed EXCEPT ![v] = Broadcasted]
      BY <2>2
    <3>2. Broadcasted \in Nat
      BY Progress
    <3> QED BY <3>1, <3>2 DEF TypeOK, ViewTypeOK
  <2>3. CASE Receive(v)
    <3>1. shown[v] \in Seq(Lines) /\ live[v] \in Seq(Lines \cup {JobDone})
      BY DEF TypeOK, ViewTypeOK
    <3>2. live[v] # <<>> /\ Head(live[v]) # JobDone => Append(shown[v], Head(live[v])) \in Seq(Lines)
      <4>1. live[v] # <<>> => Head(live[v]) \in Lines \cup {JobDone}
        BY <3>1
      <4>2. ASSUME NEW s \in Seq(Lines), NEW n \in Lines PROVE Append(s, n) \in Seq(Lines)
        OBVIOUS
      <4> QED BY <3>1, <4>1, <4>2, Zenon
    <3>3. UNCHANGED <<replayed, count, subscribed>>
      BY <2>3
    <3>4. \/ UNCHANGED shown
          \/ /\ live[v] # <<>> /\ Head(live[v]) # JobDone
             /\ shown' = [shown EXCEPT ![v] = Append(shown[v], Head(live[v]))]
      BY <2>3
    <3>5. UNCHANGED shown \/ \E q \in Seq(Lines) : shown' = [shown EXCEPT ![v] = q]
      BY <3>2, <3>4, Zenon
    <3>6. shown \in [Viewer -> Seq(Lines)]
      BY DEF TypeOK, ViewTypeOK
    <3>7. shown' \in [Viewer -> Seq(Lines)]
      BY <3>5, <3>6
    <3> QED BY <3>3, <3>7 DEF TypeOK, ViewTypeOK
  <2>4. CASE WsTerminal(v) \/ Leave(v) \/ CheckStatus(v) \/ Closed(v) \/ Tick(v)
    BY <2>4 DEF TypeOK, ViewTypeOK
  <2> QED BY <2>1, <2>2, <2>3, <2>4
<1>6. lagged' \subseteq Viewer /\ heard' \subseteq Viewer
  BY DEF TypeOK, ViewTypeOK
<1>7. live' \in [Viewer -> Seq(Lines \cup {JobDone})]
  <2>1. \/ live' = live
        \/ live' = [live EXCEPT ![v] = <<>>]
        \/ live[v] # <<>> /\ live' = [live EXCEPT ![v] = Tail(live[v])]
    OBVIOUS
  <2>2. live[v] \in Seq(Lines \cup {JobDone}) /\ <<>> \in Seq(Lines \cup {JobDone})
    BY DEF TypeOK, ViewTypeOK
  <2>3. live[v] # <<>> => Tail(live[v]) \in Seq(Lines \cup {JobDone})
    BY <2>2
  <2> QED BY <2>1, <2>2, <2>3 DEF TypeOK, ViewTypeOK
<1> QED BY <1>1, <1>2, <1>3, <1>4, <1>6, <1>7 DEF TypeOK, ViewTypeOK

ViewerStep(v) == WsTerminal(v) \/ StreamLogs(v) \/ DownloadResult(v) \/ Leave(v) \/ Handler(v) \/ Tick(v)

(* Hence every step does. *)
LEMMA NextTypes == TypeOK /\ TaskInv /\ [Next]_vars => TypeOK'
<1> SUFFICES ASSUME TypeOK, TaskInv, [Next]_vars PROVE TypeOK'
  OBVIOUS
<1>1. CASE UNCHANGED vars
  BY <1>1 DEF TypeOK, JobTypeOK, ViewTypeOK, vars, jobVars, taskVars, viewVars, histVars
<1>2. ASSUME NEW v \in Viewer, ViewerStep(v) PROVE TypeOK'
  BY <1>2, ViewerTypes DEF ViewerStep
<1>3. ASSUME NEW v \in Viewer, StopReading(v) PROVE TypeOK'
  BY <1>3 DEF StopReading, TypeOK, JobTypeOK, ViewTypeOK, jobVars, taskVars, histVars
<1>4. ASSUME Next, ~ \E v \in Viewer : ViewerStep(v) \/ StopReading(v) PROVE TypeOK'
  BY <1>4, TaskTypes DEF Next, ViewerStep
<1> QED BY <1>1, <1>2, <1>3, <1>4

-----------------------------------------------------------------------------
(* The task and the channel *)

(* A viewer changes nothing of the job, the task, or another viewer. *)
LEMMA ViewerFrame ==
  ASSUME TypeOK, NEW v \in Viewer, ViewerStep(v)
  PROVE  /\ UNCHANGED <<status, stored, task, next, length, outcome>>
         /\ faults' = 0 => faults = 0
         /\ \A u \in Viewer \ {v} :
              /\ pc'[u] = pc[u] /\ shown'[u] = shown[u] /\ told'[u] = told[u] /\ live'[u] = live[u]
              /\ replayed'[u] = replayed[u] /\ count'[u] = count[u] /\ subscribed'[u] = subscribed[u]
              /\ (u \in heard') = (u \in heard) /\ (u \in lagged') = (u \in lagged)
              /\ (u \in open') = (u \in open)
<1> USE DEF jobVars, taskVars, histVars, End, Tell, Handler, WsTerminal, StreamLogs, DownloadResult,
        Leave, Tick, Replay, CheckStatus, Subscribe, Receive, Closed, Show, ViewerStep
<1>1. UNCHANGED <<status, stored, task, next, length, outcome>>
  OBVIOUS
<1>2. faults' = faults \/ faults' = faults + 1
  BY DEF Fault
<1>3. faults' = 0 => faults = 0
  BY <1>2 DEF TypeOK, JobTypeOK
<1>4. ASSUME NEW u \in Viewer \ {v}
      PROVE  /\ pc'[u] = pc[u] /\ shown'[u] = shown[u] /\ told'[u] = told[u] /\ live'[u] = live[u]
             /\ (u \in heard') = (u \in heard) /\ (u \in lagged') = (u \in lagged)
             /\ (u \in open') = (u \in open)
  BY DEF TypeOK, ViewTypeOK
<1>5. ASSUME NEW u \in Viewer \ {v}
      PROVE  replayed'[u] = replayed[u] /\ count'[u] = count[u] /\ subscribed'[u] = subscribed[u]
  BY DEF TypeOK, ViewTypeOK
<1> QED BY <1>1, <1>3, <1>4, <1>5

TaskSide == \/ \E n \in Length, o \in {"completed", "failed"} : Report(n, o)
            \/ TaskStep \/ Cancel \/ Restart

(* What a viewer does leaves TaskInv alone, *)
LEMMA TaskInvOfViewer ==
  ASSUME TypeOK, TaskInv, NEW v \in Viewer, ViewerStep(v) PROVE TaskInv'
<1>1. UNCHANGED <<status, stored, task, next, length, outcome>> /\ (faults' = 0 => faults = 0)
  BY ViewerFrame
<1>2. Handled' = Handled
  BY <1>1 DEF Handled
<1> QED BY <1>1, <1>2 DEF TaskInv

(* and the task keeps it. *)
LEMMA TaskInvOfTask == ASSUME TypeOK, TaskInv, TaskSide PROVE TaskInv'
<1>1. /\ next \in 1..length + 1 /\ length \in Nat /\ Handled \in 0..length
      /\ faults \in Nat /\ outcome \in {"none", "completed", "failed"}
      /\ task \in {"none", "store", "broadcast", "remove", "ended"}
  BY Progress DEF TypeOK, JobTypeOK
<1>2. ASSUME NEW n \in Length, NEW o \in {"completed", "failed"}, Report(n, o) PROVE TaskInv'
  BY <1>1, <1>2 DEF Report, TaskInv, Handled, jobVars
<1>3. CASE StoreLine
  <2>1. /\ task = "store" /\ task' = "store" /\ next' = next + 1
        /\ UNCHANGED <<status, length, outcome>>
        /\ stored' = stored \cup {next} \/ (stored' = stored /\ faults' = faults + 1)
        /\ faults' = 0 => faults = 0 /\ stored' = stored \cup {next}
    BY <1>1, <1>3 DEF StoreLine, Fault
  <2>2. Handled = next - 1 /\ Handled' = next
    BY <1>1, <2>1 DEF Handled
  <2>3. 1..next = (1..next - 1) \cup {next}
    BY <1>1
  <2>4. stored' \subseteq 1..Handled' /\ (faults' = 0 => stored' = 1..Handled')
    BY <2>1, <2>2, <2>3, Zenon DEF TaskInv
  <2> QED BY <2>1, <2>4 DEF TaskInv
<1>4. CASE UpdateStatus
  <2>1. Handled = length /\ Handled' = length' /\ length' = length
    BY <1>1, <1>4 DEF UpdateStatus, StoredAll, Handled
  <2> QED BY <1>1, <1>4, <2>1 DEF UpdateStatus, StoredAll, TaskInv, Fault
<1>5. CASE Broadcast \/ BroadcastDone \/ RemoveEntry
  BY <1>1, <1>5 DEF Broadcast, BroadcastDone, RemoveEntry, TaskInv, Handled, jobVars
<1>6. CASE Cancel
  BY <1>1, <1>6 DEF Cancel, TaskInv, Handled, taskVars
<1>7. CASE Restart
  <2>1. Handled' = Handled \/ Handled' = length
    BY <1>7 DEF Restart, Handled
  <2>2. faults' # 0
    BY <1>1, <1>7 DEF Restart, Fault
  <2>3. stored \subseteq 1..length
    BY DEF TypeOK, JobTypeOK
  <2> QED BY <1>1, <1>7, <2>1, <2>2, <2>3 DEF Restart, TaskInv, jobVars
<1> QED BY <1>2, <1>3, <1>4, <1>5, <1>6, <1>7 DEF TaskSide, TaskStep

(* Who is told is told the truth. *)
LEMMA DoneOfTask == ASSUME TypeOK, TaskInv, DoneMeansOver, TaskSide PROVE DoneMeansOver'
<1>1. faults \in Nat
  BY DEF TypeOK, JobTypeOK
<1>2. told' = told /\ (faults' = 0 => faults = 0)
  BY <1>1 DEF TaskSide, TaskStep, Report, StoreLine, UpdateStatus, Broadcast, BroadcastDone, RemoveEntry,
     Cancel, Restart, Fault, viewVars, histVars
<1>3. status' = status \/ status = "assigned"
  BY DEF TaskSide, TaskStep, Report, StoreLine, UpdateStatus, Broadcast, BroadcastDone, RemoveEntry,
     Cancel, Restart, jobVars
<1> QED BY <1>2, <1>3 DEF DoneMeansOver, Terminal

LEMMA DoneOfViewer ==
  ASSUME TypeOK, TaskInv, DoneMeansOver, NEW v \in Viewer, StreamInv(v), ViewerStep(v)
  PROVE  DoneMeansOver'
<1>1. /\ UNCHANGED <<status, stored, task, next, length, outcome>>
      /\ faults' = 0 => faults = 0
      /\ \A u \in Viewer \ {v} : told'[u] = told[u]
  BY ViewerFrame
<1>2. told \in [Viewer -> Terminal \cup {"none"}] /\ outcome \in {"none", "completed", "failed"}
  BY DEF TypeOK, JobTypeOK, ViewTypeOK
<1>3. \/ told' = told
      \/ status \in Terminal /\ told' = [told EXCEPT ![v] = status]
      \/ Receive(v) /\ Head(live[v]) = JobDone /\ told' = [told EXCEPT ![v] = outcome]
  BY DEF ViewerStep, jobVars, taskVars, histVars, End, Tell, Handler, WsTerminal, StreamLogs, DownloadResult,
     Leave, Tick, Replay, CheckStatus, Subscribe, Receive, Closed, Show, Terminal
<1>4. ASSUME Receive(v), Head(live[v]) = JobDone PROVE task \in {"remove", "ended"}
  <2>1. live[v] \in Seq(Lines \cup {JobDone}) /\ live[v] # <<>>
    BY <1>4 DEF Receive, TypeOK, ViewTypeOK
  <2>2. 1 \in DOMAIN live[v] /\ live[v][1] = JobDone
    BY <1>4, <2>1
  <2> QED BY <2>2 DEF StreamInv
<1>5. faults = 0 /\ task \in {"remove", "ended"} => status \in {outcome, "cancelled"} /\ outcome # "none"
  BY DEF TaskInv
<1>6. faults' = 0 /\ told'[v] # "none" => status \in Terminal /\ (told'[v] = status \/ status = "cancelled")
  BY <1>1, <1>2, <1>3, <1>4, <1>5 DEF DoneMeansOver, Terminal
<1> QED BY <1>1, <1>6 DEF DoneMeansOver

(* The queues are bounded, and the channel of who is in the loop is open.   *)
LEMMA ChannelOfTask == ASSUME TypeOK, ChannelInv, TaskSide PROVE ChannelInv'
<1>1. /\ faults \in Nat /\ open \subseteq Viewer /\ Capacity \in Nat \ {0}
      /\ live \in [Viewer -> Seq(Message)]
  BY TerminalAssumption DEF TypeOK, JobTypeOK, ViewTypeOK, Message
<1>2. CASE ~ (Broadcast \/ BroadcastDone \/ RemoveEntry \/ Restart)
  <2>1. UNCHANGED <<entry, open, pc, live>>
    BY <1>2 DEF TaskSide, TaskStep, Report, StoreLine, UpdateStatus, Cancel, viewVars, taskVars
  <2>2. (faults' = 0 => faults = 0) /\ (task' # "ended" => task # "ended")
    BY <1>1, <1>2 DEF TaskSide, TaskStep, Report, StoreLine, UpdateStatus, StoredAll, Cancel, Fault, taskVars
  <2> QED BY <2>1, <2>2 DEF ChannelInv
<1>3. CASE Broadcast \/ BroadcastDone
  <2>1. PICK msg \in Message : Send(msg)
    <3>1. next <= length => next \in Lines
      BY LinesOfOutput DEF TypeOK, JobTypeOK
    <3> QED BY <1>3, <3>1 DEF Broadcast, BroadcastDone, Message
  <2>2. ASSUME NEW s \in Seq(Message), Len(s) <= Capacity
        PROVE  Len(LET q == Append(s, msg) IN IF Len(q) > Capacity THEN Tail(q) ELSE q) <= Capacity
    <3>1. PICK q \in Seq(Message) : q = Append(s, msg) /\ Len(q) = Len(s) + 1
      <4>1. Append(s, msg) \in Seq(Message) /\ Len(Append(s, msg)) = Len(s) + 1
        OBVIOUS
      <4> QED BY <4>1
    <3>2. Len(Tail(q)) = Len(q) - 1
      BY <3>1
    <3> QED BY <1>1, <2>2, <3>1, <3>2
  <2>3. \A v \in Viewer : live[v] \in Seq(Message) /\ Len(live[v]) <= Capacity
    BY <1>1 DEF ChannelInv
  <2>4. \A v \in Viewer : Len(live'[v]) <= Capacity
    BY <2>1, <2>2, <2>3 DEF Send
  <2>5. UNCHANGED <<open, entry, pc, faults>> /\ (task' # "ended" => task # "ended")
    BY <1>3 DEF Broadcast, BroadcastDone
  <2> QED BY <2>4, <2>5 DEF ChannelInv
<1>4. CASE RemoveEntry
  BY <1>1, <1>4 DEF RemoveEntry, ChannelInv
<1>5. CASE Restart
  <2>1. faults' # 0 /\ open' = {} /\ \A v \in Viewer : Len(live'[v]) <= Capacity
    BY <1>1, <1>5 DEF Restart, Fault
  <2> QED BY <2>1 DEF ChannelInv
<1> QED BY <1>2, <1>3, <1>4, <1>5

LEMMA ChannelOfViewer ==
  ASSUME TypeOK, ChannelInv, NEW v \in Viewer, ViewerStep(v) PROVE ChannelInv'
<1> USE DEF jobVars, taskVars, histVars, End, Tell, Handler, WsTerminal, StreamLogs, DownloadResult,
        Leave, Tick, Replay, CheckStatus, Subscribe, Receive, Closed, Show, ViewerStep
<1>1. /\ live[v] \in Seq(Message) /\ live \in [Viewer -> Seq(Message)] /\ Capacity \in Nat
      /\ pc \in [Viewer -> {"away", "replay", "check", "subscribe", "loop", "ended"}] /\ open \subseteq Viewer
  BY TerminalAssumption DEF TypeOK, ViewTypeOK, Message
<1>2. /\ task' = task /\ (faults' = 0 => faults = 0)
      /\ \A u \in Viewer \ {v} : /\ pc'[u] = pc[u] /\ live'[u] = live[u]
                                 /\ (u \in open') = (u \in open)
  BY ViewerFrame
<1>3. (open' # {} => entry') /\ (v \in open' => pc'[v] = "loop")
  BY <1>1 DEF ChannelInv
<1>4. pc'[v] = "loop" => v \in open' \/ (pc[v] = "loop" /\ (v \in open' <=> v \in open))
  BY <1>1 DEF ChannelInv
<1>5. Len(live'[v]) <= Capacity
  <2>1. live[v] # <<>> => Len(Tail(live[v])) <= Len(live[v])
    BY <1>1
  <2>2. live' = live \/ live' = [live EXCEPT ![v] = <<>>] \/ (live[v] # <<>> /\ live' = [live EXCEPT ![v] = Tail(live[v])])
    OBVIOUS
  <2>3. Len(live[v]) <= Capacity /\ Len(live[v]) \in Nat /\ (live[v] # <<>> => Len(Tail(live[v])) \in Nat)
    BY <1>1 DEF ChannelInv
  <2>4. live'[v] = live[v] \/ live'[v] = <<>> \/ (live[v] # <<>> /\ live'[v] = Tail(live[v]))
    BY <1>1, <2>2
  <2> QED BY <1>1, <2>1, <2>3, <2>4
<1> QED BY <1>2, <1>3, <1>4, <1>5 DEF ChannelInv

-----------------------------------------------------------------------------
(* What a viewer has got *)

ViewerInv(v) == FreshInv(v) /\ ReplayInv(v) /\ StreamInv(v)

(* A step leaves to the viewer u what it got and what it waits for, or      *)
(* ends it; its handler may go on, and may be told at the status checks.    *)
Untouched(u) ==
    /\ shown'[u] = shown[u] /\ count'[u] = count[u]
    /\ replayed'[u] = replayed[u] /\ subscribed'[u] = subscribed[u]
    /\ live'[u] = live[u] \/ (live'[u] = <<>> /\ pc'[u] = "ended")
    /\ (u \in heard') = (u \in heard) /\ (u \in lagged') = (u \in lagged)
    /\ \/ pc'[u] = pc[u] \/ pc'[u] = "ended"
       \/ pc[u] = "away" /\ pc'[u] = "replay"
       \/ pc[u] = "check" /\ pc'[u] = "subscribe"
    /\ told'[u] = told[u] \/ pc[u] \in {"check", "loop"}

(* The broadcast does not go on in it, unless the master restarts.          *)
Steady == /\ Broadcasted <= Broadcasted'
          /\ task \in {"remove", "ended"} => task' \in {"remove", "ended"} /\ length' = length
          /\ faults' = 0 => faults = 0 /\ Broadcasted' = Broadcasted

(* Such a step keeps what is known of the viewer. *)
LEMMA UntouchedKeeps ==
  ASSUME TypeOK, TypeOK', NEW u \in Viewer, ViewerInv(u), Untouched(u), Steady
  PROVE  ViewerInv(u)'
<1>1. /\ shown[u] \in Seq(Lines) /\ live[u] \in Seq(Message)
      /\ count[u] \in Nat /\ subscribed[u] \in Nat /\ replayed[u] \in Nat
      /\ pc[u] \in {"away", "replay", "check", "subscribe", "loop", "ended"}
  BY DEF TypeOK, ViewTypeOK, Message
<1>2. Broadcasted \in Nat /\ Broadcasted' \in Nat /\ Broadcasted <= Broadcasted'
  <2>1. Broadcasted \in Nat /\ length \in Nat
    BY Progress
  <2>2. Broadcasted' \in Nat
    BY TerminalAssumption DEF TypeOK, JobTypeOK, Broadcasted
  <2> QED BY <2>1, <2>2 DEF Steady
<1>3. Seen(u)' = Seen(u) /\ Heard(u)' = Heard(u)
  BY DEF Untouched, Seen, Heard, Range
<1>4. FreshInv(u)'
  BY <1>1 DEF FreshInv, Untouched, ViewerInv
<1>5. ReplayInv(u)'
  BY <1>1, <1>3 DEF ReplayInv, Untouched, ViewerInv, Steady
<1>6. StreamInv(u)'
  <2>0. live'[u] = live[u] \/ live'[u] = <<>>
    BY DEF Untouched
  <2>1. /\ subscribed'[u] <= Broadcasted'
        /\ \A i \in Heard(u)' : shown'[u][i] \in subscribed'[u] + 1 .. Broadcasted'
        /\ \A i, j \in Heard(u)' : i < j => shown'[u][i] < shown'[u][j]
    BY <1>1, <1>2, <1>3 DEF StreamInv, Untouched, ViewerInv, Steady
  <2>2. \A k \in DOMAIN live'[u] :
          IF live'[u][k] = JobDone THEN k = Len(live'[u]) /\ task' \in {"remove", "ended"}
                                   ELSE live'[u][k] \in subscribed'[u] + 1 .. Broadcasted'
    <3>1. CASE live'[u] = <<>>
      BY <3>1
    <3>2. CASE live'[u] = live[u]
      BY <1>1, <1>2, <3>2 DEF StreamInv, Untouched, ViewerInv, Steady
    <3> QED BY <2>0, <3>1, <3>2
  <2>3. /\ \A k, l \in DOMAIN live'[u] : k < l /\ live'[u][l] # JobDone => live'[u][k] < live'[u][l]
        /\ \A i \in Heard(u)', k \in DOMAIN live'[u] :
             live'[u][k] # JobDone => shown'[u][i] < live'[u][k]
    <3>1. CASE live'[u] = <<>>
      BY <3>1
    <3>2. CASE live'[u] = live[u]
      BY <1>1, <1>3, <3>2 DEF StreamInv, Untouched, ViewerInv
    <3> QED BY <2>0, <3>1, <3>2
  <2>4. faults' = 0 /\ pc'[u] = "loop" /\ u \notin lagged' =>
          \A n \in subscribed'[u] + 1 .. Broadcasted' : n \in Seen(u)' \/ n \in Range(live'[u])
    BY <1>1, <1>3 DEF StreamInv, Untouched, ViewerInv, Steady
  <2>5. /\ u \in heard' => task' \in {"remove", "ended"} /\ live'[u] = <<>>
        /\ u \in heard' /\ faults' = 0 /\ u \notin lagged' =>
             \A n \in subscribed'[u] + 1 .. length' : n \in Seen(u)'
    BY <1>3 DEF StreamInv, Untouched, ViewerInv, Steady
  <2> QED BY <2>1, <2>2, <2>3, <2>4, <2>5 DEF StreamInv, Heard, Seen
<1> QED BY <1>4, <1>5, <1>6 DEF ViewerInv

(* A replay, of a terminal or of one of the endpoints, is in order and has  *)
(* what was stored.                                                         *)
LEMMA ReplayKeeps ==
  ASSUME TypeOK, TaskInv, NEW v \in Viewer, ViewerInv(v),
         Replay(v) \/ StreamLogs(v) \/ DownloadResult(v)
  PROVE  ViewerInv(v)'
<1> USE DEF jobVars, taskVars, End, Tell
<1>1. /\ pc[v] \in {"away", "replay"} /\ pc'[v] \in {"check", "ended"}
      /\ UNCHANGED <<task, next, length, live, heard, stored>>
      /\ subscribed' = subscribed /\ v \in DOMAIN shown
      /\ (faults = 0 /\ faults' = 0) \/ faults' # 0
  BY DEF Replay, StreamLogs, DownloadResult, Show, Fault, TypeOK, JobTypeOK, ViewTypeOK
<1>2. live[v] = <<>> /\ v \notin heard
  BY <1>1 DEF ViewerInv, FreshInv
<1>3. /\ Handled \in Nat /\ Broadcasted \in Nat /\ Broadcasted' = Broadcasted
      /\ subscribed[v] <= Broadcasted
  BY <1>1, Progress DEF Broadcasted, ViewerInv, StreamInv
<1>4. PICK q \in Seq(Lines) :
        /\ Show(v, q)
        /\ \A i \in 1..Len(q) : q[i] <= Handled
        /\ \A i, j \in 1..Len(q) : i < j => q[i] < q[j]
        /\ faults' = 0 => \A n \in 1..Handled : n <= Limit => n \in Range(q)
  <2>1. CASE \E q \in GetLogs : Show(v, q)
    <3>1. PICK q \in GetLogs : Show(v, q)
      BY <2>1
    <3>2. /\ q \in Seq(Lines) /\ Range(q) = Rows
          /\ \A i, j \in 1..Len(q) : i < j => q[i] < q[j]
          /\ \A i \in 1..Len(q) : q[i] \in stored
      BY AnswerStored DEF OldestFirst
    <3>3. \A i \in 1..Len(q) : q[i] <= Handled
      <4>1. \A n \in stored : n <= Handled
        BY <1>3 DEF TaskInv
      <4> QED BY <3>2, <4>1
    <3>4. ASSUME faults' = 0, NEW n \in 1..Handled, n <= Limit PROVE n \in Range(q)
      <4>1. stored = 1..Handled
        BY <1>1, <3>4 DEF TaskInv
      <4> QED BY <3>2, <3>4, <4>1, AnswerComplete
    <3> QED BY <3>1, <3>2, <3>3, <3>4
  <2>2. CASE Show(v, <<>>) /\ Fault
    <3>1. <<>> \in Seq(Lines) /\ Len(<<>>) = 0 /\ 1..0 = {}
      OBVIOUS
    <3>2. faults' # 0
      BY <2>2 DEF Fault, TypeOK, JobTypeOK
    <3> QED BY <2>2, <3>1, <3>2, Zenon
  <2> QED BY <2>1, <2>2 DEF Replay, StreamLogs, DownloadResult
<1>5. shown'[v] = q /\ count'[v] = Len(q) /\ replayed'[v] = Handled /\ Len(q) \in Nat
  BY <1>4 DEF Show, TypeOK, ViewTypeOK
<1>6. Seen(v)' = Range(q) /\ Heard(v)' = {}
  BY <1>5 DEF Seen, Heard
<1>7. FreshInv(v)'
  BY <1>1, <1>2, <1>5 DEF FreshInv
<1>8. ReplayInv(v)'
  BY <1>4, <1>5, <1>6 DEF ReplayInv
<1>9. StreamInv(v)'
  BY <1>1, <1>2, <1>3, <1>6 DEF StreamInv
<1> QED BY <1>7, <1>8, <1>9 DEF ViewerInv

(* The subscription starts where the broadcast is. *)
LEMMA SubscribeKeeps ==
  ASSUME TypeOK, NEW v \in Viewer, ViewerInv(v), Subscribe(v) PROVE ViewerInv(v)'
<1>1. /\ pc[v] = "subscribe" /\ pc'[v] = "loop" /\ subscribed'[v] = Broadcasted
      /\ UNCHANGED <<task, next, length, live, heard, shown, told, replayed, count, faults>>
  BY DEF Subscribe, TypeOK, ViewTypeOK, jobVars, taskVars
<1>2. live[v] = <<>> /\ v \notin heard /\ Len(shown[v]) = count[v] /\ count[v] \in Nat
  BY <1>1 DEF ViewerInv, FreshInv, TypeOK, ViewTypeOK
<1>3. Broadcasted \in Nat /\ Broadcasted' = Broadcasted
  BY <1>1, Progress DEF Broadcasted
<1>4. Seen(v)' = Seen(v) /\ Heard(v)' = {}
  BY <1>1, <1>2 DEF Seen, Heard, Range
<1>5. FreshInv(v)'
  BY <1>1, <1>2 DEF FreshInv
<1>6. ReplayInv(v)'
  BY <1>1, <1>4 DEF ReplayInv, ViewerInv
<1>7. StreamInv(v)'
  BY <1>1, <1>2, <1>3, <1>4 DEF StreamInv
<1> QED BY <1>5, <1>6, <1>7 DEF ViewerInv

(* A line of the channel comes after what is shown, *)
LEMMA LineKeeps ==
  ASSUME TypeOK, NEW v \in Viewer, ViewerInv(v), Receive(v), Head(live[v]) # JobDone
  PROVE  ViewerInv(v)'
<1> DEFINE m == Head(live[v])
           L == Len(shown[v])
<1>1. /\ shown[v] \in Seq(Lines) /\ live[v] \in Seq(Message) /\ live[v] # <<>>
      /\ count[v] \in Nat /\ subscribed[v] \in Nat /\ replayed[v] \in Nat
      /\ Lines \subseteq Nat /\ Message \subseteq Nat
  BY LinesPositive DEF Receive, TypeOK, ViewTypeOK, Message, JobDone
<1>2. /\ pc[v] = "loop" /\ pc'[v] = "loop" /\ shown'[v] = Append(shown[v], m)
      /\ live'[v] = Tail(live[v])
      /\ UNCHANGED <<task, next, length, heard, lagged, told, replayed, count, subscribed, faults>>
  BY DEF Receive, TypeOK, ViewTypeOK, jobVars, taskVars
<1>3. Broadcasted \in Nat /\ Broadcasted' = Broadcasted
  BY <1>2, Progress DEF Broadcasted
<1>4. /\ L \in Nat /\ Len(shown'[v]) = L + 1 /\ shown'[v][L + 1] = m
      /\ \A i \in 1..L : shown'[v][i] = shown[v][i]
      /\ m \in Message /\ m \in Nat
  <2>1. m \in Message /\ m \in Nat /\ m # JobDone
    <3>1. m \in Message /\ m # JobDone
      BY <1>1
    <3> QED BY <1>1, <3>1
  <2>2. m \in Lines
    BY <2>1 DEF Message
  <2> HIDE DEF m
  <2> QED BY <1>1, <1>2, <2>1, <2>2
<1>5. /\ 1 \in DOMAIN live[v] /\ live[v][1] = m
      /\ Len(live'[v]) = Len(live[v]) - 1
      /\ \A k \in DOMAIN live'[v] : k + 1 \in DOMAIN live[v] /\ live'[v][k] = live[v][k + 1]
      /\ \A k \in DOMAIN live[v] : k = 1 \/ (k - 1 \in DOMAIN live'[v] /\ live'[v][k - 1] = live[v][k])
  <2>1. PICK q : q = Tail(live[v])
    OBVIOUS
  <2>2. /\ q \in Seq(Message) /\ Len(q) = Len(live[v]) - 1 /\ Len(live[v]) \in Nat \ {0}
        /\ \A k \in 1..Len(live[v]) - 1 : q[k] = live[v][k + 1]
    BY <1>1, <2>1, HeadTailProperties, EmptySeq
  <2>3. DOMAIN q = 1..Len(live[v]) - 1 /\ DOMAIN live[v] = 1..Len(live[v])
    BY <1>1, <2>2
  <2>4. live[v][1] = m
    BY <1>1
  <2>5. \A k \in 1..Len(live[v]) : k = 1 \/ (k - 1 \in 1..Len(live[v]) - 1 /\ k = (k - 1) + 1)
    BY <2>2
  <2> QED BY <1>2, <2>1, <2>2, <2>3, <2>4, <2>5
<1>6. v \notin heard
  BY <1>1 DEF ViewerInv, StreamInv
<1>7. Seen(v) \subseteq Seen(v)' /\ m \in Seen(v)'
  <2>1. DOMAIN shown[v] = 1..L /\ DOMAIN shown'[v] = 1..L + 1
    BY <1>1, <1>2, <1>4
  <2>2. 1..L \subseteq 1..L + 1 /\ L + 1 \in 1..L + 1
    BY <1>4
  <2> HIDE DEF m, L
  <2> QED BY <1>4, <2>1, <2>2 DEF Seen, Range
<1>8. count[v] <= L /\ \A i \in Heard(v)' : i \in Heard(v) \/ i = L + 1
  BY <1>1, <1>2, <1>4 DEF Heard, ViewerInv, ReplayInv
<1>9. FreshInv(v)'
  BY <1>2 DEF FreshInv
<1>10. ReplayInv(v)'
  <2>1. \A i \in 1..count[v] : shown'[v][i] = shown[v][i]
    BY <1>1, <1>4, <1>8
  <2>2. ReplayInv(v)
    BY DEF ViewerInv
  <2>3. count[v] <= Len(shown'[v])
    BY <1>1, <1>4, <1>8
  <2>4. faults = 0 => \A n \in 1..replayed[v] : n <= Limit => n \in Seen(v)'
    BY <1>2, <1>7, <2>2 DEF ReplayInv
  <2> QED BY <1>2, <2>1, <2>2, <2>3, <2>4 DEF ReplayInv
<1>11. StreamInv(v)'
  <2>0. ViewerInv(v) /\ StreamInv(v)
    BY DEF ViewerInv
  <2>1. \A i \in Heard(v) : i \in 1..L /\ shown'[v][i] = shown[v][i]
    BY <1>1, <1>4, <1>8 DEF Heard
  <2>2. \A i \in Heard(v)' : shown'[v][i] \in subscribed[v] + 1 .. Broadcasted
    BY <1>4, <1>5, <1>8, <2>0, <2>1 DEF StreamInv
  <2>3. \A i, j \in Heard(v)' : i < j => shown'[v][i] < shown'[v][j]
    <3>1. \A i \in Heard(v) : shown[v][i] < m
      BY <1>5, <2>0 DEF StreamInv
    <3>2. \A i, j \in Heard(v) : i < j => shown[v][i] < shown[v][j]
      BY <2>0 DEF StreamInv
    <3> QED BY <1>4, <1>8, <2>1, <3>1, <3>2
  <2>4. \A k \in DOMAIN live'[v] :
          IF live'[v][k] = JobDone THEN k = Len(live'[v]) /\ task' \in {"remove", "ended"}
                                   ELSE live'[v][k] \in subscribed[v] + 1 .. Broadcasted
    <3>1. SUFFICES ASSUME NEW k \in DOMAIN live'[v]
                   PROVE  IF live'[v][k] = JobDone
                            THEN k = Len(live'[v]) /\ task' \in {"remove", "ended"}
                            ELSE live'[v][k] \in subscribed[v] + 1 .. Broadcasted
      OBVIOUS
    <3>2. k + 1 \in DOMAIN live[v] /\ live'[v][k] = live[v][k + 1]
      BY <1>5
    <3>3. IF live[v][k + 1] = JobDone THEN k + 1 = Len(live[v]) /\ task \in {"remove", "ended"}
                                      ELSE live[v][k + 1] \in subscribed[v] + 1 .. Broadcasted
      BY <2>0, <3>2 DEF StreamInv
    <3>4. k \in Nat /\ Len(live[v]) \in Nat
      BY <1>1, <1>2
    <3> QED BY <1>2, <1>5, <3>2, <3>3, <3>4
  <2>5. \A k, l \in DOMAIN live'[v] : k < l /\ live'[v][l] # JobDone => live'[v][k] < live'[v][l]
    <3>1. \A k, l \in DOMAIN live[v] : k < l /\ live[v][l] # JobDone => live[v][k] < live[v][l]
      BY <2>0 DEF StreamInv
    <3>2. DOMAIN live'[v] \subseteq Nat
      BY <1>1, <1>2
    <3>3. \A k, l \in DOMAIN live'[v] : k < l => k + 1 < l + 1
      BY <3>2
    <3>4. \A k \in DOMAIN live'[v] : k + 1 \in DOMAIN live[v] /\ live'[v][k] = live[v][k + 1]
      BY <1>5
    <3> QED BY <3>1, <3>3, <3>4, Zenon
  <2>6. \A i \in Heard(v)', k \in DOMAIN live'[v] :
          live'[v][k] # JobDone => shown'[v][i] < live'[v][k]
    <3>1. ASSUME NEW k \in DOMAIN live'[v], live'[v][k] # JobDone PROVE m < live'[v][k]
      <4>1. k + 1 \in DOMAIN live[v] /\ live'[v][k] = live[v][k + 1] /\ 1 \in DOMAIN live[v] /\ live[v][1] = m
        BY <1>5
      <4>2. 1 < k + 1
        BY <1>1, <1>2
      <4> QED BY <2>0, <3>1, <4>1, <4>2 DEF StreamInv
    <3>2. ASSUME NEW i \in Heard(v), NEW k \in DOMAIN live'[v], live'[v][k] # JobDone
          PROVE  shown[v][i] < live'[v][k]
      BY <1>5, <2>0, <3>2 DEF StreamInv
    <3> QED BY <1>4, <1>8, <2>1, <3>1, <3>2
  <2>7. faults = 0 /\ v \notin lagged =>
          \A n \in subscribed[v] + 1 .. Broadcasted : n \in Seen(v)' \/ n \in Range(live'[v])
    <3>1. ASSUME NEW n \in Range(live[v]) PROVE n = m \/ n \in Range(live'[v])
      BY <1>1, <1>5 DEF Range
    <3>2. faults = 0 /\ v \notin lagged =>
            \A n \in subscribed[v] + 1 .. Broadcasted : n \in Seen(v) \/ n \in Range(live[v])
      BY <1>2, <2>0 DEF StreamInv
    <3> QED BY <1>7, <3>1, <3>2
  <2>8. subscribed[v] <= Broadcasted
    BY <2>0 DEF StreamInv
  <2> QED BY <1>2, <1>3, <1>6, <2>2, <2>3, <2>4, <2>5, <2>6, <2>7, <2>8 DEF StreamInv, Seen, Heard
<1> QED BY <1>9, <1>10, <1>11 DEF ViewerInv

(* and job_done when there is nothing more to come. *)
LEMMA DoneKeeps ==
  ASSUME TypeOK, NEW v \in Viewer, ViewerInv(v), Receive(v), Head(live[v]) = JobDone
  PROVE  ViewerInv(v)'
<1>1. /\ live[v] \in Seq(Message) /\ live[v] # <<>> /\ shown[v] \in Seq(Lines)
      /\ count[v] \in Nat /\ subscribed[v] \in Nat /\ heard \subseteq Viewer
  BY DEF Receive, TypeOK, ViewTypeOK, Message
<1>2. /\ pc[v] = "loop" /\ pc'[v] = "loop" /\ live'[v] = Tail(live[v])
      /\ UNCHANGED <<task, next, length, shown, lagged, replayed, count, subscribed, faults>>
  BY DEF Receive, TypeOK, ViewTypeOK, jobVars, taskVars
<1>3. 1 \in DOMAIN live[v] /\ live[v][1] = JobDone
  BY <1>1
<1>4. Len(live[v]) = 1 /\ task \in {"remove", "ended"}
  BY <1>3 DEF ViewerInv, StreamInv
<1>5. live'[v] = <<>>
  <2>1. Tail(live[v]) \in Seq(Message) /\ Len(Tail(live[v])) = 0
    BY <1>1, <1>4, HeadTailProperties
  <2>2. Tail(live[v]) = <<>>
    BY <2>1, EmptySeq
  <2> QED BY <1>2, <2>2
<1>6. /\ Broadcasted' = Broadcasted /\ Broadcasted = length /\ length \in Nat
      /\ Seen(v)' = Seen(v) /\ Heard(v)' = Heard(v)
  BY <1>2, <1>4, Progress DEF Broadcasted, Seen, Heard, Range
<1>7. Range(live[v]) = {JobDone}
  BY <1>1, <1>3, <1>4 DEF Range
<1>8. faults = 0 /\ v \notin lagged => \A n \in subscribed[v] + 1 .. length : n \in Seen(v)
  BY <1>1, <1>2, <1>6, <1>7 DEF ViewerInv, StreamInv, JobDone
<1>9. FreshInv(v)'
  BY <1>2 DEF FreshInv
<1>10. ReplayInv(v)'
  BY <1>2, <1>6 DEF ReplayInv, ViewerInv
<1>11. StreamInv(v)'
  <2>1. /\ subscribed'[v] <= Broadcasted'
        /\ \A i \in Heard(v)' : shown'[v][i] \in subscribed'[v] + 1 .. Broadcasted'
        /\ \A i, j \in Heard(v)' : i < j => shown'[v][i] < shown'[v][j]
    BY <1>2, <1>6 DEF StreamInv, ViewerInv
  <2>2. DOMAIN live'[v] = {}
    BY <1>5
  <2>3. faults' = 0 /\ v \notin lagged' => \A n \in subscribed'[v] + 1 .. length' : n \in Seen(v)'
    BY <1>2, <1>6, <1>8
  <2>4. faults' = 0 /\ v \notin lagged' =>
          \A n \in subscribed'[v] + 1 .. Broadcasted' : n \in Seen(v)'
    BY <1>2, <1>6, <2>3
  <2> QED BY <1>2, <1>4, <1>5, <2>1, <2>2, <2>3, <2>4 DEF StreamInv
<1> QED BY <1>9, <1>10, <1>11 DEF ViewerInv

(* A message comes last in the queue of a receiver; a full queue loses its  *)
(* first message, and the receiver has lagged.                             *)
LEMMA Sent ==
  ASSUME TypeOK, ChannelInv, NEW msg \in Message, Send(msg), NEW u \in Viewer
  PROVE  \/ u \notin Receivers /\ live'[u] = live[u] /\ (u \in lagged => u \in lagged')
         \/ \E d \in {0, 1} :
              /\ u \in Receivers
              /\ Len(live'[u]) = Len(live[u]) + 1 - d
              /\ \A k \in DOMAIN live'[u] :
                   live'[u][k] = IF k + d = Len(live[u]) + 1 THEN msg ELSE live[u][k + d]
              /\ DOMAIN live'[u] = 1..Len(live[u]) + 1 - d
              /\ u \in lagged => u \in lagged'
              /\ d = 1 => u \in lagged'
<1>1. /\ live[u] \in Seq(Message) /\ live \in [Viewer -> Seq(Message)]
      /\ Len(live[u]) <= Capacity /\ Capacity \in Nat \ {0}
  BY TerminalAssumption DEF TypeOK, ViewTypeOK, Message, ChannelInv
<1>2. lagged' = lagged \cup {v \in Receivers : Len(live[v]) = Capacity}
  BY DEF Send
<1>3. CASE u \notin Receivers
  BY <1>1, <1>2, <1>3 DEF Send
<1>4. CASE u \in Receivers
  <2>1. PICK q : q = Append(live[u], msg)
    OBVIOUS
  <2>2. /\ q \in Seq(Message) /\ Len(q) = Len(live[u]) + 1 /\ q # <<>>
        /\ \A k \in 1..Len(live[u]) : q[k] = live[u][k]
        /\ q[Len(live[u]) + 1] = msg
    BY <1>1, <2>1, AppendProperties
  <2>3. live'[u] = IF Len(q) > Capacity THEN Tail(q) ELSE q
    BY <1>1, <1>4, <2>1 DEF Send
  <2>4. CASE Len(q) > Capacity
    <3>1. /\ live'[u] \in Seq(Message) /\ Len(live'[u]) = Len(live[u])
          /\ \A k \in 1..Len(q) - 1 : live'[u][k] = q[k + 1]
      BY <2>2, <2>3, <2>4, HeadTailProperties
    <3>2. u \in lagged'
      BY <1>1, <1>2, <1>4, <2>2, <2>4
    <3>3. DOMAIN live'[u] = 1..Len(live[u])
      BY <3>1
    <3>4. \A k \in 1..Len(live[u]) :
            live'[u][k] = IF k + 1 = Len(live[u]) + 1 THEN msg ELSE live[u][k + 1]
      <4>1. \A k \in 1..Len(live[u]) : k \in 1..Len(q) - 1 /\ (k + 1 = Len(live[u]) + 1 \/ k + 1 \in 1..Len(live[u]))
        BY <1>1, <2>2
      <4>2. ASSUME NEW k \in 1..Len(live[u])
            PROVE  live'[u][k] = IF k + 1 = Len(live[u]) + 1 THEN msg ELSE live[u][k + 1]
        <5>1. live'[u][k] = q[k + 1]
          BY <3>1, <4>1
        <5>2. CASE k + 1 = Len(live[u]) + 1
          BY <2>2, <5>1, <5>2
        <5>3. CASE k + 1 # Len(live[u]) + 1
          BY <2>2, <4>1, <5>1, <5>3
        <5> QED BY <5>2, <5>3
      <4> QED BY <4>2
    <3>5. Len(live[u]) + 1 - 1 = Len(live[u])
      BY <1>1
    <3> QED BY <1>4, <3>1, <3>2, <3>3, <3>4, <3>5
  <2>5. CASE ~ Len(q) > Capacity
    <3>1. live'[u] = q
      BY <2>3, <2>5
    <3>2. \A k \in 1..Len(live[u]) + 1 :
            live'[u][k] = IF k = Len(live[u]) + 1 THEN msg ELSE live[u][k]
      BY <1>1, <2>2, <3>1
    <3>3. Len(live[u]) \in Nat
      BY <1>1
    <3>4. DOMAIN q = 1..Len(live[u]) + 1
      BY <2>2
    <3> QED BY <1>2, <1>4, <2>2, <3>1, <3>2, <3>3, <3>4
  <2> QED BY <2>4, <2>5
<1> QED BY <1>3, <1>4

(* The broadcast of the lines, and then of job_done. *)
LEMMA BroadcastKeeps ==
  ASSUME TypeOK, TypeOK', ChannelInv, NEW u \in Viewer, ViewerInv(u), Broadcast \/ BroadcastDone
  PROVE  ViewerInv(u)'
<1>1. PICK msg \in Message :
        /\ Send(msg) /\ task = "broadcast" /\ length' = length /\ faults' = faults
        /\ UNCHANGED <<pc, shown, told, replayed, count, subscribed, heard>>
        /\ \/ /\ msg = Broadcasted + 1 /\ msg # JobDone /\ task' = "broadcast"
              /\ Broadcasted' = Broadcasted + 1
           \/ msg = JobDone /\ task' = "remove" /\ Broadcasted' = Broadcasted
  <2>1. next \in 1..length + 1 /\ length \in Nat /\ 1..length \subseteq Lines
    BY Progress, LinesOfOutput DEF TypeOK, JobTypeOK
  <2>2. CASE Broadcast
    <3>1. next \in Message /\ next # JobDone
      BY <2>1, <2>2 DEF Broadcast, Message, JobDone
    <3>2. next = Broadcasted + 1 /\ Broadcasted' = Broadcasted + 1
      BY <2>1, <2>2 DEF Broadcast, Broadcasted
    <3> QED BY <2>2, <3>1, <3>2 DEF Broadcast, Send
  <2>3. CASE BroadcastDone
    <3>1. Broadcasted' = Broadcasted
      BY <2>1, <2>3 DEF BroadcastDone, Broadcasted
    <3> QED BY <2>3, <3>1 DEF BroadcastDone, Send, Message
  <2> QED BY <2>2, <2>3
<1>2. /\ Broadcasted \in Nat /\ Lines \subseteq Nat /\ Message \subseteq Nat
      /\ live[u] \in Seq(Message) /\ Len(live[u]) \in Nat /\ shown[u] \in Seq(Lines)
      /\ count[u] \in Nat /\ subscribed[u] \in Nat
  <2>1. Broadcasted \in Nat
    BY Progress
  <2>2. Lines \subseteq Nat /\ Message \subseteq Nat
    BY LinesPositive DEF Message, JobDone
  <2> QED BY <2>1, <2>2 DEF Message, TypeOK, ViewTypeOK
<1>3. u \notin heard /\ StreamInv(u)
  BY <1>1 DEF ViewerInv, StreamInv
<1>4. \/ u \notin Receivers /\ live'[u] = live[u] /\ (u \in lagged => u \in lagged')
      \/ \E d \in {0, 1} :
           /\ u \in Receivers
           /\ Len(live'[u]) = Len(live[u]) + 1 - d
           /\ \A k \in DOMAIN live'[u] :
                live'[u][k] = IF k + d = Len(live[u]) + 1 THEN msg ELSE live[u][k + d]
           /\ DOMAIN live'[u] = 1..Len(live[u]) + 1 - d
           /\ u \in lagged => u \in lagged'
           /\ d = 1 => u \in lagged'
  BY <1>1, Sent
<1>5. u \in Receivers => pc[u] = "loop"
  BY DEF ChannelInv, Receivers
<1>6. faults = 0 /\ pc[u] = "loop" => u \in Receivers
  BY <1>1 DEF ChannelInv, Receivers
<1>7. Seen(u)' = Seen(u) /\ Heard(u)' = Heard(u)
  BY <1>1 DEF Seen, Heard, Range
<1>8. FreshInv(u)'
  BY <1>1, <1>4, <1>5 DEF FreshInv, ViewerInv
<1>9. ReplayInv(u)'
  BY <1>1, <1>7 DEF ReplayInv, ViewerInv
<1>10. StreamInv(u)'
  <2>1. /\ subscribed[u] <= Broadcasted'
        /\ \A i \in Heard(u) : shown[u][i] \in subscribed[u] + 1 .. Broadcasted'
        /\ \A i, j \in Heard(u) : i < j => shown[u][i] < shown[u][j]
    BY <1>1, <1>2, <1>3 DEF StreamInv
  <2>2. \A k \in DOMAIN live[u] : live[u][k] # JobDone /\ live[u][k] \in subscribed[u] + 1 .. Broadcasted
    BY <1>1, <1>3 DEF StreamInv
  <2>3. CASE u \notin Receivers
    <3>1. live'[u] = live[u]
      BY <1>4, <2>3
    <3>2. \A k \in DOMAIN live[u] : live[u][k] \in subscribed[u] + 1 .. Broadcasted'
      BY <1>1, <1>2, <2>2
    <3>3. ~ (faults' = 0 /\ pc'[u] = "loop")
      BY <1>1, <1>6, <2>3
    <3> QED BY <1>1, <1>3, <1>7, <2>1, <2>2, <3>1, <3>2, <3>3 DEF StreamInv
  <2>4. CASE u \in Receivers
    <3>1. PICK d \in {0, 1} :
            /\ Len(live'[u]) = Len(live[u]) + 1 - d
            /\ \A k \in DOMAIN live'[u] :
                 live'[u][k] = IF k + d = Len(live[u]) + 1 THEN msg ELSE live[u][k + d]
            /\ DOMAIN live'[u] = 1..Len(live[u]) + 1 - d
            /\ u \in lagged => u \in lagged'
            /\ d = 1 => u \in lagged'
      BY <1>4, <2>4
    <3>2. \A k \in DOMAIN live'[u] :
            \/ k = Len(live'[u]) /\ live'[u][k] = msg
            \/ k + d \in DOMAIN live[u] /\ live'[u][k] = live[u][k + d] /\ k < Len(live'[u])
      BY <1>2, <3>1
    <3>3. \A k \in DOMAIN live'[u] :
            IF live'[u][k] = JobDone THEN k = Len(live'[u]) /\ task' \in {"remove", "ended"}
                                     ELSE live'[u][k] \in subscribed[u] + 1 .. Broadcasted'
      <4>1. SUFFICES ASSUME NEW k \in DOMAIN live'[u]
                     PROVE  IF live'[u][k] = JobDone
                              THEN k = Len(live'[u]) /\ task' \in {"remove", "ended"}
                              ELSE live'[u][k] \in subscribed[u] + 1 .. Broadcasted'
        OBVIOUS
      <4>2. CASE k = Len(live'[u]) /\ live'[u][k] = msg
        <5>1. subscribed[u] <= Broadcasted
          BY <1>3 DEF StreamInv
        <5> QED BY <1>1, <1>2, <4>2, <5>1
      <4>3. CASE k + d \in DOMAIN live[u] /\ live'[u][k] = live[u][k + d]
        <5>1. PICK m \in subscribed[u] + 1 .. Broadcasted : m = live[u][k + d] /\ m # JobDone
          BY <2>2, <4>3
        <5> QED BY <1>1, <1>2, <4>3, <5>1
      <4> QED BY <3>2, <4>2, <4>3
    <3>4. \A k, l \in DOMAIN live'[u] : k < l /\ live'[u][l] # JobDone => live'[u][k] < live'[u][l]
      <4>1. SUFFICES ASSUME NEW k \in DOMAIN live'[u], NEW l \in DOMAIN live'[u],
                            k < l, live'[u][l] # JobDone
                     PROVE  live'[u][k] < live'[u][l]
        OBVIOUS
      <4>2. k \in Nat /\ l \in Nat /\ l <= Len(live'[u]) /\ Len(live'[u]) \in Nat
        BY <1>2, <3>1
      <4>3. k + d \in DOMAIN live[u] /\ live'[u][k] = live[u][k + d]
        BY <3>2, <4>1, <4>2
      <4>4. CASE live'[u][l] = msg
        BY <1>1, <1>2, <2>2, <4>1, <4>3, <4>4
      <4>5. CASE l + d \in DOMAIN live[u] /\ live'[u][l] = live[u][l + d]
        <5>1. k + d < l + d
          BY <3>1, <4>1, <4>2
        <5> QED BY <1>3, <2>2, <4>3, <4>5, <5>1 DEF StreamInv
      <4> QED BY <3>2, <4>4, <4>5
    <3>5. \A i \in Heard(u), k \in DOMAIN live'[u] :
            live'[u][k] # JobDone => shown[u][i] < live'[u][k]
      <4>1. \A i \in Heard(u) : shown[u][i] \in Nat /\ shown[u][i] <= Broadcasted
        BY <1>2, <1>3 DEF StreamInv
      <4>2. \A i \in Heard(u), k \in DOMAIN live[u] : shown[u][i] < live[u][k]
        BY <1>3, <2>2 DEF StreamInv
      <4> QED BY <1>1, <1>2, <3>2, <4>1, <4>2
    <3>6. faults = 0 /\ u \notin lagged' =>
            \A n \in subscribed[u] + 1 .. Broadcasted' : n \in Seen(u) \/ n \in Range(live'[u])
      <4>1. SUFFICES ASSUME faults = 0, u \notin lagged', NEW n \in subscribed[u] + 1 .. Broadcasted',
                            n \notin Seen(u)
                     PROVE  n \in Range(live'[u])
        OBVIOUS
      <4>2. d = 0 /\ u \notin lagged /\ pc[u] = "loop"
        BY <1>5, <2>4, <3>1, <4>1
      <4>3. /\ DOMAIN live'[u] = 1..Len(live[u]) + 1
            /\ live'[u][Len(live[u]) + 1] = msg
            /\ \A k \in 1..Len(live[u]) : k \in DOMAIN live'[u] /\ live'[u][k] = live[u][k]
        <5>0. Len(live[u]) + 1 - d = Len(live[u]) + 1 /\ \A k \in 1..Len(live[u]) + 1 : k + d = k
          BY <1>2, <4>2
        <5>1. DOMAIN live'[u] = 1..Len(live[u]) + 1
          BY <3>1, <5>0
        <5>2. \A k \in 1..Len(live[u]) + 1 :
                live'[u][k] = IF k = Len(live[u]) + 1 THEN msg ELSE live[u][k]
          BY <3>1, <5>0, <5>1
        <5>3. \A k \in 1..Len(live[u]) : k \in 1..Len(live[u]) + 1 /\ k # Len(live[u]) + 1
          BY <1>2
        <5>4. Len(live[u]) + 1 \in 1..Len(live[u]) + 1
          BY <1>2
        <5>5. live'[u][Len(live[u]) + 1] = msg
          BY <5>2, <5>4, Zenon
        <5>6. \A k \in 1..Len(live[u]) : live'[u][k] = live[u][k]
          BY <5>2, <5>3, Zenon
        <5> QED BY <5>1, <5>3, <5>5, <5>6, Zenon
      <4>4. CASE n = msg
        BY <1>2, <4>3, <4>4 DEF Range
      <4>5. CASE n \in subscribed[u] + 1 .. Broadcasted
        <5>1. n \in Range(live[u])
          BY <1>3, <4>1, <4>2, <4>5 DEF StreamInv
        <5>2. PICK k \in 1..Len(live[u]) : live[u][k] = n
          BY <1>2, <5>1 DEF Range
        <5> QED BY <1>2, <4>3, <5>2 DEF Range
      <4> QED BY <1>1, <1>2, <4>1, <4>4, <4>5
    <3> QED BY <1>1, <1>3, <1>7, <2>1, <3>3, <3>4, <3>5, <3>6 DEF StreamInv
  <2> QED BY <2>3, <2>4
<1> QED BY <1>8, <1>9, <1>10 DEF ViewerInv

-----------------------------------------------------------------------------
(* Together *)

(* The steps of the task and of the owner. *)
LEMMA TaskKeeps ==
  ASSUME TypeOK, TypeOK', TaskInv, ChannelInv, TaskSide, NEW u \in Viewer, ViewerInv(u)
  PROVE  ViewerInv(u)'
<1>1. CASE Broadcast \/ BroadcastDone
  BY <1>1, BroadcastKeeps
<1>2. CASE ~ (Broadcast \/ BroadcastDone)
  <2>1. /\ next \in 1..length + 1 /\ length \in Nat /\ faults \in Nat /\ Broadcasted \in 0..length
        /\ task \in {"none", "store", "broadcast", "remove", "ended"}
    BY Progress, TerminalAssumption DEF TypeOK, JobTypeOK
  <2>0. pc \in [Viewer -> {"away", "replay", "check", "subscribe", "loop", "ended"}]
    BY DEF TypeOK, ViewTypeOK
  <2>2. UNCHANGED <<shown, told, replayed, count, subscribed, lagged, heard>>
    BY <1>2 DEF TaskSide, TaskStep, Report, StoreLine, UpdateStatus, RemoveEntry, Cancel, Restart,
       viewVars, histVars
  <2>3. \/ UNCHANGED <<pc, live>>
        \/ live'[u] = <<>> /\ (pc'[u] = "ended" \/ (pc[u] = "away" /\ pc'[u] = "away"))
    BY <1>2, <2>0 DEF TaskSide, TaskStep, Report, StoreLine, UpdateStatus, RemoveEntry, Cancel, Restart,
       viewVars
  <2>4. pc[u] = "away" => live[u] = <<>>
    BY DEF ViewerInv, FreshInv
  <2>5. Untouched(u)
    BY <2>2, <2>3, <2>4 DEF Untouched
  <2>6. Steady
    <3>1. CASE \E n \in Length, o \in {"completed", "failed"} : Report(n, o)
      BY <2>1, <3>1 DEF Report, Steady, Broadcasted
    <3>2. CASE StoreLine
      BY <2>1, <3>2 DEF StoreLine, Steady, Broadcasted, Fault
    <3>3. CASE UpdateStatus
      BY <2>1, <3>3 DEF UpdateStatus, StoredAll, Steady, Broadcasted, Fault
    <3>4. CASE RemoveEntry
      BY <2>1, <3>4 DEF RemoveEntry, Steady, Broadcasted
    <3>5. CASE Cancel
      BY <2>1, <3>5 DEF Cancel, taskVars, Steady, Broadcasted
    <3>6. CASE Restart
      BY <2>1, <3>6 DEF Restart, Fault, Steady, Broadcasted
    <3> QED BY <1>2, <3>1, <3>2, <3>3, <3>4, <3>5, <3>6 DEF TaskSide, TaskStep
  <2> QED BY <2>5, <2>6, UntouchedKeeps
<1> QED BY <1>1, <1>2

(* The steps of a viewer, for itself and for the others. *)
LEMMA ViewerKeeps ==
  ASSUME TypeOK, TypeOK', TaskInv, NEW v \in Viewer, ViewerStep(v), NEW u \in Viewer, ViewerInv(u)
  PROVE  ViewerInv(u)'
<1>1. /\ UNCHANGED <<status, stored, task, next, length, outcome>> /\ (faults' = 0 => faults = 0)
      /\ \A w \in Viewer \ {v} :
           /\ pc'[w] = pc[w] /\ shown'[w] = shown[w] /\ told'[w] = told[w] /\ live'[w] = live[w]
           /\ replayed'[w] = replayed[w] /\ count'[w] = count[w] /\ subscribed'[w] = subscribed[w]
           /\ (w \in heard') = (w \in heard) /\ (w \in lagged') = (w \in lagged)
  BY ViewerFrame
<1>2. Steady
  <2>1. Broadcasted \in Nat /\ Broadcasted' = Broadcasted
    BY <1>1, Progress DEF Broadcasted
  <2> QED BY <1>1, <2>1 DEF Steady
<1>3. CASE u # v
  <2>1. Untouched(u)
    BY <1>1, <1>3 DEF Untouched
  <2> QED BY <1>2, <2>1, UntouchedKeeps
<1>4. CASE u = v /\ (Replay(v) \/ StreamLogs(v) \/ DownloadResult(v))
  BY <1>4, ReplayKeeps
<1>5. CASE u = v /\ Subscribe(v)
  BY <1>5, SubscribeKeeps
<1>6. CASE u = v /\ Receive(v)
  BY <1>6, LineKeeps, DoneKeeps
<1>7. CASE u = v /\ (WsTerminal(v) \/ Leave(v) \/ CheckStatus(v) \/ Closed(v) \/ Tick(v))
  <2>1. pc[u] \in {"away", "replay", "check", "subscribe", "loop", "ended"}
    BY DEF TypeOK, ViewTypeOK
  <2>2. UNCHANGED <<shown, replayed, count, subscribed, lagged, heard>>
    BY <1>7 DEF WsTerminal, Leave, CheckStatus, Closed, Tick, histVars
  <2>3. /\ live'[u] = live[u] \/ (live'[u] = <<>> /\ pc'[u] = "ended")
        /\ \/ pc'[u] = pc[u] \/ pc'[u] = "ended"
           \/ pc[u] = "away" /\ pc'[u] = "replay"
           \/ pc[u] = "check" /\ pc'[u] = "subscribe"
        /\ told'[u] = told[u] \/ pc[u] \in {"check", "loop"}
    BY <1>7 DEF WsTerminal, Leave, CheckStatus, Closed, Tick, End, Tell, TypeOK, ViewTypeOK
  <2>4. Untouched(u)
    BY <2>2, <2>3 DEF Untouched
  <2> QED BY <1>2, <2>4, UntouchedKeeps
<1> QED BY <1>3, <1>4, <1>5, <1>6, <1>7 DEF ViewerStep, Handler

LEMMA InitInv == Init => TerminalInv
<1> SUFFICES ASSUME Init PROVE TerminalInv
  OBVIOUS
<1> USE DEF Init
<1>1. JobTypeOK
  <2>1. entry \in BOOLEAN
    OBVIOUS
  <2> QED BY <2>1, TerminalAssumption DEF JobTypeOK, Terminal
<1>2. ViewTypeOK
  <2>1. <<>> \in Seq(Lines) /\ <<>> \in Seq(Lines \cup {JobDone})
    BY EmptySeq
  <2> QED BY <2>1 DEF ViewTypeOK
<1>3. Handled = 0 /\ Broadcasted = 0
  BY DEF Handled, Broadcasted
<1>4. TaskInv
  BY <1>3 DEF TaskInv
<1>5. ChannelInv /\ DoneMeansOver
  <2>1. Len(<<>>) = 0 /\ 0 <= Capacity
    BY TerminalAssumption
  <2> QED BY <2>1 DEF ChannelInv, DoneMeansOver
<1>6. ASSUME NEW v \in Viewer PROVE FreshInv(v) /\ ReplayInv(v) /\ StreamInv(v)
  <2>1. shown[v] = <<>> /\ live[v] = <<>> /\ Len(<<>>) = 0 /\ count[v] = 0 /\ told[v] = "none"
        /\ replayed[v] = 0 /\ subscribed[v] = 0 /\ pc[v] = "away" /\ v \notin heard
    OBVIOUS
  <2>2. Heard(v) = {} /\ DOMAIN live[v] = {} /\ 1..0 = {}
    BY <2>1 DEF Heard
  <2> QED BY <1>3, <2>1, <2>2 DEF FreshInv, ReplayInv, StreamInv
<1> QED BY <1>1, <1>2, <1>4, <1>5, <1>6 DEF TerminalInv, TypeOK

LEMMA StepInv == TerminalInv /\ [Next]_vars => TerminalInv'
<1> SUFFICES ASSUME TerminalInv, [Next]_vars PROVE TerminalInv'
  OBVIOUS
<1>1. /\ TypeOK /\ TaskInv /\ ChannelInv /\ DoneMeansOver
      /\ \A v \in Viewer : ViewerInv(v) /\ StreamInv(v)
  BY DEF TerminalInv, ViewerInv
<1>2. TypeOK'
  BY <1>1, NextTypes
<1>3. CASE UNCHANGED vars \/ \E v \in Viewer : StopReading(v)
  <2>1. /\ UNCHANGED <<status, stored, task, next, length, outcome, entry, pc, shown, told, open, live>>
        /\ UNCHANGED <<replayed, count, subscribed, lagged, heard, faults>>
    BY <1>3 DEF StopReading, vars, jobVars, taskVars, viewVars, histVars
  <2>2. Handled' = Handled /\ Broadcasted' = Broadcasted /\ Broadcasted \in Nat
    BY <1>1, <2>1, Progress DEF Handled, Broadcasted
  <2>3. TaskInv' /\ ChannelInv' /\ DoneMeansOver'
    BY <1>1, <2>1, <2>2 DEF TaskInv, ChannelInv, DoneMeansOver
  <2>4. ASSUME NEW v \in Viewer PROVE ViewerInv(v)'
    <3>1. Untouched(v) /\ Steady
      BY <2>1, <2>2 DEF Untouched, Steady
    <3> QED BY <1>1, <1>2, <3>1, UntouchedKeeps
  <2> QED BY <1>2, <2>3, <2>4 DEF TerminalInv, ViewerInv
<1>4. ASSUME NEW v \in Viewer, ViewerStep(v) PROVE TerminalInv'
  <2>1. TaskInv' /\ ChannelInv' /\ DoneMeansOver'
    BY <1>1, <1>4, TaskInvOfViewer, ChannelOfViewer, DoneOfViewer
  <2>2. ASSUME NEW u \in Viewer PROVE ViewerInv(u)'
    BY <1>1, <1>2, <1>4, ViewerKeeps
  <2> QED BY <1>2, <2>1, <2>2 DEF TerminalInv, ViewerInv
<1>5. CASE TaskSide
  <2>1. TaskInv' /\ ChannelInv' /\ DoneMeansOver'
    BY <1>1, <1>5, TaskInvOfTask, ChannelOfTask, DoneOfTask
  <2>2. ASSUME NEW u \in Viewer PROVE ViewerInv(u)'
    BY <1>1, <1>2, <1>5, TaskKeeps
  <2> QED BY <1>2, <2>1, <2>2 DEF TerminalInv, ViewerInv
<1>6. Next => TaskSide \/ \E v \in Viewer : ViewerStep(v) \/ StopReading(v)
  BY DEF Next, TaskSide, ViewerStep
<1> QED BY <1>3, <1>4, <1>5, <1>6

LEMMA AlwaysInv == Spec => []TerminalInv
BY InitInv, StepInv, PTL DEF Spec

(* A terminal is where its handler is, with what it was sent and what is    *)
(* still in its channel, and the task where the master's loop left it.      *)
THEOREM TerminalTyping == Spec => []TypeOK
<1>1. TerminalInv => TypeOK
  BY DEF TerminalInv
<1> QED BY <1>1, AlwaysInv, PTL

(* Without faults nobody is told that the job is done before it is over,    *)
(* and then what the row says unless the owner cancelled it meanwhile.      *)
THEOREM DoneIsOver == Spec => []DoneMeansOver
<1>1. TerminalInv => DoneMeansOver
  BY DEF TerminalInv
<1> QED BY <1>1, AlwaysInv, PTL

(* Without faults, what a viewer misses was beyond the limit of the replay, *)
(* or fell between replay and subscription, or was overwritten as it lagged. *)
THEOREM NothingElseMissed == Spec => []MissedOnlyInGap
<1>1. ASSUME TerminalInv PROVE MissedOnlyInGap
  <2>1. SUFFICES ASSUME faults = 0, NEW v \in Viewer, told[v] # "none",
                        NEW n \in (1..length) \ Seen(v)
                 PROVE  \/ n <= replayed[v] /\ n > Limit
                        \/ n > replayed[v] /\ (v \in heard => n <= subscribed[v] \/ v \in lagged)
    BY DEF MissedOnlyInGap
  <2>2. /\ ReplayInv(v) /\ StreamInv(v) /\ length \in Nat /\ Limit \in Nat
        /\ replayed[v] \in Nat /\ subscribed[v] \in Nat
    BY <1>1, Progress, TerminalAssumption DEF TerminalInv, TypeOK, ViewTypeOK
  <2>3. CASE n <= replayed[v]
    BY <2>1, <2>2, <2>3 DEF ReplayInv
  <2>4. CASE n > replayed[v]
    <3>1. v \in heard /\ v \notin lagged => n <= subscribed[v]
      BY <2>1, <2>2 DEF StreamInv
    <3> QED BY <2>4, <3>1
  <2> QED BY <2>2, <2>3, <2>4
<1> QED BY <1>1, AlwaysInv, PTL

(* Lines come in order, once by the replay and once by the channel, and     *)
(* twice only when stored before the replay and broadcast after it.         *)
THEOREM InOrder == Spec => []LinesInOrder
<1>1. ASSUME TerminalInv PROVE LinesInOrder
  <2>1. SUFFICES ASSUME NEW v \in Viewer
                 PROVE  LET replay == SubSeq(shown[v], 1, count[v])
                            rest == SubSeq(shown[v], count[v] + 1, Len(shown[v]))
                            Ascending(q) == \A i, j \in 1..Len(q) : i < j => q[i] < q[j]
                        IN /\ Ascending(replay) /\ Ascending(rest)
                           /\ Range(replay) \cap Range(rest) \subseteq subscribed[v] + 1 .. replayed[v]
    BY DEF LinesInOrder
  <2> DEFINE s == shown[v]
             c == count[v]
             L == Len(s)
  <2>2. /\ ReplayInv(v) /\ StreamInv(v) /\ s \in Seq(Lines) /\ c \in Nat /\ L \in Nat /\ c <= L
        /\ replayed[v] \in Nat /\ subscribed[v] \in Nat /\ Lines \subseteq Nat
    BY <1>1, LinesPositive DEF TerminalInv, TypeOK, ViewTypeOK, ReplayInv
  <2>3. \A i \in 1..L : s[i] \in Lines
    BY <2>2
  <2>4. PICK replay : replay = SubSeq(s, 1, c)
    OBVIOUS
  <2>5. PICK rest : rest = SubSeq(s, c + 1, L)
    OBVIOUS
  <2>6. /\ replay \in Seq(Lines) /\ Len(replay) = c
        /\ \A i \in 1..c : replay[i] = s[i]
    <3>1. /\ SubSeq(s, 1, c) \in Seq(Lines)
          /\ Len(SubSeq(s, 1, c)) = IF 1 <= c THEN c - 1 + 1 ELSE 0
          /\ \A i \in 1 .. c - 1 + 1 : SubSeq(s, 1, c)[i] = s[1 + i - 1]
      BY <2>2, <2>3, SubSeqProperties
    <3>2. c - 1 + 1 = c /\ (1 <= c \/ c = 0) /\ \A i \in 1..c : 1 + i - 1 = i
      BY <2>2
    <3> QED BY <2>4, <3>1, <3>2
  <2>7. /\ rest \in Seq(Lines) /\ Len(rest) = L - c
        /\ \A i \in 1..L - c : rest[i] = s[c + i]
    <3>1. /\ SubSeq(s, c + 1, L) \in Seq(Lines)
          /\ Len(SubSeq(s, c + 1, L)) = IF c + 1 <= L THEN L - (c + 1) + 1 ELSE 0
          /\ \A i \in 1 .. L - (c + 1) + 1 : SubSeq(s, c + 1, L)[i] = s[c + 1 + i - 1]
      <4>1. c + 1 \in Int /\ L \in Int /\ \A i \in c + 1 .. L : s[i] \in Lines
        BY <2>2, <2>3
      <4>2. PICK m \in Int : m = c + 1
        BY <4>1
      <4> HIDE DEF s, c, L
      <4>3. /\ SubSeq(s, m, L) \in Seq(Lines)
            /\ Len(SubSeq(s, m, L)) = IF m <= L THEN L - m + 1 ELSE 0
            /\ \A i \in 1 .. L - m + 1 : SubSeq(s, m, L)[i] = s[m + i - 1]
        BY <4>1, <4>2, SubSeqProperties
      <4> QED BY <4>2, <4>3, Zenon
    <3>2. /\ L - (c + 1) + 1 = L - c /\ (c + 1 <= L \/ L - c = 0)
          /\ \A i \in 1..L - c : c + 1 + i - 1 = c + i
      <4>1. ASSUME NEW a \in Nat, NEW b \in Nat, a <= b
            PROVE  /\ b - (a + 1) + 1 = b - a /\ (a + 1 <= b \/ b - a = 0)
                   /\ \A i \in 1..b - a : a + 1 + i - 1 = a + i
        <5>1. b - (a + 1) + 1 = b - a /\ (a + 1 <= b \/ b - a = 0)
          BY <4>1
        <5>2. \A i \in Int : a + 1 + i - 1 = a + i
          OBVIOUS
        <5> QED BY <5>1, <5>2
      <4>2. c \in Nat /\ L \in Nat /\ c <= L
        BY <2>2
      <4> HIDE DEF s, c, L
      <4> QED BY <4>1, <4>2
    <3> QED BY <2>5, <3>1, <3>2
  <2>8. \A i, j \in 1..c : i < j => replay[i] < replay[j]
    BY <2>2, <2>6 DEF ReplayInv
  <2>9. \A i \in 1..L - c : c + i \in Heard(v)
    BY <2>2 DEF Heard
  <2>10. \A i, j \in 1..L - c : i < j => rest[i] < rest[j]
    <3>1. \A i, j \in Heard(v) : i < j => s[i] < s[j]
      BY <2>2 DEF StreamInv
    <3>2. \A i, j \in 1..L - c : i < j => c + i < c + j
      BY <2>2
    <3> QED BY <2>7, <2>9, <3>1, <3>2
  <2>11. ASSUME NEW n \in Range(replay), n \in Range(rest)
         PROVE  n \in subscribed[v] + 1 .. replayed[v]
    <3>1. PICK i \in 1..c : n = s[i]
      BY <2>6 DEF Range
    <3>2. PICK j \in 1..L - c : n = s[c + j]
      BY <2>7, <2>11 DEF Range
    <3>3. n <= replayed[v]
      BY <2>2, <3>1 DEF ReplayInv
    <3>4. n \in subscribed[v] + 1 .. Broadcasted
      BY <2>2, <2>9, <3>2 DEF StreamInv
    <3>5. Broadcasted \in Nat
      BY <1>1, Progress DEF TerminalInv
    <3> QED BY <2>2, <3>3, <3>4, <3>5
  <2> QED BY <2>4, <2>5, <2>6, <2>7, <2>8, <2>10, <2>11
<1> QED BY <1>1, AlwaysInv, PTL

=============================================================================
