------------------------------ MODULE Terminal ------------------------------
(***************************************************************************)
(* Watching the output of one job: the completion task of the master's P2P *)
(* loop (p2p/handler.rs), which stores the lines, ends the job and then    *)
(* broadcasts the same lines; the WebSocket terminals (api/terminal.rs),   *)
(* which replay what is stored, look at the status and only then subscribe *)
(* to the broadcast; the one-shot log stream (api/logs.rs); and the        *)
(* download of a result (api/jobs.rs).                                     *)
(*                                                                         *)
(* The output is the lines 1..length, all of them non-empty.  `log_bus' has *)
(* an entry for the job while `entry' holds; the channel of that entry is  *)
(* open to the viewers in `open' and keeps `Capacity' messages for each.   *)
(***************************************************************************)
EXTENDS Integers, Sequences, FiniteSets, Functions

CONSTANTS Viewer,     \* WebSocket connections of the job's owner
          Length,     \* how many lines an output may have
          Limit,      \* lines a replay reads (10 000 in the code)
          Capacity,   \* of the broadcast channel (256 in the code)
          MaxFaults   \* bound on failed queries and restarts

ASSUME TerminalAssumption ==
    Length \subseteq Nat /\ Limit \in Nat /\ Capacity \in Nat \ {0} /\ MaxFaults \in Nat

VARIABLES status, stored,              \* jobs.status; the lines in job_logs
          task, next, length, outcome, \* the completion task and what it reports
          entry,                       \* log_bus has an entry for the job
          pc, shown, told,             \* a viewer: where its handler is, what it was sent
          open, live,                  \* its channel still has a sender; messages to receive
          stalled,                     \* clients that stay connected and read no more
          replayed, count,             \* history: how far the task had stored, and how many
                                       \* lines the viewer got, when it replayed;
          subscribed,                  \* how far the task had broadcast when it subscribed;
          lagged, heard,               \* viewers that lagged, and that got job_done live
          faults

jobVars == <<status, stored>>
taskVars == <<task, next, length, outcome>>
histVars == <<replayed, count, subscribed, lagged, heard>>
viewVars == <<pc, shown, told, open, live, stalled, histVars>>
vars == <<jobVars, taskVars, entry, viewVars, faults>>

Terminal == {"completed", "failed", "cancelled"}
JobDone == 0      \* the message job_done on the channel; the others are lines
Lines == UNION {1..n : n \in Length}

Init == /\ status = "assigned" /\ stored = {}
        /\ task = "none" /\ next = 1 /\ length = 0 /\ outcome = "none"
        /\ entry = FALSE
        /\ pc = [v \in Viewer |-> "away"]
        /\ shown = [v \in Viewer |-> <<>>]
        /\ told = [v \in Viewer |-> "none"]
        /\ open = {}
        /\ live = [v \in Viewer |-> <<>>]
        /\ stalled = {}
        /\ replayed = [v \in Viewer |-> 0] /\ count = [v \in Viewer |-> 0]
        /\ subscribed = [v \in Viewer |-> 0] /\ lagged = {} /\ heard = {}
        /\ faults = 0

JobTypeOK == /\ status \in Terminal \cup {"assigned"}
             /\ stored \subseteq 1..length /\ length \in Length \cup {0}
             /\ task \in {"none", "store", "broadcast", "remove", "ended"}
             /\ next \in 1..length + 1
             /\ outcome \in {"none", "completed", "failed"}
             /\ entry \in BOOLEAN
             /\ faults \in 0..MaxFaults

ViewTypeOK == /\ pc \in [Viewer -> {"away", "replay", "check", "subscribe", "loop", "ended"}]
              /\ shown \in [Viewer -> Seq(Lines)]
              /\ told \in [Viewer -> Terminal \cup {"none"}]
              /\ open \subseteq Viewer
              /\ live \in [Viewer -> Seq(Lines \cup {JobDone})]
              /\ stalled \subseteq Viewer
              /\ replayed \in [Viewer -> Nat] /\ count \in [Viewer -> Nat]
              /\ subscribed \in [Viewer -> Nat] /\ lagged \subseteq Viewer /\ heard \subseteq Viewer

TypeOK == JobTypeOK /\ ViewTypeOK

Fault == faults < MaxFaults /\ faults' = faults + 1

-----------------------------------------------------------------------------
(* The completion task.  A failed INSERT or UPDATE is logged and passed.   *)

(* JobCompleted arrives; the owner of the job may have cancelled it.       *)
Report(n, o) == /\ task = "none"
                /\ task' = "store" /\ length' = n /\ outcome' = o
                /\ UNCHANGED <<jobVars, next, entry, viewVars, faults>>

StoreLine == /\ task = "store" /\ next <= length
             /\ \/ stored' = stored \cup {next} /\ UNCHANGED faults
                \/ Fault /\ UNCHANGED stored
             /\ next' = next + 1
             /\ UNCHANGED <<status, task, length, outcome, entry, viewVars>>

(* Mutant: the update does not wait for the lines. *)
StoredAny == task = "store"

StoredAll == task = "store" /\ next > length

(* Mutant: the update happens after the broadcast, too late for the viewers. *)
UpdateLater == /\ StoredAll
               /\ task' = "broadcast" /\ next' = 1
               /\ UNCHANGED <<jobVars, length, outcome, entry, viewVars, faults>>

(* transition_status("assigned", ...) *)
UpdateStatus == /\ StoredAll
                /\ \/ /\ status' = IF status = "assigned" THEN outcome ELSE status
                      /\ UNCHANGED faults
                   \/ Fault /\ UNCHANGED status
                /\ task' = "broadcast" /\ next' = 1
                /\ UNCHANGED <<stored, length, outcome, entry, viewVars>>

Receivers == IF entry THEN open ELSE {}

(* A message for all receivers of the entry; the oldest one of a full      *)
(* channel is overwritten, and its receiver goes on with the next.         *)
Send(msg) ==
    /\ live' = [v \in Viewer |->
                  IF v \in Receivers
                    THEN LET q == Append(live[v], msg) IN IF Len(q) > Capacity THEN Tail(q) ELSE q
                    ELSE live[v]]
    /\ lagged' = lagged \cup {v \in Receivers : Len(live[v]) = Capacity}
    /\ UNCHANGED <<replayed, count, subscribed, heard>>

(* Mutant: the last line first. *)
BroadcastReversed == /\ task = "broadcast" /\ next <= length
                     /\ Send(length + 1 - next)
                     /\ next' = next + 1
                     /\ UNCHANGED <<jobVars, task, length, outcome, entry, pc, shown, told, open, stalled, faults>>

Broadcast == /\ task = "broadcast" /\ next <= length
             /\ Send(next)
             /\ next' = next + 1
             /\ UNCHANGED <<jobVars, task, length, outcome, entry, pc, shown, told, open, stalled, faults>>

BroadcastDone == /\ task = "broadcast" /\ next > length
                 /\ Send(JobDone)
                 /\ task' = "remove"
                 /\ UNCHANGED <<jobVars, next, length, outcome, entry, pc, shown, told, open, stalled, faults>>

(* log_bus.remove drops the sender: the channel is closed. *)
RemoveEntry == /\ task = "remove"
               /\ entry' = FALSE /\ open' = {}
               /\ task' = "ended"
               /\ UNCHANGED <<jobVars, next, length, outcome, pc, shown, told, live, stalled, histVars, faults>>

(* cancel_job, also of an assigned job. *)
Cancel == /\ status = "assigned"
          /\ status' = "cancelled"
          /\ UNCHANGED <<stored, taskVars, entry, viewVars, faults>>

-----------------------------------------------------------------------------
(* A terminal.  Every step awaits the database or the socket in between,   *)
(* and no send to the socket has a timeout: once the buffers to a client   *)
(* that reads no more are full, the handler stays in the send (of a        *)
(* replayed or live line, job_done or a ping), and nothing else of it runs. *)
(* A client that only reads slowly is a step that is taken later.          *)

(* Who asks is the owner; the socket is upgraded and welcomed. *)
WsTerminal(v) == /\ pc[v] = "away"
                 /\ pc' = [pc EXCEPT ![v] = "replay"]
                 /\ UNCHANGED <<jobVars, taskVars, entry, shown, told, open, live, stalled, histVars, faults>>

(* By time stamp, so in the order of the lines. *)
OldestFirst(q) == \A i, j \in DOMAIN q : i < j => q[i] < q[j]

(* get_logs_since(job, 0, Limit): the rows with fewer than Limit before    *)
(* them, as the one sequence that has them in order.                       *)
Rows == {n \in stored : Cardinality({k \in stored : k < n}) < Limit}
GetLogs == {q \in [1..Cardinality(Rows) -> Rows] : Range(q) = Rows /\ OldestFirst(q)}

(* How many lines the task has dealt with. *)
Handled == CASE task = "none" -> 0 [] task = "store" -> next - 1 [] OTHER -> length

Show(v, q) == /\ shown' = [shown EXCEPT ![v] = q]
              /\ replayed' = [replayed EXCEPT ![v] = Handled]
              /\ count' = [count EXCEPT ![v] = Len(q)]
              /\ UNCHANGED <<subscribed, lagged, heard>>

Replay(v) == /\ pc[v] = "replay"
             /\ v \notin stalled
             /\ \/ \E q \in GetLogs : Show(v, q) /\ UNCHANGED faults
                \/ Fault /\ Show(v, <<>>)
             /\ pc' = [pc EXCEPT ![v] = "check"]
             /\ UNCHANGED <<jobVars, taskVars, entry, told, open, live, stalled>>

End(v) == /\ pc' = [pc EXCEPT ![v] = "ended"]
          /\ open' = open \ {v} /\ stalled' = stalled \ {v}
Tell(v) == told' = [told EXCEPT ![v] = status]

CheckStatus(v) ==
    /\ pc[v] = "check"
    /\ \/ status \in Terminal /\ v \notin stalled /\ Tell(v) /\ End(v) /\ UNCHANGED faults
       \/ /\ status \notin Terminal
          /\ pc' = [pc EXCEPT ![v] = "subscribe"] /\ UNCHANGED <<told, open, stalled, faults>>
       \/ /\ Fault    \* "unknown" is no terminal status
          /\ pc' = [pc EXCEPT ![v] = "subscribe"] /\ UNCHANGED <<told, open, stalled>>
    /\ UNCHANGED <<jobVars, taskVars, entry, shown, live, histVars>>

Broadcasted == CASE task \in {"none", "store"} -> 0
                 [] task = "broadcast" -> next - 1
                 [] OTHER -> length

(* entry(..).or_insert_with(..).subscribe(): also after the task removed it. *)
Subscribe(v) == /\ pc[v] = "subscribe"
                /\ entry' = TRUE /\ open' = open \cup {v}
                /\ subscribed' = [subscribed EXCEPT ![v] = Broadcasted]
                /\ pc' = [pc EXCEPT ![v] = "loop"]
                /\ UNCHANGED <<jobVars, taskVars, shown, told, live, stalled, replayed, count, lagged, heard, faults>>

(* A message goes to the client; job_done does not end the loop yet. *)
Receive(v) ==
    /\ pc[v] = "loop" /\ live[v] # <<>> /\ v \notin stalled
    /\ IF Head(live[v]) = JobDone
         THEN /\ told' = [told EXCEPT ![v] = outcome]
              /\ heard' = heard \cup {v}
              /\ UNCHANGED shown
         ELSE /\ shown' = [shown EXCEPT ![v] = Append(@, Head(live[v]))]
              /\ UNCHANGED <<told, heard>>
    /\ live' = [live EXCEPT ![v] = Tail(@)]
    /\ UNCHANGED <<jobVars, taskVars, entry, pc, open, stalled, replayed, count, subscribed, lagged, faults>>

Closed(v) == /\ pc[v] = "loop" /\ live[v] = <<>> /\ v \notin open
             /\ End(v)
             /\ UNCHANGED <<jobVars, taskVars, entry, shown, told, live, histVars, faults>>

(* Mutant: only a keepalive. *)
TickPing(v) == FALSE /\ UNCHANGED vars

(* Mutant: the status is not looked at. *)
TickAlways(v) == /\ pc[v] = "loop"
                 /\ Tell(v) /\ End(v)
                 /\ live' = [live EXCEPT ![v] = <<>>]
                 /\ UNCHANGED <<jobVars, taskVars, entry, shown, histVars, faults>>

(* The 15 s ticker: a status that is not terminal, or not read, changes    *)
(* nothing; else the handler ends, and what it has not received is gone.   *)
Tick(v) == /\ pc[v] = "loop"
           /\ status \in Terminal /\ v \notin stalled
           /\ Tell(v) /\ End(v)
           /\ live' = [live EXCEPT ![v] = <<>>]
           /\ UNCHANGED <<jobVars, taskVars, entry, shown, histVars, faults>>

(* The client closes, or a send to it fails: at any point of the handler. *)
Leave(v) == /\ pc[v] \notin {"away", "ended"}
            /\ End(v)
            /\ live' = [live EXCEPT ![v] = <<>>]
            /\ UNCHANGED <<jobVars, taskVars, entry, shown, told, histVars, faults>>

(* The client of a terminal reads no more, but stays connected. *)
StopReading(v) == /\ pc[v] \notin {"away", "ended"} /\ v \notin stalled
                  /\ stalled' = stalled \cup {v}
                  /\ UNCHANGED <<jobVars, taskVars, entry, pc, shown, told, open, live, histVars, faults>>

(* stream_logs: the stored lines once, as server-sent events. *)
StreamLogs(v) == /\ pc[v] = "away"
                 /\ \E q \in GetLogs : Show(v, q)
                 /\ End(v)
                 /\ UNCHANGED <<jobVars, taskVars, entry, told, live, faults>>

(* download_result: the same lines as a text file, only of a completed job. *)
(* Nothing in the code writes the files it would prefer to them.           *)
DownloadResult(v) == /\ pc[v] = "away" /\ status = "completed"
                     /\ Tell(v) /\ End(v)
                     /\ \E q \in GetLogs : Show(v, q)
                     /\ UNCHANGED <<jobVars, taskVars, entry, live, faults>>

(* The master restarts: tasks, sockets and log_bus are gone, a report is    *)
(* not sent again.                                                         *)
Restart == /\ Fault
           /\ task' = IF task = "none" THEN "none" ELSE "ended"
           /\ entry' = FALSE /\ open' = {} /\ stalled' = {}
           /\ pc' = [v \in Viewer |-> IF pc[v] = "away" THEN "away" ELSE "ended"]
           /\ live' = [v \in Viewer |-> <<>>]
           /\ UNCHANGED <<jobVars, next, length, outcome, shown, told, histVars>>

TaskStep == StoreLine \/ UpdateStatus \/ Broadcast \/ BroadcastDone \/ RemoveEntry

Handler(v) == Replay(v) \/ CheckStatus(v) \/ Subscribe(v) \/ Receive(v) \/ Closed(v)

Next == \/ \E n \in Length, o \in {"completed", "failed"} : Report(n, o)
        \/ TaskStep
        \/ Cancel
        \/ Restart
        \/ \E v \in Viewer : \/ WsTerminal(v) \/ StreamLogs(v) \/ DownloadResult(v)
                             \/ Leave(v) \/ StopReading(v)
                             \/ Handler(v) \/ Tick(v)

Spec == Init /\ [][Next]_vars

(* The runtime schedules the task and the handlers; a handler that has     *)
(* nothing else to do in its loop gets the tick.  A client that reads lets *)
(* every send of its handler end; who does not is in `stalled'.            *)
FairSpec == /\ Spec
            /\ WF_vars(TaskStep)
            /\ \A v \in Viewer : WF_vars(Handler(v) \/ Tick(v))

-----------------------------------------------------------------------------
Seen(v) == Range(shown[v])

(* Without faults, a viewer that was told the job is done misses a line    *)
(* that was stored before its replay only beyond the limit: who connects   *)
(* after the status has changed misses none.  A viewer told by the channel *)
(* misses a later line only if it was broadcast before the subscription or *)
(* overwritten; one told by the status check or the ticker may miss it.    *)
MissedOnlyInGap ==
    faults = 0 =>
    \A v \in Viewer : told[v] # "none" =>
      \A n \in (1..length) \ Seen(v) :
         \/ n <= replayed[v] /\ n > Limit
         \/ n > replayed[v] /\ (v \in heard => n <= subscribed[v] \/ v \in lagged)

(* The lines come in order, at most once from the replay and once from the *)
(* broadcast; twice only those that were stored before the replay and      *)
(* broadcast after the subscription.                                       *)
LinesInOrder ==
    \A v \in Viewer :
      LET replay == SubSeq(shown[v], 1, count[v])
          rest == SubSeq(shown[v], count[v] + 1, Len(shown[v]))
          Ascending(q) == \A i, j \in 1..Len(q) : i < j => q[i] < q[j]
      IN /\ Ascending(replay) /\ Ascending(rest)
         /\ Range(replay) \cap Range(rest) \subseteq subscribed[v] + 1 .. replayed[v]

(* Nobody is told that the job is done before it is, and then what the row *)
(* says, unless the job was cancelled while it ran.                        *)
DoneMeansOver ==
    faults = 0 =>
    \A v \in Viewer : told[v] # "none" =>
       status \in Terminal /\ (told[v] = status \/ status = "cancelled")

(* Why these hold: the task stores, ends the job, and broadcasts;           *)
TaskInv ==
    /\ task = "none" => next = 1 /\ length = 0 /\ outcome = "none"
    /\ task # "none" => outcome # "none"
    /\ task \in {"none", "store"} => status \in {"assigned", "cancelled"}
    /\ stored \subseteq 1..Handled
    /\ faults = 0 => stored = 1..Handled
    /\ faults = 0 /\ task \notin {"none", "store"} => status \in {outcome, "cancelled"}

(* who is in the loop has an open channel until the task removes it;        *)
ChannelInv ==
    /\ open # {} => entry
    /\ \A v \in Viewer : Len(live[v]) <= Capacity /\ (v \in open => pc[v] = "loop")
    /\ faults = 0 /\ task # "ended" => \A v \in Viewer : pc[v] = "loop" => v \in open

(* before that a viewer has only what was replayed to it;                   *)
FreshInv(v) ==
    /\ pc[v] \in {"away", "replay"} => told[v] = "none" /\ shown[v] = <<>>
    /\ pc[v] \in {"away", "replay", "check", "subscribe"} =>
         live[v] = <<>> /\ v \notin heard /\ Len(shown[v]) = count[v]

(* the replay is in order, and was stored when it was read;                 *)
ReplayInv(v) ==
    /\ count[v] <= Len(shown[v])
    /\ \A i \in 1..count[v] : shown[v][i] <= replayed[v]
    /\ \A i, j \in 1..count[v] : i < j => shown[v][i] < shown[v][j]
    /\ faults = 0 /\ (told[v] # "none" \/ pc[v] \in {"check", "subscribe", "loop"}) =>
         \A n \in 1..replayed[v] : n <= Limit => n \in Seen(v)

(* what came by the channel, and what is still in it, is in order and was   *)
(* broadcast after the subscription; job_done is the last message, and      *)
(* nothing broadcast is missing if the viewer did not lag.                  *)
Heard(v) == count[v] + 1 .. Len(shown[v])
StreamInv(v) ==
    /\ subscribed[v] <= Broadcasted
    /\ \A i \in Heard(v) : shown[v][i] \in subscribed[v] + 1 .. Broadcasted
    /\ \A i, j \in Heard(v) : i < j => shown[v][i] < shown[v][j]
    /\ \A k \in DOMAIN live[v] :
         IF live[v][k] = JobDone THEN k = Len(live[v]) /\ task \in {"remove", "ended"}
                                 ELSE live[v][k] \in subscribed[v] + 1 .. Broadcasted
    /\ \A k, l \in DOMAIN live[v] : k < l /\ live[v][l] # JobDone => live[v][k] < live[v][l]
    /\ \A i \in Heard(v), k \in DOMAIN live[v] : live[v][k] # JobDone => shown[v][i] < live[v][k]
    /\ faults = 0 /\ pc[v] = "loop" /\ v \notin lagged =>
         \A n \in subscribed[v] + 1 .. Broadcasted : n \in Seen(v) \/ n \in Range(live[v])
    /\ v \in heard => task \in {"remove", "ended"} /\ live[v] = <<>>
    /\ v \in heard /\ faults = 0 /\ v \notin lagged =>
         \A n \in subscribed[v] + 1 .. length : n \in Seen(v)

TerminalInv == /\ TypeOK /\ TaskInv /\ ChannelInv
               /\ DoneMeansOver
               /\ \A v \in Viewer : FreshInv(v) /\ ReplayInv(v) /\ StreamInv(v)

(* Once the job is over, every terminal ends, also one that subscribed     *)
(* after the broadcast and one whose channel entry nobody will remove,     *)
(* unless its client has stopped reading: its handler may wait for ever.   *)
ViewersEnd == \A v \in Viewer :
    status \in Terminal /\ pc[v] \in {"replay", "check", "subscribe", "loop"}
      ~> pc[v] = "ended" \/ v \in stalled
=============================================================================
