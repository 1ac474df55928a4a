----------------------------- MODULE WorkerPool -----------------------------
(***************************************************************************)
(* Who is online, as three parts of the master see it: the P2P loop with   *)
(* its connections, the scheduler with its online map, and the table       *)
(* workers.  Registration tasks write the table directly; everything else  *)
(* travels as events through the loop's channel and the fan-out task of    *)
(* main.rs, which has a channel to the scheduler and one to the updater of *)
(* the table.  The loop knows its bootstrap node (see Reconnect).          *)
(***************************************************************************)
EXTENDS Matcher, FiniteSets

CONSTANTS
  Worker,
  GpusOf,        \* the GPUs a worker reports when it registers
  TokenHolder,   \* workers with a valid WORKER_AUTH_TOKEN
  BadToken,      \* workers with one that is refused
  Uptime,        \* uptimes that heartbeats report
  Request,       \* what jobs ask for
  EventCap,      \* capacity of the loop's channel; 256 in the code
  SchedCap,      \* capacity of the scheduler's channel; 256 in the code
  DbCap,         \* capacity of the DB updater's channel; 256 in the code
  MaxLinks,      \* bound on the connections with a worker
  MaxChurn,      \* bound on the connections and unsubscriptions ever made
  MaxFaults,     \* bound on failed queries, restarts and disconnect requests
  Absent, NoEvent

Event == [kind : {"online", "offline"}, peer : Worker]
         \cup [kind : {"heartbeat"}, peer : Worker, uptime : Uptime]

ASSUME PoolAssumption == /\ IsFiniteSet(Worker) /\ GpusOf \in [Worker -> SUBSET Gpu]
                         /\ TokenHolder \cap BadToken = {}
                         /\ Uptime \subseteq 0..100 /\ Request \subseteq MatchRequest
                         /\ {EventCap, SchedCap, DbCap, MaxLinks, MaxChurn, MaxFaults} \subseteq Nat
                         /\ Absent \notin WorkerCandidate /\ NoEvent \notin Event

VARIABLES
  link,     \* the connections of the loop with a worker
  reg,      \* a worker's registration: "none", "task" (being verified), "ok", "failed"
  row,      \* is_online of a worker's row, or "none"
  events,   \* worker_tx
  schedEvents, \* the scheduler's channel
  hand,     \* the event that the fan-out still has to hand to the DB updater
  dbEvents, \* the DB updater's channel
  online,   \* the scheduler's map
  churn, faults,
  skewed,   \* history: rows written behind the events' back, or not written at all
  stale     \* history: workers whose Offline was dropped, or had something come after it

netVars == <<link, churn>>
feedVars == <<events, schedEvents, hand, dbEvents>>
histVars == <<skewed, stale>>
vars == <<netVars, reg, row, feedVars, online, faults, histVars>>

Fault == faults < MaxFaults /\ faults' = faults + 1
Room == Len(events) < EventCap

Init == /\ link = [w \in Worker |-> 0] /\ churn = 0
        /\ reg = [w \in Worker |-> "none"]
        /\ row = [w \in Worker |-> "none"]
        /\ events = <<>> /\ schedEvents = <<>> /\ hand = NoEvent /\ dbEvents = <<>>
        /\ online = [w \in Worker |-> Absent]
        /\ faults = 0
        /\ skewed = {} /\ stale = {}

-----------------------------------------------------------------------------
(* The P2P loop. *)

Connect(w) == /\ link[w] < MaxLinks /\ churn < MaxChurn
              /\ link' = [link EXCEPT ![w] = @ + 1]
              /\ churn' = churn + 1
              /\ UNCHANGED <<reg, row, feedVars, online, faults, histVars>>

(* try_send: a full channel drops the event. *)
TrySend(e) == events' = IF Room THEN Append(events, e) ELSE events

(* Offline, even if other connections with the worker remain. *)
Disconnect(w) ==
  /\ link[w] > 0
  /\ link' = [link EXCEPT ![w] = @ - 1]
  /\ TrySend([kind |-> "offline", peer |-> w])
  /\ stale' = IF Room THEN stale \ {w} ELSE stale \cup {w}
  /\ UNCHANGED <<churn, reg, row, schedEvents, hand, dbEvents, online, faults, skewed>>

(* Leaving the gossip topic says Offline too, of a worker that stays. *)
Unsubscribe(w) ==
  /\ link[w] > 0 /\ churn < MaxChurn
  /\ TrySend([kind |-> "offline", peer |-> w])
  /\ churn' = churn + 1
  /\ UNCHANGED <<link, reg, row, schedEvents, hand, dbEvents, online, faults, histVars>>

(* What comes from w now, by whatever way, if it is no longer connected. *)
ComesLate(w) == stale' = IF link[w] = 0 THEN stale \cup {w} ELSE stale

(* A heartbeat that finds room; one that does not changes nothing.  It is   *)
(* taken for its author's, whoever relays it: also of one who has left.     *)
Heartbeat(w, u) ==
  /\ Room
  /\ TrySend([kind |-> "heartbeat", peer |-> w, uptime |-> u])
  /\ ComesLate(w)
  /\ UNCHANGED <<netVars, reg, row, schedEvents, hand, dbEvents, online, faults, skewed>>

-----------------------------------------------------------------------------
(* Registration.  The worker asks as it likes; one task at a time.         *)

RegisterWorker(w) == /\ link[w] > 0 /\ reg[w] = "none"
                     /\ w \in TokenHolder \cup BadToken
                     /\ reg' = [reg EXCEPT ![w] = "task"]
                     /\ UNCHANGED <<netVars, row, feedVars, online, faults, histVars>>

(* The upsert, after the token was verified.  One whose answer is lost may  *)
(* have taken effect.                                                      *)
VerifyAndRegister(w) ==
  /\ reg[w] = "task"
  /\ \/ /\ w \in TokenHolder
        /\ row' = [row EXCEPT ![w] = "on"]
        /\ reg' = [reg EXCEPT ![w] = "ok"]
        /\ UNCHANGED <<faults, skewed>>
     \/ /\ w \in BadToken
        /\ reg' = [reg EXCEPT ![w] = "failed"]
        /\ UNCHANGED <<row, faults, skewed>>
     \/ /\ w \in TokenHolder /\ Fault
        /\ reg' = [reg EXCEPT ![w] = "failed"]
        /\ \/ UNCHANGED <<row, skewed>>
           \/ row' = [row EXCEPT ![w] = "on"] /\ skewed' = skewed \cup {w}
  /\ UNCHANGED <<netVars, feedVars, online, stale>>

(* Mutant: a registration that failed is announced too. *)
AnnounceAny(w) == reg[w] \in {"ok", "failed"}

Announced(w) == reg[w] = "ok"

(* The loop answers, and waits until the Online event finds room.  The     *)
(* worker may have left while its token was verified.                      *)
RegistrationResult(w) ==
  /\ reg[w] \in {"ok", "failed"}
  /\ IF Announced(w)
       THEN /\ Room
            /\ events' = Append(events, [kind |-> "online", peer |-> w])
            /\ ComesLate(w)
       ELSE UNCHANGED <<events, stale>>
  /\ reg' = [reg EXCEPT ![w] = "none"]
  /\ UNCHANGED <<netVars, row, schedEvents, hand, dbEvents, online, faults, skewed>>

-----------------------------------------------------------------------------
(* The fan-out, the scheduler and the DB updater. *)

Candidate(gpus, uptime) == [gpus |-> gpus, uptime_score |-> uptime, jobs_completed |-> 0,
                            is_busy |-> FALSE]

(* Mutant: a heartbeat of a worker that is not in the map is ignored.      *)
Ignore(w, u) == Absent

(* It comes back with default capabilities. *)
ReAdd(w, u) == Candidate({}, u)

(* Heartbeats always say idle, and no jobs completed. *)
SchedulerGets(e) ==
  LET w == e.peer IN
  online' = [online EXCEPT ![w] =
               CASE e.kind = "online" -> Candidate(GpusOf[w], 100)
                 [] e.kind = "offline" -> Absent
                 [] e.kind = "heartbeat" -> IF @ = Absent THEN ReAdd(w, e.uptime)
                                            ELSE [@ EXCEPT !.uptime_score = e.uptime]]

(* To the scheduler first, then to the updater; an event for which there is *)
(* no room yet stays in worker_tx.                                         *)
FanOut == /\ events # <<>> /\ hand = NoEvent /\ Len(schedEvents) < SchedCap
          /\ events' = Tail(events)
          /\ schedEvents' = Append(schedEvents, Head(events)) /\ hand' = Head(events)
          /\ UNCHANGED <<netVars, reg, row, dbEvents, online, faults, histVars>>

SchedulerEvent == /\ schedEvents # <<>>
                  /\ schedEvents' = Tail(schedEvents)
                  /\ SchedulerGets(Head(schedEvents))
                  /\ UNCHANGED <<netVars, reg, row, events, hand, dbEvents, faults, histVars>>

FanOutToDb == /\ hand # NoEvent /\ Len(dbEvents) < DbCap
              /\ dbEvents' = Append(dbEvents, hand) /\ hand' = NoEvent
              /\ UNCHANGED <<netVars, reg, row, events, schedEvents, online, faults, histVars>>

SetOnline(w, value) == [row EXCEPT ![w] = IF @ = "none" THEN @ ELSE value]

(* Mutant: a heartbeat does not set is_online. *)
SetsOnlineLess(e) == e.kind = "online"

SetsOnline(e) == e.kind \in {"online", "heartbeat"}

(* A failed query is logged. *)
DbUpdate ==
  /\ dbEvents # <<>>
  /\ dbEvents' = Tail(dbEvents)
  /\ LET e == Head(dbEvents)  w == e.peer IN
     \/ /\ row' = SetOnline(w, IF SetsOnline(e) THEN "on" ELSE "off")
        /\ skewed' = skewed \ {w}
        /\ UNCHANGED faults
     \/ /\ Fault
        /\ skewed' = skewed \cup {w}
        /\ UNCHANGED row
  /\ UNCHANGED <<netVars, reg, events, schedEvents, hand, online, stale>>

-----------------------------------------------------------------------------
(* disconnect_worker only writes the row: the Cancel it sends is a stub.   *)
DisconnectWorker(w) ==
  /\ Fault
  /\ row' = SetOnline(w, "off")
  /\ skewed' = skewed \cup {w}
  /\ UNCHANGED <<netVars, reg, feedVars, online, stale>>

(* mark_all_offline, before anything else starts. *)
MasterRestart ==
  /\ Fault
  /\ link' = [w \in Worker |-> 0] /\ UNCHANGED churn
  /\ reg' = [w \in Worker |-> "none"]
  /\ row' = [w \in Worker |-> IF row[w] = "none" THEN "none" ELSE "off"]
  /\ events' = <<>> /\ schedEvents' = <<>> /\ hand' = NoEvent /\ dbEvents' = <<>>
  /\ online' = [w \in Worker |-> Absent]
  /\ skewed' = {} /\ stale' = {}

-----------------------------------------------------------------------------
Next == \/ FanOut \/ SchedulerEvent \/ FanOutToDb \/ DbUpdate \/ MasterRestart
        \/ \E w \in Worker :
             \/ Connect(w) \/ Disconnect(w) \/ Unsubscribe(w) \/ RegisterWorker(w) \/ VerifyAndRegister(w)
             \/ RegistrationResult(w) \/ DisconnectWorker(w)
             \/ \E u \in Uptime : Heartbeat(w, u)

(* The tasks go on; a worker that stays connected finds room for one of    *)
(* its heartbeats now and then (they come every 30 seconds).               *)
Fairness == /\ WF_vars(FanOut) /\ WF_vars(SchedulerEvent) /\ WF_vars(FanOutToDb) /\ WF_vars(DbUpdate)
            /\ \A w \in Worker : /\ WF_vars(VerifyAndRegister(w))
                                 /\ SF_vars(RegistrationResult(w))
                                 /\ SF_vars(link[w] > 0 /\ \E u \in Uptime : Heartbeat(w, u))

Spec == Init /\ [][Next]_vars
FairSpec == Spec /\ Fairness

-----------------------------------------------------------------------------
(* The types; and whoever has capabilities in the map has a row.           *)
TypeOK ==
  /\ link \in [Worker -> 0..MaxLinks]
  /\ reg \in [Worker -> {"none", "task", "ok", "failed"}]
  /\ row \in [Worker -> {"none", "on", "off"}]
  /\ {events, schedEvents, dbEvents} \subseteq Seq(Event) /\ hand \in Event \cup {NoEvent}
  /\ online \in [Worker -> WorkerCandidate \cup {Absent}]
  /\ skewed \subseteq Worker /\ stale \subseteq Worker
  /\ \A w \in Worker : online[w] # Absent /\ online[w].gpus # {} => row[w] # "none"

Quiet == /\ events = <<>> /\ schedEvents = <<>> /\ hand = NoEvent /\ dbEvents = <<>>
         /\ \A w \in Worker : reg[w] # "ok"

(* With no event on its way, the table shows the workers the scheduler has *)
(* as online, also if both are wrong because events were dropped, but for  *)
(* rows that an administrator, a failed query or a registration whose      *)
(* answer was lost left behind; and the scheduler has no worker without a  *)
(* connection, but one whose Offline was dropped by a full channel, or had *)
(* the answer to its registration or a relayed heartbeat come after it.    *)
PoolsAgree ==
  Quiet => \A w \in Worker :
    /\ row[w] # "none" /\ w \notin skewed => (row[w] = "on" <=> online[w] # Absent)
    /\ online[w] # Absent /\ w \notin stale => link[w] > 0

(* A worker that stays connected is in the scheduler's pool for good,      *)
(* whatever events were dropped or came late before.                       *)
ComesOnline == \A w \in Worker : <>[](link[w] > 0) => <>[](online[w] # Absent)

Pool == {w \in Worker : online[w] # Absent}
Candidates == [w \in Pool |-> online[w]]
OneBackend(w) == \A g, h \in GpusOf[w] : g.backend = h.backend

(* A worker that is selected for a GPU job has a GPU with that backend and *)
(* enough memory, if its GPUs have one backend: also when the scheduler    *)
(* lost its capabilities and made some up.                                 *)
PickFits ==
  \A r \in Request : \A s \in select_workers(Candidates, r) : \A i \in DOMAIN s :
    r.required_backend # "CpuOnly" /\ OneBackend(s[i]) =>
      \E g \in GpusOf[s[i]] : g.backend = r.required_backend /\ g.vram_mb >= r.memory_limit_mb

-----------------------------------------------------------------------------
(* Why these hold: who is announced has a row, and the map has what was     *)
(* announced, or nothing of it;                                            *)
Announces(q, w) == \E i \in DOMAIN q : q[i].kind = "online" /\ q[i].peer = w
KnownInv(w) ==
  /\ reg[w] = "ok" \/ Announces(events, w) \/ Announces(schedEvents, w) => row[w] # "none"
  /\ online[w] # Absent => online[w].gpus \in {{}, GpusOf[w]}

NoneOf(q, w) == \A i \in DOMAIN q : q[i].peer # w
LastOf(q, w, i) == q[i].peer = w /\ \A k \in DOMAIN q : k > i => q[k].peer # w
Says(e, on) == on <=> e.kind # "offline"

(* what the fan-out said last of a worker is on its way to the map, or is   *)
(* what the map shows,                                                     *)
SchedSide(w, on) ==
  /\ \A i \in DOMAIN schedEvents : LastOf(schedEvents, w, i) => Says(schedEvents[i], on)
  /\ NoneOf(schedEvents, w) => (on <=> online[w] # Absent)

(* and is on its way to the table, or is what the row says, unless the row  *)
(* was made by a registration that is about to be announced;               *)
Handed(w) == hand # NoEvent /\ hand.peer = w
Announcing(w) == reg[w] = "ok" \/ Announces(events, w)
Shown(w, on) == \/ row[w] = "on" <=> on
                \/ row[w] = "on" /\ Announcing(w)
DbSide(w, on) ==
  IF Handed(w) THEN Says(hand, on)
  ELSE /\ \A i \in DOMAIN dbEvents : LastOf(dbEvents, w, i) => Says(dbEvents[i], on)
       /\ NoneOf(dbEvents, w) /\ row[w] # "none" /\ w \notin skewed => Shown(w, on)

FeedInv(w) == \E on \in BOOLEAN : SchedSide(w, on) /\ DbSide(w, on)

(* and whoever left goes offline with the events that are on their way.     *)
LinkInv(w) ==
  link[w] = 0 /\ w \notin stale =>
    /\ \A i \in DOMAIN events : LastOf(events, w, i) => events[i].kind = "offline"
    /\ NoneOf(events, w) => SchedSide(w, FALSE)

PoolInv == TypeOK /\ \A w \in Worker : KnownInv(w) /\ FeedInv(w) /\ LinkInv(w)
=============================================================================
