------------------------- MODULE WorkerPool_proofs -------------------------
(***************************************************************************)
(* What WorkerPool guarantees for any finite set of workers, whatever GPUs *)
(* they have, every capacity of the channels, and any number of            *)
(* connections, heartbeats and faults.                                     *)
(***************************************************************************)
EXTENDS WorkerPool, FiniteSetTheorems, SequenceTheorems, TLAPS

-----------------------------------------------------------------------------
(* The channels *)

(* What is in a channel after an event was appended, *)
LEMMA Appended ==
  ASSUME NEW s \in Seq(Event), NEW e \in Event, NEW t, t = Append(s, e)
  PROVE  /\ DOMAIN t = 1..Len(s) + 1 /\ DOMAIN s = 1..Len(s)
         /\ t[Len(s) + 1] = e
         /\ \A i \in 1..Len(s) : t[i] = s[i]
         /\ \A i \in 1..Len(s) : i \in 1..Len(s) + 1 /\ i < Len(s) + 1
         /\ \A i \in 1..Len(s) + 1 : i = Len(s) + 1 \/ i \in 1..Len(s)
         /\ Len(s) + 1 \in 1..Len(s) + 1
<1>1. /\ DOMAIN t = 1..Len(s) + 1 /\ DOMAIN s = 1..Len(s) /\ Len(s) \in Nat
      /\ t[Len(s) + 1] = e
  OBVIOUS
<1>2. \A i \in 1..Len(s) : t[i] = s[i]
  OBVIOUS
<1>3. /\ \A i \in 1..Len(s) : i \in 1..Len(s) + 1 /\ i < Len(s) + 1
      /\ \A i \in 1..Len(s) + 1 : i = Len(s) + 1 \/ i \in 1..Len(s)
      /\ Len(s) + 1 \in 1..Len(s) + 1
  BY <1>1
<1> QED BY <1>1, <1>2, <1>3, Zenon

(* it is that event, or was there before, *)
LEMMA OldOrNew ==
  ASSUME NEW s \in Seq(Event), NEW e \in Event, NEW t, t = Append(s, e)
  PROVE  /\ \A i \in DOMAIN t : t[i] = e \/ (i \in DOMAIN s /\ t[i] = s[i])
         /\ \A i \in DOMAIN s : i \in DOMAIN t /\ t[i] = s[i]
         /\ \E i \in DOMAIN t : t[i] = e
BY Appended

LEMMA NoneAppended ==
  ASSUME NEW s \in Seq(Event), NEW e \in Event, NEW t, t = Append(s, e), NEW w, NoneOf(t, w)
  PROVE  NoneOf(s, w) /\ e.peer # w
BY OldOrNew DEF NoneOf

(* and it is the last one of its worker, *)
LEMMA LastAppended ==
  ASSUME NEW s \in Seq(Event), NEW e \in Event, NEW t, t = Append(s, e), NEW w,
         NEW i \in DOMAIN t, LastOf(t, w, i)
  PROVE  \/ e.peer = w /\ t[i] = e
         \/ e.peer # w /\ i \in DOMAIN s /\ LastOf(s, w, i) /\ t[i] = s[i]
<1>1. CASE i = Len(s) + 1
  BY <1>1, Appended DEF LastOf
<1>2. CASE i \in 1..Len(s)
  <2>1. e.peer # w
    BY <1>2, Appended DEF LastOf
  <2>2. LastOf(s, w, i)
    BY <1>2, Appended DEF LastOf
  <2> QED BY <1>2, <2>1, <2>2, Appended
<1> QED BY <1>1, <1>2, Appended

(* and the last one that is left was the last one before. *)
LEMMA LastOfTail ==
  ASSUME NEW S, NEW s \in Seq(S), s # <<>>, NEW w
  PROVE  /\ Head(s) \in S /\ 1 \in DOMAIN s /\ s[1] = Head(s)
         /\ Tail(s) \in Seq(S)
         /\ NoneOf(Tail(s), w) => NoneOf(s, w) \/ LastOf(s, w, 1)
         /\ NoneOf(Tail(s), w) /\ Head(s).peer # w => NoneOf(s, w)
         /\ \A i \in DOMAIN Tail(s) : /\ i + 1 \in DOMAIN s /\ Tail(s)[i] = s[i + 1]
                                      /\ LastOf(Tail(s), w, i) => LastOf(s, w, i + 1)
         /\ \A i \in DOMAIN s : i = 1 \/ (i - 1 \in DOMAIN Tail(s) /\ Tail(s)[i - 1] = s[i])
<1>1. PICK t : t = Tail(s)
  OBVIOUS
<1>2. /\ Head(s) \in S /\ s[1] = Head(s) /\ t \in Seq(S) /\ Len(s) \in Nat \ {0}
      /\ DOMAIN s = 1..Len(s) /\ DOMAIN t = 1..Len(s) - 1
  BY <1>1, EmptySeq, HeadTailProperties
<1>3. \A i \in 1..Len(s) - 1 : t[i] = s[i + 1]
  BY <1>1, <1>2
<1>4. /\ 1 \in 1..Len(s)
      /\ \A i \in 1..Len(s) - 1 : i + 1 \in 1..Len(s)
      /\ \A i \in 1..Len(s) : i = 1 \/ (i - 1 \in 1..Len(s) - 1 /\ (i - 1) + 1 = i)
      /\ \A i \in 1..Len(s) - 1, k \in 1..Len(s) : k > i + 1 => k - 1 > i /\ k # 1
  BY <1>2
<1>5. \A k \in DOMAIN s : k = 1 \/ (k - 1 \in DOMAIN t /\ t[k - 1] = s[k])
  BY <1>2, <1>3, <1>4, Zenon
<1>6. NoneOf(t, w) => \A k \in DOMAIN s : k = 1 \/ s[k].peer # w
  BY <1>5, Zenon DEF NoneOf
<1>7. \A k \in DOMAIN s : k > 1 => k # 1
  BY <1>2
<1>8. /\ NoneOf(t, w) => NoneOf(s, w) \/ LastOf(s, w, 1)
      /\ NoneOf(t, w) /\ Head(s).peer # w => NoneOf(s, w)
  BY <1>2, <1>6, <1>7, Zenon DEF NoneOf, LastOf
<1>9. ASSUME NEW i \in DOMAIN t, LastOf(t, w, i) PROVE LastOf(s, w, i + 1)
  <2>1. s[i + 1].peer = w
    BY <1>2, <1>3, <1>9, Zenon DEF LastOf
  <2>2. ASSUME NEW k \in DOMAIN s, k > i + 1 PROVE s[k].peer # w
    <3>1. k - 1 > i /\ k - 1 \in DOMAIN t /\ t[k - 1] = s[k]
      BY <1>2, <1>4, <1>5, <2>2, Zenon
    <3> QED BY <1>9, <3>1, Zenon DEF LastOf
  <2> QED BY <2>1, <2>2 DEF LastOf
<1>10. \A i \in DOMAIN t : i + 1 \in DOMAIN s /\ t[i] = s[i + 1]
  BY <1>2, <1>3, <1>4, Zenon
<1>11. 1 \in DOMAIN s
  BY <1>2, <1>4, Zenon
<1> QED BY <1>1, <1>2, <1>5, <1>8, <1>9, <1>10, <1>11, Zenon

LEMMA LastLeft ==
  ASSUME NEW s \in Seq(Event), s # <<>>, NEW t, t = Tail(s), NEW w, NEW i \in DOMAIN t, LastOf(t, w, i)
  PROVE  i + 1 \in DOMAIN s /\ t[i] = s[i + 1] /\ LastOf(s, w, i + 1)
BY LastOfTail

(* A registration that is announced in a channel, *)
LEMMA AnnouncesAppended ==
  ASSUME NEW s \in Seq(Event), NEW e \in Event, NEW t, t = Append(s, e), NEW w
  PROVE  Announces(t, w) <=> Announces(s, w) \/ (e.kind = "online" /\ e.peer = w)
BY OldOrNew DEF Announces

(* and one whose announcement leaves it. *)
LEMMA AnnouncesTail ==
  ASSUME NEW s \in Seq(Event), s # <<>>, NEW t, t = Tail(s), NEW w
  PROVE  Announces(s, w) <=> Announces(t, w) \/ (Head(s).kind = "online" /\ Head(s).peer = w)
<1>1. /\ 1 \in DOMAIN s /\ s[1] = Head(s)
      /\ \A i \in DOMAIN t : i + 1 \in DOMAIN s /\ t[i] = s[i + 1]
      /\ \A i \in DOMAIN s : i = 1 \/ (i - 1 \in DOMAIN t /\ t[i - 1] = s[i])
  BY LastOfTail
<1>2. ASSUME Announces(t, w) PROVE Announces(s, w)
  <2>1. PICK i \in DOMAIN t : t[i].kind = "online" /\ t[i].peer = w
    BY <1>2 DEF Announces
  <2>2. i + 1 \in DOMAIN s /\ s[i + 1].kind = "online" /\ s[i + 1].peer = w
    BY <1>1, <2>1
  <2> QED BY <2>2 DEF Announces
<1>3. ASSUME Head(s).kind = "online", Head(s).peer = w PROVE Announces(s, w)
  BY <1>1, <1>3, Zenon DEF Announces
<1>4. ASSUME Announces(s, w), ~(Head(s).kind = "online" /\ Head(s).peer = w) PROVE Announces(t, w)
  <2>1. PICK i \in DOMAIN s : s[i].kind = "online" /\ s[i].peer = w
    BY <1>4 DEF Announces
  <2>2. i - 1 \in DOMAIN t /\ t[i - 1] = s[i]
    <3>1. i # 1
      BY <1>1, <1>4, <2>1
    <3> QED BY <1>1, <3>1
  <2> QED BY <2>1, <2>2 DEF Announces
<1> QED BY <1>2, <1>3, <1>4

-----------------------------------------------------------------------------
(* Types *)

(* An event is about a worker, and what it does to the map is a candidate. *)
LEMMA EventFacts ==
  ASSUME NEW e \in Event
  PROVE  /\ e.peer \in Worker /\ e.kind \in {"online", "offline", "heartbeat"}
         /\ e.kind = "heartbeat" => e.uptime \in 0..100
BY PoolAssumption DEF Event

LEMMA NewEvents ==
  ASSUME NEW w \in Worker
  PROVE  /\ [kind |-> "online", peer |-> w] \in Event /\ [kind |-> "offline", peer |-> w] \in Event
         /\ \A u \in Uptime : [kind |-> "heartbeat", peer |-> w, uptime |-> u] \in Event
BY DEF Event

LEMMA Candidates100 ==
  ASSUME NEW gpus \in SUBSET Gpu, NEW u \in 0..100
  PROVE  /\ Candidate(gpus, u) \in WorkerCandidate /\ Candidate(gpus, u) # Absent
         /\ Candidate(gpus, u).gpus = gpus
<1>1. Candidate(gpus, u) \in WorkerCandidate /\ Candidate(gpus, u).gpus = gpus
  BY DEF Candidate, WorkerCandidate
<1> QED BY <1>1, PoolAssumption

(* The map after an event: only its worker's entry changes, *)
LEMMA MapStep ==
  ASSUME TypeOK, NEW e \in Event, SchedulerGets(e)
  PROVE  /\ online' \in [Worker -> WorkerCandidate \cup {Absent}]
         /\ \A w \in Worker : w # e.peer => online'[w] = online[w]
         /\ online'[e.peer] # Absent <=> e.kind # "offline"
         /\ online'[e.peer] # Absent =>
              \/ online'[e.peer].gpus = {}
              \/ e.kind = "online" /\ online'[e.peer].gpus = GpusOf[e.peer]
              \/ online[e.peer] # Absent /\ online'[e.peer].gpus = online[e.peer].gpus
<1>1. /\ e.peer \in Worker /\ e.kind \in {"online", "offline", "heartbeat"}
      /\ e.kind = "heartbeat" => e.uptime \in 0..100
      /\ online \in [Worker -> WorkerCandidate \cup {Absent}]
      /\ GpusOf[e.peer] \in SUBSET Gpu
  BY EventFacts, PoolAssumption DEF TypeOK
<1>2. CASE e.kind = "online"
  <2>1. PICK c \in WorkerCandidate : /\ c = Candidate(GpusOf[e.peer], 100) /\ c # Absent
                                     /\ c.gpus = GpusOf[e.peer]
    BY <1>1, Candidates100
  <2>2. online' = [online EXCEPT ![e.peer] = c]
    BY <1>2, <2>1 DEF SchedulerGets
  <2> QED BY <1>1, <1>2, <2>1, <2>2
<1>3. CASE e.kind = "offline"
  <2>1. online' = [online EXCEPT ![e.peer] = Absent]
    BY <1>3 DEF SchedulerGets
  <2> QED BY <1>1, <1>3, <2>1
<1>4. CASE e.kind = "heartbeat" /\ online[e.peer] = Absent
  <2>1. PICK c \in WorkerCandidate : c = Candidate({}, e.uptime) /\ c # Absent /\ c.gpus = {}
    BY <1>1, <1>4, Candidates100
  <2>2. online' = [online EXCEPT ![e.peer] = c]
    BY <1>4, <2>1 DEF SchedulerGets, ReAdd
  <2> QED BY <1>1, <1>4, <2>1, <2>2
<1>5. CASE e.kind = "heartbeat" /\ online[e.peer] # Absent
  <2>1. PICK c : c = [online[e.peer] EXCEPT !.uptime_score = e.uptime]
    OBVIOUS
  <2>2. online[e.peer] \in WorkerCandidate
    BY <1>1, <1>5
  <2>3. c \in WorkerCandidate /\ c.gpus = online[e.peer].gpus
    BY <1>1, <1>5, <2>1, <2>2 DEF WorkerCandidate
  <2>4. online' = [online EXCEPT ![e.peer] = c]
    BY <1>5, <2>1 DEF SchedulerGets
  <2>5. c # Absent
    BY <2>3, PoolAssumption
  <2> QED BY <1>1, <1>5, <2>3, <2>4, <2>5
<1> QED BY <1>1, <1>2, <1>3, <1>4, <1>5

(* and the row of a worker is made by its registration, and stays. *)
LEMMA RowStep ==
  ASSUME TypeOK, NEW w \in Worker, NEW value \in {"on", "off"}, row' = SetOnline(w, value)
  PROVE  /\ row' \in [Worker -> {"none", "on", "off"}]
         /\ \A x \in Worker : (row'[x] = "none") = (row[x] = "none")
         /\ \A x \in Worker \ {w} : row'[x] = row[x]
         /\ row[w] # "none" => row'[w] = value
BY DEF TypeOK, SetOnline

Known(w) == online[w] # Absent /\ online[w].gpus # {} => row[w] # "none"

LEMMA StepTypes ==
  ASSUME TypeOK, \A w \in Worker : KnownInv(w), Next
  PROVE  TypeOK'
<1>1. /\ link \in [Worker -> 0..MaxLinks] /\ MaxLinks \in Nat
      /\ reg \in [Worker -> {"none", "task", "ok", "failed"}]
      /\ row \in [Worker -> {"none", "on", "off"}]
      /\ events \in Seq(Event) /\ schedEvents \in Seq(Event) /\ dbEvents \in Seq(Event)
      /\ hand \in Event \cup {NoEvent}
      /\ online \in [Worker -> WorkerCandidate \cup {Absent}]
      /\ skewed \subseteq Worker /\ stale \subseteq Worker
      /\ \A w \in Worker : Known(w)
  BY PoolAssumption DEF TypeOK, Known
<1> USE DEF netVars, feedVars, histVars
<1>2. ASSUME NEW w \in Worker, Connect(w) \/ RegisterWorker(w) PROVE TypeOK'
  <2>1. link' \in [Worker -> 0..MaxLinks]
    <3>1. CASE Connect(w)
      <4>1. link[w] + 1 \in 0..MaxLinks /\ link' = [link EXCEPT ![w] = link[w] + 1]
        BY <1>1, <3>1 DEF Connect
      <4> QED BY <1>1, <4>1
    <3>2. CASE RegisterWorker(w)
      BY <1>1, <3>2 DEF RegisterWorker
    <3> QED BY <1>2, <3>1, <3>2
  <2>2. reg' \in [Worker -> {"none", "task", "ok", "failed"}]
    BY <1>1, <1>2 DEF Connect, RegisterWorker
  <2> QED BY <1>1, <1>2, <2>1, <2>2 DEF Connect, RegisterWorker, TypeOK, Known
<1>3. ASSUME NEW w \in Worker, Disconnect(w) PROVE TypeOK'
  <2>1. PICK e \in Event : e = [kind |-> "offline", peer |-> w]
    BY NewEvents
  <2>2. events' = events \/ events' = Append(events, e)
    BY <1>3, <2>1 DEF Disconnect, TrySend
  <2>3. events' \in Seq(Event)
    <3>1. Append(events, e) \in Seq(Event)
      BY <1>1, AppendProperties
    <3> QED BY <1>1, <2>2, <3>1
  <2>4. link' \in [Worker -> 0..MaxLinks]
    BY <1>1, <1>3 DEF Disconnect
  <2>5. stale' \subseteq Worker
    BY <1>1, <1>3 DEF Disconnect
  <2> QED BY <1>1, <1>3, <2>3, <2>4, <2>5 DEF Disconnect, TypeOK, Known
<1>12. ASSUME NEW w \in Worker, Unsubscribe(w) PROVE TypeOK'
  <2>1. PICK e \in Event : e = [kind |-> "offline", peer |-> w]
    BY NewEvents
  <2>2. events' = events \/ events' = Append(events, e)
    BY <1>12, <2>1 DEF Unsubscribe, TrySend
  <2>3. events' \in Seq(Event)
    <3>1. Append(events, e) \in Seq(Event)
      BY <1>1, AppendProperties
    <3> QED BY <1>1, <2>2, <3>1
  <2> QED BY <1>1, <1>12, <2>3 DEF Unsubscribe, TypeOK, Known
<1>4. ASSUME NEW w \in Worker, NEW u \in Uptime, Heartbeat(w, u) PROVE TypeOK'
  <2>1. PICK e \in Event : e = [kind |-> "heartbeat", peer |-> w, uptime |-> u]
    BY NewEvents
  <2>2. events' = events \/ events' = Append(events, e)
    BY <1>4, <2>1 DEF Heartbeat, TrySend
  <2>3. events' \in Seq(Event)
    <3>1. Append(events, e) \in Seq(Event)
      BY <1>1, AppendProperties
    <3> QED BY <1>1, <2>2, <3>1
  <2>4. stale' \subseteq Worker
    BY <1>1, <1>4 DEF Heartbeat, ComesLate
  <2> QED BY <1>1, <1>4, <2>3, <2>4 DEF Heartbeat, TypeOK, Known
<1>5. ASSUME NEW w \in Worker, VerifyAndRegister(w) PROVE TypeOK'
  <2>1. row' = [row EXCEPT ![w] = "on"] \/ row' = row
    BY <1>5 DEF VerifyAndRegister
  <2>2. /\ row' \in [Worker -> {"none", "on", "off"}]
        /\ \A x \in Worker : row[x] # "none" => row'[x] # "none"
    BY <1>1, <2>1
  <2>3. reg' \in [Worker -> {"none", "task", "ok", "failed"}]
    BY <1>1, <1>5 DEF VerifyAndRegister
  <2>4. UNCHANGED <<link, events, schedEvents, hand, dbEvents, online, stale>>
    BY <1>5 DEF VerifyAndRegister
  <2>5. \A x \in Worker : Known(x)'
    BY <1>1, <2>2, <2>4 DEF Known
  <2>6. skewed' \subseteq Worker
    BY <1>1, <1>5 DEF VerifyAndRegister
  <2> QED BY <1>1, <2>2, <2>3, <2>4, <2>5, <2>6 DEF TypeOK, Known
<1>6. ASSUME NEW w \in Worker, RegistrationResult(w) PROVE TypeOK'
  <2>1. PICK e \in Event : e = [kind |-> "online", peer |-> w]
    BY NewEvents
  <2>2. events' = events \/ events' = Append(events, e)
    BY <1>6, <2>1 DEF RegistrationResult
  <2>3. events' \in Seq(Event)
    <3>1. Append(events, e) \in Seq(Event)
      BY <1>1, AppendProperties
    <3> QED BY <1>1, <2>2, <3>1
  <2>4. stale' \subseteq Worker /\ reg' \in [Worker -> {"none", "task", "ok", "failed"}]
    BY <1>1, <1>6 DEF RegistrationResult, ComesLate
  <2> QED BY <1>1, <1>6, <2>3, <2>4 DEF RegistrationResult, TypeOK, Known
<1>7. ASSUME NEW w \in Worker, DisconnectWorker(w) PROVE TypeOK'
  <2>1. /\ row' \in [Worker -> {"none", "on", "off"}]
        /\ \A x \in Worker : (row'[x] = "none") = (row[x] = "none")
    BY <1>7, RowStep DEF DisconnectWorker
  <2>2. skewed' \subseteq Worker
    BY <1>1, <1>7 DEF DisconnectWorker
  <2> QED BY <1>1, <1>7, <2>1, <2>2 DEF DisconnectWorker, TypeOK, Known
<1>8. CASE SchedulerEvent
  <2>1. PICK e \in Event : e = Head(schedEvents)
    BY <1>1, <1>8, LastOfTail DEF SchedulerEvent
  <2>2. Tail(schedEvents) \in Seq(Event) /\ 1 \in DOMAIN schedEvents /\ schedEvents[1] = e
    BY <1>1, <1>8, <2>1, LastOfTail DEF SchedulerEvent
  <2>3. SchedulerGets(e)
    BY <1>8, <2>1 DEF SchedulerEvent
  <2>4. e.peer \in Worker
    BY EventFacts
  <2>5. ASSUME NEW w \in Worker PROVE Known(w)'
    <3>1. row'[w] = row[w]
      BY <1>8 DEF SchedulerEvent
    <3>2. CASE w # e.peer
      BY <1>1, <2>3, <3>1, <3>2, MapStep DEF Known
    <3>3. CASE w = e.peer
      <4>1. e.kind = "online" => row[w] # "none"
        BY <2>2, <3>3 DEF KnownInv, Announces
      <4> QED BY <1>1, <2>3, <3>1, <3>3, <4>1, MapStep DEF Known
    <3> QED BY <3>2, <3>3
  <2>6. online' \in [Worker -> WorkerCandidate \cup {Absent}]
    BY <2>3, MapStep
  <2>7. /\ schedEvents' = Tail(schedEvents)
        /\ UNCHANGED <<link, reg, row, events, hand, dbEvents, skewed, stale>>
    BY <1>8 DEF SchedulerEvent
  <2> QED BY <1>1, <2>2, <2>5, <2>6, <2>7 DEF TypeOK, Known
<1>13. CASE FanOut
  <2>1. PICK e \in Event : e = Head(events)
    BY <1>1, <1>13, LastOfTail DEF FanOut
  <2>2. events' \in Seq(Event)
    BY <1>1, <1>13, LastOfTail DEF FanOut
  <2>3. schedEvents' \in Seq(Event)
    <3>1. Append(schedEvents, e) \in Seq(Event)
      BY <1>1, AppendProperties
    <3> QED BY <1>13, <2>1, <3>1 DEF FanOut
  <2> QED BY <1>1, <1>13, <2>1, <2>2, <2>3 DEF FanOut, TypeOK, Known
<1>9. CASE FanOutToDb
  <2>1. hand \in Event
    BY <1>1, <1>9 DEF FanOutToDb
  <2>2. dbEvents' \in Seq(Event)
    BY <1>1, <1>9, <2>1 DEF FanOutToDb
  <2> QED BY <1>1, <1>9, <2>2 DEF FanOutToDb, TypeOK, Known
<1>10. CASE DbUpdate
  <2>1. PICK e \in Event : e = Head(dbEvents)
    BY <1>1, <1>10, LastOfTail DEF DbUpdate
  <2>2. dbEvents' \in Seq(Event)
    BY <1>1, <1>10, LastOfTail DEF DbUpdate
  <2>3. e.peer \in Worker
    BY EventFacts
  <2>4. row' = row \/ \E value \in {"on", "off"} : row' = SetOnline(e.peer, value)
    BY <1>10, <2>1 DEF DbUpdate
  <2>5. /\ row' \in [Worker -> {"none", "on", "off"}]
        /\ \A x \in Worker : (row'[x] = "none") = (row[x] = "none")
    BY <1>1, <2>3, <2>4, RowStep
  <2>6. skewed' \subseteq Worker
    BY <1>1, <1>10, <2>1, <2>3 DEF DbUpdate
  <2>7. UNCHANGED <<link, reg, events, schedEvents, hand, online, stale>>
    BY <1>10 DEF DbUpdate
  <2>8. \A w \in Worker : Known(w)'
    BY <1>1, <2>5, <2>7 DEF Known
  <2> QED BY <1>1, <2>2, <2>5, <2>6, <2>7, <2>8 DEF TypeOK, Known
<1>11. CASE MasterRestart
  <2>1. <<>> \in Seq(Event)
    BY EmptySeq
  <2> QED BY <1>1, <1>11, <2>1 DEF MasterRestart, TypeOK
<1> QED BY <1>2, <1>3, <1>4, <1>5, <1>6, <1>7, <1>8, <1>9, <1>10, <1>11, <1>12, <1>13 DEF Next

-----------------------------------------------------------------------------
(* Registrations and the map *)

(* What is announced was registered before. *)
LEMMA KnownFrame ==
  ASSUME NEW w, KnownInv(w),
         reg'[w] = "ok" => reg[w] = "ok",
         Announces(events, w)' => reg[w] = "ok" \/ Announces(events, w),
         Announces(schedEvents, w)' => Announces(events, w) \/ Announces(schedEvents, w),
         row[w] # "none" => row'[w] # "none",
         online'[w] # Absent => online'[w].gpus \in {{}, GpusOf[w]}
  PROVE  KnownInv(w)'
BY Zenon DEF KnownInv

(* Who is announced has a row, and the map has what it announced. *)
LEMMA KnownKeeps ==
  ASSUME TypeOK, TypeOK', \A w \in Worker : KnownInv(w), Next, NEW w \in Worker
  PROVE  KnownInv(w)'
<1>1. /\ reg \in [Worker -> {"none", "task", "ok", "failed"}]
      /\ row \in [Worker -> {"none", "on", "off"}]
      /\ events \in Seq(Event) /\ schedEvents \in Seq(Event) /\ KnownInv(w)
      /\ online[w] # Absent => online[w].gpus \in {{}, GpusOf[w]}
  BY DEF TypeOK, KnownInv
<1> USE DEF netVars, feedVars, histVars
<1>2. ASSUME NEW x \in Worker,
             \/ Connect(x) \/ RegisterWorker(x)
             \/ (VerifyAndRegister(x) /\ reg' # [reg EXCEPT ![x] = "ok"])
      PROVE  KnownInv(w)'
  <2>1. UNCHANGED <<events, schedEvents, online>>
    BY <1>2 DEF Connect, RegisterWorker, VerifyAndRegister
  <2>2. reg'[w] = "ok" => reg[w] = "ok"
    BY <1>1, <1>2 DEF Connect, RegisterWorker, VerifyAndRegister
  <2>3. row[w] # "none" => row'[w] # "none"
    BY <1>1, <1>2 DEF Connect, RegisterWorker, VerifyAndRegister
  <2> QED BY <1>1, <2>1, <2>2, <2>3, KnownFrame DEF Announces
<1>3. ASSUME NEW x \in Worker, VerifyAndRegister(x), reg' = [reg EXCEPT ![x] = "ok"]
      PROVE  KnownInv(w)'
  <2>1. UNCHANGED <<events, schedEvents, online>> /\ row' = [row EXCEPT ![x] = "on"]
    BY <1>1, <1>3 DEF VerifyAndRegister
  <2>2. CASE x = w
    BY <1>1, <2>1, <2>2 DEF KnownInv
  <2>3. CASE x # w
    BY <1>1, <1>3, <2>1, <2>3, KnownFrame DEF Announces
  <2> QED BY <2>2, <2>3
<1>4. ASSUME NEW e \in Event, events' = events \/ events' = Append(events, e),
             e.kind = "online" => reg[e.peer] = "ok",
             reg' = reg \/ \E x \in Worker : reg' = [reg EXCEPT ![x] = "none"],
             UNCHANGED <<row, schedEvents, online>>
      PROVE  KnownInv(w)'
  <2>1. Announces(events', w) => Announces(events, w) \/ (e.kind = "online" /\ e.peer = w)
    BY <1>1, <1>4, AnnouncesAppended
  <2>2. reg'[w] = "ok" => reg[w] = "ok"
    BY <1>1, <1>4
  <2> QED BY <1>1, <1>4, <2>1, <2>2, KnownFrame DEF Announces
<1>5. ASSUME NEW x \in Worker, Disconnect(x) \/ Unsubscribe(x) PROVE KnownInv(w)'
  <2>1. PICK e \in Event : e = [kind |-> "offline", peer |-> x]
    BY NewEvents
  <2> QED BY <1>4, <1>5, <2>1 DEF Disconnect, Unsubscribe, TrySend
<1>6. ASSUME NEW x \in Worker, NEW u \in Uptime, Heartbeat(x, u) PROVE KnownInv(w)'
  <2>1. PICK e \in Event : e = [kind |-> "heartbeat", peer |-> x, uptime |-> u]
    BY NewEvents
  <2> QED BY <1>4, <1>6, <2>1 DEF Heartbeat, TrySend
<1>7. ASSUME NEW x \in Worker, RegistrationResult(x) PROVE KnownInv(w)'
  <2>1. PICK e \in Event : e = [kind |-> "online", peer |-> x]
    BY NewEvents
  <2>2. CASE reg[x] = "ok"
    BY <1>4, <1>7, <2>1, <2>2 DEF RegistrationResult
  <2>3. CASE reg[x] # "ok"
    <3>1. UNCHANGED <<events, schedEvents, row, online>> /\ reg' = [reg EXCEPT ![x] = "none"]
      BY <1>7, <2>3 DEF RegistrationResult, Announced
    <3>2. reg'[w] = "ok" => reg[w] = "ok"
      BY <1>1, <3>1
    <3> QED BY <1>1, <3>1, <3>2, KnownFrame DEF Announces
  <2> QED BY <2>2, <2>3
<1>8. CASE FanOut
  <2>1. PICK e \in Event : e = Head(events)
    BY <1>1, <1>8, LastOfTail DEF FanOut
  <2>2. /\ events # <<>> /\ events' = Tail(events) /\ schedEvents' = Append(schedEvents, e)
        /\ UNCHANGED <<reg, row, online>>
    BY <1>8, <2>1 DEF FanOut
  <2>3. Announces(events, w) <=> Announces(events', w) \/ (e.kind = "online" /\ e.peer = w)
    BY <1>1, <2>1, <2>2, AnnouncesTail
  <2>4. Announces(schedEvents', w) <=> Announces(schedEvents, w) \/ (e.kind = "online" /\ e.peer = w)
    BY <1>1, <2>2, AnnouncesAppended
  <2> QED BY <1>1, <2>2, <2>3, <2>4, KnownFrame DEF Announces
<1>9. CASE SchedulerEvent
  <2>1. PICK e \in Event : e = Head(schedEvents)
    BY <1>1, <1>9, LastOfTail DEF SchedulerEvent
  <2>2. /\ schedEvents # <<>> /\ schedEvents' = Tail(schedEvents) /\ SchedulerGets(e)
        /\ UNCHANGED <<reg, row, events>>
    BY <1>9, <2>1 DEF SchedulerEvent
  <2>3. Announces(schedEvents', w) => Announces(schedEvents, w)
    BY <1>1, <2>2, AnnouncesTail
  <2>4. online'[w] # Absent => online'[w].gpus \in {{}, GpusOf[w]}
    <3>1. CASE w # e.peer
      BY <1>1, <2>2, <3>1, MapStep
    <3>2. CASE w = e.peer
      BY <1>1, <2>2, <3>2, MapStep
    <3> QED BY <3>1, <3>2
  <2> QED BY <1>1, <2>2, <2>3, <2>4, KnownFrame DEF Announces
<1>10. CASE FanOutToDb
  BY <1>1, <1>10, KnownFrame DEF FanOutToDb, Announces
<1>11. CASE DbUpdate
  <2>1. PICK e \in Event : e = Head(dbEvents)
    BY <1>11, LastOfTail DEF DbUpdate, TypeOK
  <2>2. row' = row \/ \E value \in {"on", "off"} : row' = SetOnline(e.peer, value)
    BY <1>11, <2>1 DEF DbUpdate
  <2>3. e.peer \in Worker
    BY EventFacts
  <2>4. (row'[w] = "none") = (row[w] = "none")
    BY <2>2, <2>3, RowStep
  <2>5. UNCHANGED <<reg, events, schedEvents, online>>
    BY <1>11 DEF DbUpdate
  <2> QED BY <1>1, <2>4, <2>5, KnownFrame DEF Announces
<1>12. ASSUME NEW x \in Worker, DisconnectWorker(x) PROVE KnownInv(w)'
  <2>1. (row'[w] = "none") = (row[w] = "none")
    BY <1>12, RowStep DEF DisconnectWorker
  <2>2. UNCHANGED <<reg, events, schedEvents, online>>
    BY <1>12 DEF DisconnectWorker
  <2> QED BY <1>1, <2>1, <2>2, KnownFrame DEF Announces
<1>13. CASE MasterRestart
  <2>1. reg'[w] = "none" /\ online'[w] = Absent /\ DOMAIN events' = {} /\ DOMAIN schedEvents' = {}
    BY <1>13 DEF MasterRestart
  <2> QED BY <2>1 DEF KnownInv, Announces
<1> QED BY <1>2, <1>3, <1>5, <1>6, <1>7, <1>8, <1>9, <1>10, <1>11, <1>12, <1>13 DEF Next

-----------------------------------------------------------------------------
(* The scheduler's channel and its map *)

(* What was said last is what was appended last, *)
LEMMA SideAppended ==
  ASSUME TypeOK, NEW e \in Event, schedEvents' = Append(schedEvents, e), UNCHANGED online,
         NEW w, NEW on \in BOOLEAN,
         IF e.peer = w THEN Says(e, on) ELSE SchedSide(w, on)
  PROVE  SchedSide(w, on)'
<1>0. schedEvents \in Seq(Event)
  BY DEF TypeOK
<1>1. NoneOf(schedEvents', w) => NoneOf(schedEvents, w) /\ e.peer # w
  BY <1>0, NoneAppended, Zenon
<1>2. ASSUME NEW i \in DOMAIN schedEvents', LastOf(schedEvents', w, i)
      PROVE  \/ e.peer = w /\ schedEvents'[i] = e
             \/ /\ e.peer # w /\ i \in DOMAIN schedEvents /\ LastOf(schedEvents, w, i)
                /\ schedEvents'[i] = schedEvents[i]
  BY <1>0, <1>2, LastAppended DEF LastOf
<1> QED BY <1>1, <1>2 DEF SchedSide, Says, NoneOf, LastOf

(* and becomes what the map shows. *)
LEMMA SideConsumed ==
  ASSUME TypeOK, SchedulerEvent, NEW w \in Worker, NEW on \in BOOLEAN, SchedSide(w, on)
  PROVE  SchedSide(w, on)'
<1>1. PICK q \in Seq(Event) : q = schedEvents /\ q # <<>>
  BY DEF TypeOK, SchedulerEvent
<1>2. PICK e \in Event : e = Head(q) /\ 1 \in DOMAIN q /\ q[1] = e
  BY <1>1, LastOfTail
<1>3. PICK t : t = Tail(q) /\ t = schedEvents'
  BY <1>1 DEF SchedulerEvent
<1>4. SchedulerGets(e)
  BY <1>1, <1>2 DEF SchedulerEvent
<1>5. /\ NoneOf(t, w) => NoneOf(q, w) \/ LastOf(q, w, 1)
      /\ NoneOf(t, w) /\ e.peer # w => NoneOf(q, w)
  BY <1>1, <1>2, <1>3, LastOfTail
<1>6. \A i \in DOMAIN t : /\ i + 1 \in DOMAIN q /\ t[i] = q[i + 1]
                          /\ LastOf(t, w, i) => LastOf(q, w, i + 1)
  BY <1>1, <1>3, LastOfTail
<1>7. /\ \A i \in DOMAIN q : LastOf(q, w, i) => Says(q[i], on)
      /\ NoneOf(q, w) => (on <=> online[w] # Absent)
  BY <1>1 DEF SchedSide, NoneOf, LastOf
<1>8. ASSUME NEW i \in DOMAIN t, LastOf(t, w, i) PROVE Says(t[i], on)
  <2>1. i + 1 \in DOMAIN q /\ t[i] = q[i + 1] /\ LastOf(q, w, i + 1)
    BY <1>6, <1>8
  <2>2. Says(q[i + 1], on)
    BY <1>7, <2>1, Zenon
  <2> QED BY <2>1, <2>2, Zenon
<1>9. NoneOf(t, w) => (on <=> online'[w] # Absent)
  <2>1. CASE e.peer # w
    <3>1. online'[w] = online[w]
      BY <1>4, <2>1, MapStep
    <3> QED BY <1>5, <1>7, <2>1, <3>1
  <2>2. CASE e.peer = w
    <3>1. online'[w] # Absent <=> e.kind # "offline"
      BY <1>4, <2>2, MapStep
    <3>2. ~NoneOf(q, w)
      BY <1>2, <2>2 DEF NoneOf
    <3>3. NoneOf(t, w) => Says(e, on)
      BY <1>2, <1>5, <1>7, <3>2
    <3> QED BY <3>1, <3>3 DEF Says
  <2> QED BY <2>1, <2>2
<1>10. \A i \in DOMAIN schedEvents' : LastOf(schedEvents', w, i) => Says(schedEvents'[i], on)
  BY <1>3, <1>8
<1>11. NoneOf(schedEvents', w) => (on <=> online'[w] # Absent)
  BY <1>3, <1>9
<1> QED BY <1>10, <1>11, Zenon DEF SchedSide, NoneOf, LastOf, Says

(* Other steps leave both alone. *)
LEMMA SideFrame ==
  ASSUME UNCHANGED <<schedEvents, online>>, NEW w, NEW on
  PROVE  SchedSide(w, on)' <=> SchedSide(w, on)
BY DEF SchedSide, NoneOf, LastOf, Says

-----------------------------------------------------------------------------
(* The map and the connections *)

(* Whoever has left goes offline, or something came after its Offline. *)
LEMMA LinkKeeps ==
  ASSUME TypeOK, TypeOK', Next, NEW w \in Worker, LinkInv(w)
  PROVE  LinkInv(w)'
<1>1. /\ link \in [Worker -> 0..MaxLinks] /\ MaxLinks \in Nat
      /\ events \in Seq(Event) /\ stale \subseteq Worker
  BY PoolAssumption DEF TypeOK
<1> USE DEF netVars, feedVars, histVars
<1>2. ASSUME NEW e \in Event, events' = Append(events, e), UNCHANGED <<schedEvents, online>>,
             e.peer # w => link'[w] = link[w] /\ (w \in stale <=> w \in stale'),
             e.peer = w => e.kind = "offline" \/ w \in stale' \/ link'[w] # 0
      PROVE  LinkInv(w)'
  <2>0. events \in Seq(Event) /\ events' = Append(events, e)
    BY <1>1, <1>2
  <2>1. NoneOf(events', w) => NoneOf(events, w) /\ e.peer # w
    BY <2>0, NoneAppended, Zenon
  <2>2. ASSUME NEW i \in DOMAIN events', LastOf(events', w, i)
        PROVE  \/ e.peer = w /\ events'[i] = e
               \/ e.peer # w /\ i \in DOMAIN events /\ LastOf(events, w, i) /\ events'[i] = events[i]
    BY <2>0, <2>2, LastAppended DEF LastOf
  <2>3. SchedSide(w, FALSE)' <=> SchedSide(w, FALSE)
    BY <1>2, SideFrame
  <2>4. ASSUME link'[w] = 0, w \notin stale'
        PROVE  /\ \A i \in DOMAIN events' : LastOf(events', w, i) => events'[i].kind = "offline"
               /\ NoneOf(events', w) => SchedSide(w, FALSE)'
    <3>1. CASE e.peer = w
      <4>1. e.kind = "offline"
        BY <1>2, <2>4, <3>1
      <4> QED BY <2>1, <2>2, <3>1, <4>1
    <3>2. CASE e.peer # w
      <4>1. link[w] = 0 /\ w \notin stale
        BY <1>2, <2>4, <3>2
      <4>2. /\ \A i \in DOMAIN events : LastOf(events, w, i) => events[i].kind = "offline"
            /\ NoneOf(events, w) => SchedSide(w, FALSE)
        BY <4>1 DEF LinkInv
      <4> QED BY <2>1, <2>2, <2>3, <3>2, <4>2
    <3> QED BY <3>1, <3>2
  <2> QED BY <2>4 DEF LinkInv, NoneOf, LastOf
<1>3. ASSUME UNCHANGED <<events, schedEvents, online>>,
             link'[w] = 0 /\ w \notin stale' => link[w] = 0 /\ w \notin stale
      PROVE  LinkInv(w)'
  <2>1. SchedSide(w, FALSE)' <=> SchedSide(w, FALSE)
    BY <1>3, SideFrame
  <2> QED BY <1>3, <2>1 DEF LinkInv, NoneOf, LastOf
<1>4. ASSUME NEW x \in Worker, Connect(x) PROVE LinkInv(w)'
  <2>1. link'[w] = 0 => link[w] = 0
    BY <1>1, <1>4 DEF Connect
  <2> QED BY <1>3, <1>4, <2>1 DEF Connect
<1>5. ASSUME NEW x \in Worker, Disconnect(x) PROVE LinkInv(w)'
  <2>1. PICK e \in Event : e = [kind |-> "offline", peer |-> x] /\ e.kind = "offline" /\ e.peer = x
    BY NewEvents
  <2>2. w # x => link'[w] = link[w] /\ (w \in stale <=> w \in stale')
    BY <1>1, <1>5 DEF Disconnect
  <2>3. CASE Room
    <3>1. events' = Append(events, e) /\ UNCHANGED <<schedEvents, online>>
      BY <1>5, <2>1, <2>3 DEF Disconnect, TrySend
    <3> QED BY <1>2, <2>1, <2>2, <3>1
  <2>4. CASE ~Room
    <3>1. UNCHANGED <<events, schedEvents, online>> /\ x \in stale'
      BY <1>5, <2>4 DEF Disconnect, TrySend
    <3> QED BY <1>3, <2>2, <3>1
  <2> QED BY <2>3, <2>4
<1>6. ASSUME NEW x \in Worker, Unsubscribe(x) PROVE LinkInv(w)'
  <2>1. PICK e \in Event : e = [kind |-> "offline", peer |-> x] /\ e.kind = "offline" /\ e.peer = x
    BY NewEvents
  <2>2. UNCHANGED <<schedEvents, online, link, stale>> /\ (events' = events \/ events' = Append(events, e))
    BY <1>6, <2>1 DEF Unsubscribe, TrySend
  <2> QED BY <1>2, <1>3, <2>1, <2>2
<1>7. ASSUME NEW x \in Worker, NEW u \in Uptime, Heartbeat(x, u) PROVE LinkInv(w)'
  <2>1. PICK e \in Event : e = [kind |-> "heartbeat", peer |-> x, uptime |-> u] /\ e.peer = x
    BY NewEvents
  <2>2. events' = Append(events, e) /\ UNCHANGED <<schedEvents, online, link>>
    BY <1>7, <2>1 DEF Heartbeat, TrySend
  <2>3. (x \in stale' \/ link'[x] # 0) /\ (w # x => (w \in stale <=> w \in stale'))
    BY <1>7 DEF Heartbeat, ComesLate
  <2> QED BY <1>2, <2>1, <2>2, <2>3
<1>8. ASSUME NEW x \in Worker, RegistrationResult(x) PROVE LinkInv(w)'
  <2>1. PICK e \in Event : e = [kind |-> "online", peer |-> x] /\ e.peer = x
    BY NewEvents
  <2>2. CASE reg[x] = "ok"
    <3>1. /\ events' = Append(events, e) /\ UNCHANGED <<schedEvents, online, link>>
          /\ x \in stale' \/ link'[x] # 0
      BY <1>8, <2>1, <2>2 DEF RegistrationResult, Announced, ComesLate
    <3>2. w # x => (w \in stale <=> w \in stale')
      BY <1>8 DEF RegistrationResult, ComesLate
    <3> QED BY <1>2, <2>1, <3>1, <3>2
  <2>3. CASE reg[x] # "ok"
    BY <1>3, <1>8, <2>3 DEF RegistrationResult, Announced
  <2> QED BY <2>2, <2>3
<1>9. CASE FanOut
  <2>1. PICK e \in Event : e = Head(events) /\ 1 \in DOMAIN events /\ events[1] = e
    BY <1>1, <1>9, LastOfTail DEF FanOut
  <2>2. /\ events' = Tail(events) /\ events # <<>> /\ schedEvents' = Append(schedEvents, e)
        /\ UNCHANGED <<link, stale, online>>
    BY <1>9, <2>1 DEF FanOut
  <2>3. /\ NoneOf(events', w) => NoneOf(events, w) \/ LastOf(events, w, 1)
        /\ NoneOf(events', w) /\ e.peer # w => NoneOf(events, w)
        /\ \A i \in DOMAIN events' : /\ i + 1 \in DOMAIN events /\ events'[i] = events[i + 1]
                                     /\ LastOf(events', w, i) => LastOf(events, w, i + 1)
    <3>1. PICK q \in Seq(Event) : q = events /\ q # <<>> /\ Head(q) = e
      BY <1>1, <2>1, <2>2
    <3>2. PICK t : t = Tail(q) /\ t = events'
      BY <2>2, <3>1
    <3>3. /\ NoneOf(t, w) => NoneOf(q, w) \/ LastOf(q, w, 1)
          /\ NoneOf(t, w) /\ e.peer # w => NoneOf(q, w)
      BY <3>1, <3>2, LastOfTail
    <3>4. \A i \in DOMAIN t : /\ i + 1 \in DOMAIN q /\ t[i] = q[i + 1]
                              /\ LastOf(t, w, i) => LastOf(q, w, i + 1)
      BY <3>1, <3>2, LastOfTail
    <3> QED BY <3>1, <3>2, <3>3, <3>4 DEF NoneOf, LastOf
  <2>4. ASSUME link[w] = 0, w \notin stale, NoneOf(events', w) PROVE SchedSide(w, FALSE)'
    <3>0. /\ \A i \in DOMAIN events : LastOf(events, w, i) => events[i].kind = "offline"
          /\ NoneOf(events, w) => SchedSide(w, FALSE)
      BY <2>4 DEF LinkInv
    <3>1. IF e.peer = w THEN Says(e, FALSE) ELSE SchedSide(w, FALSE)
      <4>1. CASE e.peer = w
        <5>1. ~NoneOf(events, w)
          BY <2>1, <4>1 DEF NoneOf
        <5>2. events[1].kind = "offline"
          BY <2>1, <2>3, <2>4, <3>0, <5>1
        <5> QED BY <2>1, <4>1, <5>2 DEF Says
      <4>2. CASE e.peer # w
        BY <2>3, <2>4, <3>0, <4>2
      <4> QED BY <4>1, <4>2
    <3> QED BY <2>2, <3>1, SideAppended
  <2>5. ASSUME link[w] = 0, w \notin stale, NEW i \in DOMAIN events', LastOf(events', w, i)
        PROVE  events'[i].kind = "offline"
    <3>1. \A k \in DOMAIN events : LastOf(events, w, k) => events[k].kind = "offline"
      BY <2>5 DEF LinkInv
    <3> QED BY <2>3, <2>5, <3>1
  <2> QED BY <2>2, <2>4, <2>5 DEF LinkInv, NoneOf, LastOf
<1>10. CASE SchedulerEvent
  <2>1. UNCHANGED <<link, stale, events>>
    BY <1>10 DEF SchedulerEvent
  <2>2. SchedSide(w, FALSE) => SchedSide(w, FALSE)'
    BY <1>10, SideConsumed
  <2> QED BY <2>1, <2>2 DEF LinkInv, NoneOf, LastOf
<1>11. CASE MasterRestart
  <2>1. online'[w] = Absent /\ DOMAIN events' = {} /\ DOMAIN schedEvents' = {}
    BY <1>11 DEF MasterRestart
  <2> QED BY <2>1 DEF LinkInv, SchedSide
<1>12. FanOutToDb \/ DbUpdate => UNCHANGED <<link, stale, events, schedEvents, online>>
  BY DEF FanOutToDb, DbUpdate
<1>13. \A x \in Worker : RegisterWorker(x) \/ VerifyAndRegister(x) \/ DisconnectWorker(x)
                            => UNCHANGED <<link, stale, events, schedEvents, online>>
  BY DEF RegisterWorker, VerifyAndRegister, DisconnectWorker
<1> QED BY <1>3, <1>4, <1>5, <1>6, <1>7, <1>8, <1>9, <1>10, <1>11, <1>12, <1>13 DEF Next

-----------------------------------------------------------------------------
(* The map and the table *)

(* Steps that the fan-out and the table take no part in. *)
LEMMA FeedFrame ==
  ASSUME NEW w, FeedInv(w), UNCHANGED <<schedEvents, hand, dbEvents, online>>,
         \/ w \in skewed'
         \/ row'[w] = row[w] /\ (w \in skewed' <=> w \in skewed)
         \/ row'[w] = "on" /\ Announcing(w)',
         Announcing(w) => Announcing(w)'
  PROVE  FeedInv(w)'
<1>1. PICK on \in BOOLEAN : SchedSide(w, on) /\ DbSide(w, on)
  BY DEF FeedInv
<1>2. SchedSide(w, on)'
  BY <1>1, SideFrame
<1>3. Handed(w)' <=> Handed(w)
  BY DEF Handed
<1>4. DbSide(w, on)'
  BY <1>1, <1>3 DEF DbSide, Shown, Says, NoneOf, LastOf, Handed
<1> QED BY <1>2, <1>4 DEF FeedInv

(* What the fan-out has handed over is in the updater's channel. *)
LEMMA DbQueued ==
  ASSUME TypeOK, FanOutToDb, NEW w \in Worker, NEW on \in BOOLEAN, DbSide(w, on)
  PROVE  DbSide(w, on)'
<1>1. PICK e \in Event : e = hand /\ e # NoEvent
  BY DEF FanOutToDb, TypeOK
<1>2. /\ dbEvents' = Append(dbEvents, e) /\ hand' = NoEvent
      /\ UNCHANGED <<reg, row, events, skewed>>
  BY <1>1 DEF FanOutToDb, feedVars, netVars, histVars
<1>3. dbEvents \in Seq(Event)
  BY DEF TypeOK
<1>4. ASSUME NEW i \in DOMAIN dbEvents', LastOf(dbEvents', w, i) PROVE Says(dbEvents'[i], on)
  <2>1. \/ e.peer = w /\ dbEvents'[i] = e
        \/ e.peer # w /\ i \in DOMAIN dbEvents /\ LastOf(dbEvents, w, i) /\ dbEvents'[i] = dbEvents[i]
    <3>1. dbEvents \in Seq(Event) /\ dbEvents' = Append(dbEvents, e)
      BY <1>2, <1>3
    <3> QED BY <1>4, <3>1, LastAppended DEF LastOf
  <2> QED BY <1>1, <2>1 DEF DbSide, Handed
<1>5. NoneOf(dbEvents', w) => NoneOf(dbEvents, w) /\ e.peer # w
  <2>1. dbEvents \in Seq(Event) /\ dbEvents' = Append(dbEvents, e)
    BY <1>2, <1>3
  <2> QED BY <2>1, NoneAppended, Zenon
<1>6. NoneOf(dbEvents', w) /\ row[w] # "none" /\ w \notin skewed => Shown(w, on)
  BY <1>1, <1>5 DEF DbSide, Handed
<1>7. ~Handed(w)' /\ (Shown(w, on)' <=> Shown(w, on))
  BY <1>2 DEF Handed, Shown, Announcing, Announces
<1> QED BY <1>2, <1>4, <1>6, <1>7 DEF DbSide, NoneOf, LastOf

(* The last event of a worker is what its row says in the end. *)
LEMMA DbConsumed ==
  ASSUME TypeOK, DbUpdate, NEW w \in Worker, NEW on \in BOOLEAN, DbSide(w, on)
  PROVE  DbSide(w, on)'
<1>1. PICK q \in Seq(Event) : q = dbEvents /\ q # <<>>
  BY DEF TypeOK, DbUpdate
<1>2. PICK e \in Event : e = Head(q) /\ 1 \in DOMAIN q /\ q[1] = e
  BY <1>1, LastOfTail
<1>3. PICK t : t = Tail(q) /\ t = dbEvents'
  BY <1>1 DEF DbUpdate
<1>4. UNCHANGED <<reg, events, hand>> /\ row \in [Worker -> {"none", "on", "off"}]
  BY DEF DbUpdate, netVars, TypeOK
<1>5. /\ NoneOf(t, w) => NoneOf(q, w) \/ LastOf(q, w, 1)
      /\ NoneOf(t, w) /\ e.peer # w => NoneOf(q, w)
  BY <1>1, <1>2, <1>3, LastOfTail
<1>6. \A i \in DOMAIN t : /\ i + 1 \in DOMAIN q /\ t[i] = q[i + 1]
                          /\ LastOf(t, w, i) => LastOf(q, w, i + 1)
  BY <1>1, <1>3, LastOfTail
<1>7. Handed(w)' <=> Handed(w)
  BY <1>4 DEF Handed
<1>8. Handed(w) => Says(hand, on)
  BY DEF DbSide
<1>9. ~Handed(w) => /\ \A i \in DOMAIN q : LastOf(q, w, i) => Says(q[i], on)
                    /\ NoneOf(q, w) /\ row[w] # "none" /\ w \notin skewed => Shown(w, on)
  BY <1>1 DEF DbSide, NoneOf, LastOf
<1>10. ASSUME ~Handed(w), NEW i \in DOMAIN t, LastOf(t, w, i) PROVE Says(t[i], on)
  <2>1. i + 1 \in DOMAIN q /\ t[i] = q[i + 1] /\ LastOf(q, w, i + 1)
    BY <1>6, <1>10
  <2>2. Says(q[i + 1], on)
    BY <1>9, <1>10, <2>1, Zenon
  <2> QED BY <2>1, <2>2, Zenon
<1>11. e.peer \in Worker /\ e.kind \in {"online", "offline", "heartbeat"}
  BY EventFacts
<1>12. ASSUME ~Handed(w), NoneOf(t, w), row'[w] # "none", w \notin skewed' PROVE Shown(w, on)'
  <2>1. CASE e.peer # w
    <3>1. row'[w] = row[w] /\ (w \in skewed' <=> w \in skewed)
      BY <1>1, <1>2, <1>11, <2>1, RowStep DEF DbUpdate
    <3>2. Shown(w, on)
      BY <1>5, <1>9, <1>12, <2>1, <3>1
    <3> QED BY <1>4, <3>1, <3>2 DEF Shown, Announcing, Announces
  <2>2. CASE e.peer = w
    <3>1. LastOf(q, w, 1)
      BY <1>2, <1>5, <1>12, <2>2 DEF NoneOf
    <3>2. Says(e, on)
      BY <1>2, <1>9, <1>12, <3>1
    <3>3. row' = SetOnline(w, IF SetsOnline(e) THEN "on" ELSE "off")
      BY <1>1, <1>2, <1>12, <2>2 DEF DbUpdate
    <3>4. row'[w] = IF SetsOnline(e) THEN "on" ELSE "off"
      BY <1>4, <1>12, <3>3 DEF SetOnline
    <3> QED BY <1>11, <3>2, <3>4 DEF Shown, Says, SetsOnline
  <2> QED BY <2>1, <2>2
<1>13. ASSUME Handed(w) PROVE DbSide(w, on)'
  BY <1>4, <1>7, <1>8, <1>13 DEF DbSide, Says
<1>14. ASSUME ~Handed(w) PROVE DbSide(w, on)'
  BY <1>3, <1>7, <1>10, <1>12, <1>14 DEF DbSide, NoneOf, LastOf, Says
<1> QED BY <1>13, <1>14

(* What was said last of a worker is on its way to the map and to the      *)
(* table, or is what they show.                                            *)
LEMMA FeedKeeps ==
  ASSUME TypeOK, TypeOK', Next, NEW w \in Worker, FeedInv(w)
  PROVE  FeedInv(w)'
<1>1. /\ reg \in [Worker -> {"none", "task", "ok", "failed"}]
      /\ row \in [Worker -> {"none", "on", "off"}]
      /\ events \in Seq(Event) /\ skewed \subseteq Worker
  BY DEF TypeOK
<1> USE DEF netVars, feedVars, histVars
<1>2. ASSUME NEW x \in Worker, Connect(x) \/ RegisterWorker(x) PROVE FeedInv(w)'
  <2>1. reg'[w] = "ok" <=> reg[w] = "ok"
    BY <1>1, <1>2 DEF Connect, RegisterWorker
  <2>2. UNCHANGED <<events, schedEvents, hand, dbEvents, row, online, skewed>>
    BY <1>2 DEF Connect, RegisterWorker
  <2> QED BY <2>1, <2>2, FeedFrame DEF Announcing, Announces
<1>3. ASSUME NEW e \in Event, events' = events \/ events' = Append(events, e), UNCHANGED reg,
             UNCHANGED <<schedEvents, hand, dbEvents, row, online, skewed>>
      PROVE  FeedInv(w)'
  <2>1. Announces(events, w) => Announces(events', w)
    BY <1>1, <1>3, AnnouncesAppended
  <2>2. Announcing(w) => Announcing(w)'
    BY <1>3, <2>1 DEF Announcing, Announces
  <2> QED BY <1>3, <2>2, FeedFrame
<1>4. ASSUME NEW x \in Worker, Disconnect(x) \/ Unsubscribe(x) PROVE FeedInv(w)'
  <2>1. PICK e \in Event : e = [kind |-> "offline", peer |-> x]
    BY NewEvents
  <2> QED BY <1>3, <1>4, <2>1 DEF Disconnect, Unsubscribe, TrySend
<1>5. ASSUME NEW x \in Worker, NEW u \in Uptime, Heartbeat(x, u) PROVE FeedInv(w)'
  <2>1. PICK e \in Event : e = [kind |-> "heartbeat", peer |-> x, uptime |-> u]
    BY NewEvents
  <2> QED BY <1>3, <1>5, <2>1 DEF Heartbeat, TrySend
<1>6. ASSUME NEW x \in Worker, RegistrationResult(x) PROVE FeedInv(w)'
  <2>1. PICK e \in Event : e = [kind |-> "online", peer |-> x] /\ e.kind = "online" /\ e.peer = x
    BY NewEvents
  <2>2. UNCHANGED <<schedEvents, hand, dbEvents, row, online, skewed>> /\ reg' = [reg EXCEPT ![x] = "none"]
    BY <1>6 DEF RegistrationResult
  <2>3. CASE reg[x] = "ok"
    <3>1. events' = Append(events, e)
      BY <1>6, <2>1, <2>3 DEF RegistrationResult, Announced
    <3>2. Announces(events', w) <=> Announces(events, w) \/ x = w
      <4>1. PICK q : q = events'
        OBVIOUS
      <4>2. Announces(q, w) <=> Announces(events, w) \/ (e.kind = "online" /\ e.peer = w)
        BY <1>1, <3>1, <4>1, AnnouncesAppended
      <4> QED BY <2>1, <4>1, <4>2 DEF Announces
    <3>3. x # w => reg'[w] = reg[w]
      BY <1>1, <2>2
    <3>4. Announcing(w) => Announcing(w)'
      BY <3>2, <3>3 DEF Announcing, Announces
    <3> QED BY <2>2, <3>4, FeedFrame
  <2>4. CASE reg[x] # "ok"
    <3>1. UNCHANGED events
      BY <1>6, <2>4 DEF RegistrationResult, Announced
    <3>2. reg[w] = "ok" => reg'[w] = "ok"
      BY <1>1, <2>2, <2>4
    <3>3. Announcing(w) => Announcing(w)'
      BY <3>1, <3>2 DEF Announcing, Announces
    <3> QED BY <2>2, <3>3, FeedFrame
  <2> QED BY <2>3, <2>4
<1>7. ASSUME NEW x \in Worker, VerifyAndRegister(x) PROVE FeedInv(w)'
  <2>1. UNCHANGED <<events, schedEvents, hand, dbEvents, online>> /\ reg[x] = "task"
    BY <1>7 DEF VerifyAndRegister
  <2>2. reg[w] = "ok" => reg'[w] = "ok"
    BY <1>1, <1>7 DEF VerifyAndRegister
  <2>3. Announcing(w) => Announcing(w)'
    BY <2>1, <2>2 DEF Announcing, Announces
  <2>4. \/ w \in skewed'
        \/ row'[w] = row[w] /\ (w \in skewed' <=> w \in skewed)
        \/ row'[w] = "on" /\ reg'[w] = "ok"
    BY <1>1, <1>7 DEF VerifyAndRegister
  <2>5. reg'[w] = "ok" => Announcing(w)'
    BY DEF Announcing
  <2> QED BY <2>1, <2>3, <2>4, <2>5, FeedFrame
<1>8. ASSUME NEW x \in Worker, DisconnectWorker(x) PROVE FeedInv(w)'
  <2>1. UNCHANGED <<reg, events, schedEvents, hand, dbEvents, online>> /\ skewed' = skewed \cup {x}
    BY <1>8 DEF DisconnectWorker
  <2>2. x # w => row'[w] = row[w]
    BY <1>8, RowStep DEF DisconnectWorker
  <2>3. Announcing(w) => Announcing(w)'
    BY <2>1 DEF Announcing, Announces
  <2> QED BY <2>1, <2>2, <2>3, FeedFrame
<1>9. CASE MasterRestart
  <2>1. /\ hand' = NoEvent /\ DOMAIN dbEvents' = {} /\ DOMAIN schedEvents' = {}
        /\ online'[w] = Absent /\ row'[w] \in {"none", "off"}
    BY <1>9 DEF MasterRestart
  <2>2. SchedSide(w, FALSE)' /\ DbSide(w, FALSE)'
    BY <2>1 DEF SchedSide, DbSide, Handed, Shown
  <2> QED BY <2>2 DEF FeedInv
<1>10. CASE FanOut
  <2>1. PICK e \in Event : e = Head(events) /\ e # NoEvent
    BY <1>1, <1>10, LastOfTail, PoolAssumption DEF FanOut
  <2>2. /\ events # <<>> /\ events' = Tail(events) /\ schedEvents' = Append(schedEvents, e)
        /\ hand = NoEvent /\ hand' = e /\ UNCHANGED <<reg, row, dbEvents, online, skewed>>
    BY <1>10, <2>1 DEF FanOut
  <2>3. CASE e.peer = w
    <3>1. PICK on \in BOOLEAN : Says(e, on)
      BY DEF Says
    <3>2. SchedSide(w, on)'
      BY <2>2, <2>3, <3>1, SideAppended
    <3>3. DbSide(w, on)'
      BY <2>1, <2>2, <2>3, <3>1 DEF DbSide, Handed, Says
    <3> QED BY <3>2, <3>3 DEF FeedInv
  <2>4. CASE e.peer # w
    <3>1. PICK on \in BOOLEAN : SchedSide(w, on) /\ DbSide(w, on)
      BY DEF FeedInv
    <3>2. SchedSide(w, on)'
      BY <2>2, <2>4, <3>1, SideAppended
    <3>3. Announces(events, w) => Announces(events', w)
      BY <1>1, <2>1, <2>2, <2>4, AnnouncesTail
    <3>4. Announcing(w) => Announcing(w)'
      BY <2>2, <3>3 DEF Announcing, Announces
    <3>5. ~Handed(w) /\ ~Handed(w)'
      BY <2>2, <2>4 DEF Handed
    <3>6. Shown(w, on) => Shown(w, on)'
      BY <2>2, <3>4 DEF Shown
    <3>7. DbSide(w, on)'
      BY <2>2, <3>1, <3>5, <3>6 DEF DbSide, NoneOf, LastOf
    <3> QED BY <3>2, <3>7 DEF FeedInv
  <2> QED BY <2>3, <2>4
<1>11. CASE SchedulerEvent
  <2>1. PICK on \in BOOLEAN : SchedSide(w, on) /\ DbSide(w, on)
    BY DEF FeedInv
  <2>2. SchedSide(w, on)'
    BY <1>11, <2>1, SideConsumed
  <2>3. UNCHANGED <<reg, row, events, hand, dbEvents, skewed>>
    BY <1>11 DEF SchedulerEvent
  <2>4. DbSide(w, on)'
    BY <2>1, <2>3 DEF DbSide, Handed, Shown, Announcing, Announces, NoneOf, LastOf, Says
  <2> QED BY <2>2, <2>4 DEF FeedInv
<1>12. CASE FanOutToDb \/ DbUpdate
  <2>1. PICK on \in BOOLEAN : SchedSide(w, on) /\ DbSide(w, on)
    BY DEF FeedInv
  <2>2. UNCHANGED <<schedEvents, online>>
    BY <1>12 DEF FanOutToDb, DbUpdate
  <2>3. SchedSide(w, on)'
    BY <2>1, <2>2, SideFrame
  <2>4. DbSide(w, on)'
    BY <1>12, <2>1, DbQueued, DbConsumed
  <2> QED BY <2>3, <2>4 DEF FeedInv
<1> QED BY <1>2, <1>4, <1>5, <1>6, <1>7, <1>8, <1>9, <1>10, <1>11, <1>12 DEF Next

-----------------------------------------------------------------------------
(* The invariant *)

LEMMA InitInv ==
  ASSUME Init
  PROVE  PoolInv
<1>1. /\ PoolAssumption /\ MaxLinks \in Nat /\ <<>> \in Seq(Event) /\ DOMAIN <<>> = {}
  BY PoolAssumption, EmptySeq
<1>2. TypeOK
  BY <1>1 DEF Init, TypeOK
<1>3. ASSUME NEW w \in Worker PROVE KnownInv(w) /\ FeedInv(w) /\ LinkInv(w)
  <2>1. SchedSide(w, FALSE) /\ DbSide(w, FALSE)
    BY <1>1 DEF Init, SchedSide, DbSide, Handed
  <2>2. KnownInv(w)
    BY <1>1 DEF Init, KnownInv, Announces
  <2> QED BY <1>1, <2>1, <2>2 DEF Init, FeedInv, LinkInv
<1> QED BY <1>2, <1>3 DEF PoolInv

LEMMA NextInv ==
  ASSUME PoolInv, [Next]_vars
  PROVE  PoolInv'
<1>1. CASE Next
  <2>1. TypeOK'
    BY <1>1, StepTypes DEF PoolInv
  <2>2. ASSUME NEW w \in Worker PROVE KnownInv(w)' /\ FeedInv(w)' /\ LinkInv(w)'
    <3>1. KnownInv(w)'
      BY <1>1, <2>1, KnownKeeps DEF PoolInv
    <3>2. FeedInv(w)'
      BY <1>1, <2>1, FeedKeeps DEF PoolInv
    <3>3. LinkInv(w)'
      BY <1>1, <2>1, LinkKeeps DEF PoolInv
    <3> QED BY <3>1, <3>2, <3>3
  <2> QED BY <2>1, <2>2 DEF PoolInv
<1>2. CASE UNCHANGED vars
  <2>1. UNCHANGED <<link, reg, row, events, schedEvents, hand, dbEvents, online, skewed, stale>>
    BY <1>2 DEF vars, netVars, feedVars, histVars
  <2>2. TypeOK'
    BY <2>1 DEF PoolInv, TypeOK
  <2>3. \A w \in Worker : KnownInv(w)' /\ FeedInv(w)' /\ LinkInv(w)'
    BY <2>1 DEF PoolInv, KnownInv, FeedInv, LinkInv, SchedSide, DbSide, Handed, Shown, Announcing,
                Announces, NoneOf, LastOf, Says
  <2> QED BY <2>2, <2>3 DEF PoolInv
<1> QED BY <1>1, <1>2

LEMMA AlwaysPoolInv == Spec => []PoolInv
BY InitInv, NextInv, PTL DEF Spec

(* The types; and whoever has capabilities in the scheduler's map has a    *)
(* row: the upsert of verify_and_register comes before its Online event.   *)
THEOREM PoolTyping == Spec => []TypeOK
<1>1. PoolInv => TypeOK
  BY DEF PoolInv
<1> QED BY <1>1, AlwaysPoolInv, PTL

(* Once all events are handled, the table and the scheduler's map agree on *)
(* who is online, but for rows an administrator, a failed query or a lost  *)
(* answer left behind, and the map has no worker without a connection, but *)
(* one whose Offline was dropped, or had an Online or a heartbeat come     *)
(* after it.                                                               *)
THEOREM PoolsAgreeWhenQuiet == Spec => []PoolsAgree
<1>1. ASSUME PoolInv, Quiet, NEW w \in Worker
      PROVE  /\ row[w] # "none" /\ w \notin skewed => (row[w] = "on" <=> online[w] # Absent)
             /\ online[w] # Absent /\ w \notin stale => link[w] > 0
  <2>1. /\ DOMAIN events = {} /\ DOMAIN schedEvents = {} /\ DOMAIN dbEvents = {}
        /\ hand = NoEvent /\ reg[w] # "ok"
    BY <1>1 DEF Quiet
  <2>2. ~Handed(w) /\ NoneOf(schedEvents, w) /\ NoneOf(dbEvents, w) /\ ~Announcing(w)
    BY <2>1 DEF Handed, NoneOf, Announcing, Announces
  <2>3. row[w] # "none" /\ w \notin skewed => (row[w] = "on" <=> online[w] # Absent)
    <3>1. PICK on \in BOOLEAN : SchedSide(w, on) /\ DbSide(w, on)
      BY <1>1 DEF PoolInv, FeedInv
    <3>2. on <=> online[w] # Absent
      BY <2>2, <3>1 DEF SchedSide
    <3>3. row[w] # "none" /\ w \notin skewed => Shown(w, on)
      BY <2>2, <3>1 DEF DbSide
    <3> QED BY <2>2, <3>2, <3>3 DEF Shown
  <2>4. online[w] # Absent /\ w \notin stale => link[w] > 0
    <3>1. NoneOf(events, w) /\ LinkInv(w) /\ link[w] \in 0..MaxLinks /\ MaxLinks \in Nat
      BY <1>1, <2>1, PoolAssumption DEF PoolInv, TypeOK, NoneOf
    <3>2. link[w] = 0 /\ w \notin stale => SchedSide(w, FALSE)
      BY <3>1 DEF LinkInv
    <3>3. SchedSide(w, FALSE) => online[w] = Absent
      BY <2>2 DEF SchedSide
    <3>4. online[w] # Absent /\ w \notin stale => link[w] # 0
      BY <3>2, <3>3, Zenon
    <3> QED BY <3>1, <3>4
  <2> QED BY <2>3, <2>4
<1>2. PoolInv => PoolsAgree
  BY <1>1 DEF PoolsAgree
<1> QED BY <1>2, AlwaysPoolInv, PTL

-----------------------------------------------------------------------------
(* What the matcher makes of the map *)

(* Only eligible candidates are selected. *)
LEMMA SelectedIsEligible ==
  ASSUME NEW C, IsFiniteSet(DOMAIN C), NEW r, NEW s \in select_workers(C, r), NEW i \in DOMAIN s
  PROVE  s[i] \in DOMAIN C /\ Eligible(C[s[i]], r)
<1> DEFINE scored == {p \in DOMAIN C : Eligible(C[p], r)}
           n == Cardinality(scored)
<1>1. n \in Nat
  BY FS_Subset, FS_CardinalityType
<1>2. PICK q \in SetToSeqs(scored) : s = SubSeq(q, 1, IF Len(q) < 3 THEN Len(q) ELSE 3)
  BY DEF select_workers
<1>3. q \in [1..n -> scored]
  BY <1>2 DEF SetToSeqs
<1> HIDE DEF scored, n
<1>4. Len(q) = n
  BY <1>1, <1>3
<1>5. PICK m \in Nat : m <= n /\ s = SubSeq(q, 1, m)
  BY <1>1, <1>2, <1>4
<1>6. \A j \in 1..m : q[j] \in scored
  BY <1>1, <1>3, <1>5
<1>7. s \in Seq(scored)
  BY <1>5, <1>6, SubSeqProperties
<1>8. s[i] \in scored
  BY <1>7
<1> QED BY <1>8 DEF scored

(* A worker that is selected for a GPU job has a GPU with that backend and *)
(* enough memory, if its GPUs have one backend: also when the scheduler    *)
(* lost its capabilities and made some up from a heartbeat.                *)
THEOREM PicksFit == Spec => []PickFits
<1>1. ASSUME PoolInv, NEW r \in Request, NEW s \in select_workers(Candidates, r),
             NEW i \in DOMAIN s, r.required_backend # "CpuOnly", OneBackend(s[i])
      PROVE  \E g \in GpusOf[s[i]] : g.backend = r.required_backend /\ g.vram_mb >= r.memory_limit_mb
  <2>1. DOMAIN Candidates = Pool /\ IsFiniteSet(Pool)
    <3>1. Pool \in SUBSET Worker
      BY DEF Pool
    <3> QED BY <3>1, FS_Subset, PoolAssumption DEF Candidates
  <2>2. s[i] \in Pool /\ Eligible(Candidates[s[i]], r)
    BY <2>1, SelectedIsEligible
  <2>3. PICK w \in Worker : w = s[i] /\ online[w] # Absent /\ Candidates[w] = online[w]
    BY <2>2 DEF Pool, Candidates
  <2>4. online[w].gpus \in {{}, GpusOf[w]}
    BY <1>1, <2>3 DEF PoolInv, KnownInv
  <2>5. PICK g \in online[w].gpus : g.backend = r.required_backend
    BY <1>1, <2>2, <2>3 DEF Eligible, backend_matches
  <2>6. PICK h \in online[w].gpus : h.vram_mb >= r.memory_limit_mb
    BY <1>1, <2>2, <2>3 DEF Eligible, has_enough_vram
  <2>7. g \in GpusOf[w] /\ h \in GpusOf[w]
    BY <2>4, <2>5, <2>6
  <2>8. h.backend = r.required_backend
    BY <1>1, <2>3, <2>5, <2>7 DEF OneBackend
  <2> QED BY <2>3, <2>6, <2>7, <2>8
<1>2. PoolInv => PickFits
  BY <1>1 DEF PickFits
<1> QED BY <1>2, AlwaysPoolInv, PTL

=============================================================================
