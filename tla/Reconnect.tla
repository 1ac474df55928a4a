------------------------------ MODULE Reconnect -----------------------------
(***************************************************************************)
(* How the master and a worker keep their connection to the bootstrap      *)
(* node: the dials, timers and flags of MasterEventLoop and                *)
(* WorkerEventLoop, the rendezvous registrations the bootstrap node holds, *)
(* and its connection counter.  The loss of a connection is noticed at     *)
(* both ends in one step.  Delays are not modelled: a timer is armed or    *)
(* not.  The backoff (reconnect_attempts) only changes delays.             *)
(***************************************************************************)
EXTENDS Integers, FiniteSets

CONSTANTS MaxConns,    \* bound on the connections between two nodes
          MaxFaults,   \* bound on lost connections, failed dials, restarts and stops
          HasToken,    \* WORKER_AUTH_TOKEN is set
          MasterAddr,  \* WORKER_MASTER_ADDR is set
          NoNode

Peer == {"master", "worker"}
Node == Peer \cup {"bootstrap"}
Link == {l \in SUBSET Node : Cardinality(l) = 2}
Dial == {d \in [from : Peer, to : Node] : d.from # d.to}

ASSUME ReconnectAssumption == MaxConns \in Nat /\ NoNode \notin Node

VARIABLES
  bootUp,       \* the bootstrap node runs
  connections,  \* its counter, as /health reports it
  registered,   \* the peers that are registered at its rendezvous server
  conn,         \* the connections between two nodes
  dials,        \* the dials in progress
  boot,         \* bootstrap_peer_id of each loop
  reconnect,    \* its reconnect timer is armed
  reregister,   \* its re-registration timer is armed
  asking,       \* the loops that wait for an answer of the rendezvous server
  reconnecting, \* RECONNECTING of the master
  discovering,  \* the master waits for the list of workers
  masterKnown,  \* the worker's master_peer_id is set
  attempted,    \* its registration_attempted
  faults

serverVars == <<bootUp, connections, registered>>
linkVars == <<conn, dials>>
loopVars == <<boot, reconnect, reregister, asking, reconnecting, discovering, masterKnown, attempted>>
vars == <<serverVars, linkVars, loopVars, faults>>

Connected(n, p) == conn[{n, p}] > 0
FirstDial(n) == [from |-> n, to |-> "bootstrap"]
Running(n) == n = "bootstrap" => bootUp
Fault == faults < MaxFaults /\ faults' = faults + 1

Init ==
  /\ bootUp = TRUE /\ connections = 0 /\ registered = {}
  /\ conn = [l \in Link |-> 0]
  /\ dials = {FirstDial(n) : n \in Peer}
  /\ boot = [n \in Peer |-> NoNode]
  /\ reconnect = [n \in Peer |-> FALSE]
  /\ reregister = [n \in Peer |-> FALSE]
  /\ asking = {}
  /\ reconnecting = FALSE /\ discovering = FALSE
  /\ masterKnown = FALSE /\ attempted = FALSE
  /\ faults = 0

-----------------------------------------------------------------------------
(* Connections that end. *)

(* Whether n notices that it lost its bootstrap node: the master with the  *)
(* last connection, the worker with any.                                   *)
NotesLoss(n, cut, left) == \E l \in cut : /\ n \in l /\ boot[n] \in l
                                          /\ n = "master" => left[l] = 0

SaturatingSub(k) == IF connections < k THEN 0 ELSE connections - k

Total(c) == c[{"master", "bootstrap"}] + c[{"worker", "bootstrap"}]

(* The connections in `cut' shrink to `left'; the loops in `fresh' start.  *)
Lose(cut, left, fresh) ==
  LET notes(n) == NotesLoss(n, cut, left)
      old(n) == n \notin fresh
  IN
  /\ conn' = left
  /\ connections' = SaturatingSub(Total(conn) - Total(left))
  /\ dials' = {d \in dials : old(d.from)} \cup {FirstDial(n) : n \in fresh}
  /\ boot' = [n \in Peer |-> IF n \in fresh \/ (n = "worker" /\ notes(n)) THEN NoNode ELSE boot[n]]
  /\ reconnect' = [n \in Peer |-> old(n) /\ (reconnect[n] \/ notes(n))]
  /\ reregister' = [n \in Peer |-> old(n) /\ reregister[n]]
  /\ asking' = asking \ fresh
  /\ reconnecting' = (old("master") /\ reconnecting /\ ~notes("master"))
  /\ discovering' = (old("master") /\ discovering)
  /\ masterKnown' = (old("worker") /\ masterKnown)
  /\ attempted' = (old("worker") /\ attempted /\ ~notes("worker"))

Close(l) == /\ conn[l] > 0
            /\ Fault
            /\ Lose({l}, [conn EXCEPT ![l] = @ - 1], {})
            /\ UNCHANGED <<bootUp, registered>>

CloseAllOf(n, fresh) ==
  LET cut == {l \in Link : n \in l /\ conn[l] > 0} IN
  Lose(cut, [l \in Link |-> IF n \in l THEN 0 ELSE conn[l]], fresh)

(* A process starts again, with its key and so its peer id from disk; its  *)
(* registration stays at the rendezvous server for a while.                *)
Restart(n) == /\ Fault
              /\ CloseAllOf(n, {n})
              /\ UNCHANGED <<bootUp, registered>>

StopBootstrap == /\ bootUp /\ Fault
                 /\ bootUp' = FALSE /\ registered' = {}
                 /\ CloseAllOf("bootstrap", {})

StartBootstrap == /\ ~bootUp
                  /\ bootUp' = TRUE
                  /\ UNCHANGED <<connections, registered, linkVars, loopVars, faults>>

-----------------------------------------------------------------------------
(* Dials.  A dial of the bootstrap address does not name a peer. *)

Establish(d) ==
  /\ d \in dials /\ Running(d.to)
  /\ conn[{d.from, d.to}] < MaxConns
  /\ dials' = dials \ {d}
  /\ conn' = [conn EXCEPT ![{d.from, d.to}] = @ + 1]
  /\ connections' = IF d.to = "bootstrap" THEN connections + 1 ELSE connections
  /\ reconnecting' = IF d.from = "master" /\ boot["master"] = NoNode THEN FALSE ELSE reconnecting
  /\ UNCHANGED <<bootUp, registered, boot, reconnect, reregister, asking, discovering,
                 masterKnown, attempted, faults>>

(* Mutant: RECONNECTING is kept when the dial fails. *)
DialErrorKeepsFlag(d) ==
  IF d.from = "master" /\ d.to \in {"bootstrap", boot["master"]}
    THEN reconnect' = [reconnect EXCEPT !["master"] = TRUE] /\ UNCHANGED reconnecting
    ELSE UNCHANGED <<reconnecting, reconnect>>

(* Mutant: an error without a peer id is not the bootstrap node's. *)
DialErrorOfPeer(d) ==
  IF d.from = "master" /\ d.to # "bootstrap" /\ d.to = boot["master"]
    THEN reconnecting' = FALSE /\ reconnect' = [reconnect EXCEPT !["master"] = TRUE]
    ELSE UNCHANGED <<reconnecting, reconnect>>

(* The worker's loop only logs it. *)
DialError(d) ==
  IF d.from = "master" /\ d.to \in {"bootstrap", boot["master"]}
    THEN reconnecting' = FALSE /\ reconnect' = [reconnect EXCEPT !["master"] = TRUE]
    ELSE UNCHANGED <<reconnecting, reconnect>>

DialFails(d) ==
  /\ d \in dials
  /\ Running(d.to) => Fault
  /\ ~Running(d.to) => UNCHANGED faults
  /\ dials' = dials \ {d}
  /\ DialError(d)
  /\ UNCHANGED <<serverVars, conn, boot, reregister, asking, discovering, masterKnown, attempted>>

-----------------------------------------------------------------------------
(* The reconnect timers. *)

(* A second attempt waits for the first; swarm.dial itself may refuse.     *)
MasterReconnect ==
  /\ reconnect["master"]
  /\ \/ /\ ~reconnecting
        /\ reconnecting' = TRUE
        /\ dials' = dials \cup {FirstDial("master")}
        /\ reconnect' = [reconnect EXCEPT !["master"] = FALSE]
        /\ UNCHANGED faults
     \/ /\ ~reconnecting /\ Fault
        /\ UNCHANGED <<reconnecting, dials, reconnect>>
     \/ /\ reconnecting
        /\ UNCHANGED <<reconnecting, dials, reconnect, faults>>
  /\ UNCHANGED <<serverVars, conn, boot, reregister, asking, discovering, masterKnown, attempted>>

(* The timer is set again whatever happens, also while connected.          *)
WorkerReconnect ==
  /\ reconnect["worker"]
  /\ dials' = dials \cup {FirstDial("worker")}
  /\ UNCHANGED <<serverVars, conn, loopVars, faults>>

-----------------------------------------------------------------------------
(* Identification, at the start of a connection and every few minutes.     *)

(* The first peer that identifies is taken for the bootstrap node.         *)
NewBoot(n, p) == IF boot[n] = NoNode THEN [boot EXCEPT ![n] = p] ELSE boot

Identify(n, p) ==
  /\ n # p /\ Connected(n, p)
  /\ boot' = NewBoot(n, p)
  /\ asking' = IF boot[n] = NoNode THEN asking \cup {n} ELSE asking
  /\ discovering' = (discovering \/ (n = "master" /\ boot[n] = NoNode))
  /\ masterKnown' = (masterKnown \/ p = "master")
  /\ attempted' = (attempted \/ (p = "master" /\ HasToken))
  /\ UNCHANGED <<serverVars, linkVars, reconnect, reregister, reconnecting, faults>>

-----------------------------------------------------------------------------
(* Rendezvous.  A request to anybody but the bootstrap node fails.  *)

Served(n) == boot[n] = "bootstrap" /\ Connected(n, "bootstrap")

(* A worker dials the master, unless it is connected with the one it knows.  *)
DialMaster == IF MasterAddr /\ ~(masterKnown /\ Connected("worker", "master"))
                THEN dials \cup {[from |-> "worker", to |-> "master"]} ELSE dials

Registered(n) ==
  /\ n \in asking /\ Served(n)
  /\ asking' = asking \ {n}
  /\ registered' = registered \cup {n}
  /\ reregister' = [reregister EXCEPT ![n] = TRUE]
  /\ dials' = IF n = "worker" THEN DialMaster ELSE dials
  /\ UNCHANGED <<bootUp, connections, conn, boot, reconnect, reconnecting, discovering,
                 masterKnown, attempted, faults>>

(* The master tries again after 30 seconds; the worker only logs it.       *)
RegisterFailed(n) ==
  /\ n \in asking /\ ~Served(n)
  /\ asking' = asking \ {n}
  /\ reregister' = [reregister EXCEPT ![n] = @ \/ n = "master"]
  /\ UNCHANGED <<serverVars, linkVars, boot, reconnect, reconnecting, discovering,
                 masterKnown, attempted, faults>>

(* The timer, or a confirmed external address.                             *)
DoReregister(n) ==
  /\ boot[n] # NoNode
  /\ asking' = asking \cup {n}
  /\ UNCHANGED <<serverVars, linkVars, boot, reconnect, reregister, reconnecting, discovering,
                 masterKnown, attempted, faults>>

ReregisterTimer(n) == reregister[n] /\ DoReregister(n)

(* The master dials the workers that are registered, once.                 *)
Discovered ==
  /\ discovering
  /\ discovering' = FALSE
  /\ dials' = IF Served("master") /\ "worker" \in registered
                THEN dials \cup {[from |-> "master", to |-> "worker"]} ELSE dials
  /\ UNCHANGED <<serverVars, conn, boot, reconnect, reregister, asking, reconnecting,
                 masterKnown, attempted, faults>>

(* The server forgets a registration nobody renews.                        *)
Expired(n) ==
  /\ n \in registered /\ ~reregister[n]
  /\ registered' = registered \ {n}
  /\ UNCHANGED <<bootUp, connections, linkVars, loopVars, faults>>

-----------------------------------------------------------------------------
EndDial(d) == Establish(d) \/ (~Running(d.to) /\ DialFails(d))
EndRegister(n) == Registered(n) \/ RegisterFailed(n)

Next == \/ StopBootstrap \/ StartBootstrap \/ Discovered
        \/ MasterReconnect \/ WorkerReconnect
        \/ \E l \in Link : Close(l)
        \/ \E d \in Dial : Establish(d) \/ DialFails(d)
        \/ \E n \in Peer : \/ Restart(n) \/ Registered(n) \/ RegisterFailed(n)
                           \/ DoReregister(n) \/ Expired(n)
                           \/ \E p \in Node : Identify(n, p)

(* The loops run and their timers fire; a dial ends, an answer comes; a    *)
(* pair that stays connected identifies.  Nobody has to start a node.      *)
Fairness == /\ \A d \in Dial : WF_vars(EndDial(d))
            /\ \A n \in Peer : /\ WF_vars(EndRegister(n)) /\ WF_vars(ReregisterTimer(n))
                               /\ \A p \in Node : WF_vars(Identify(n, p))
            /\ WF_vars(MasterReconnect) /\ WF_vars(WorkerReconnect) /\ WF_vars(Discovered)

Spec == Init /\ [][Next]_vars
FairSpec == Spec /\ Fairness

-----------------------------------------------------------------------------
(* The types.  The counter of /health is right; only a worker that has a   *)
(* bootstrap node has registered; and a loop that is not running for its   *)
(* first connection, and once knew its bootstrap node, is connected with   *)
(* it, dials it, or will.                                                  *)
TypeOK ==
  /\ bootUp \in BOOLEAN
  /\ registered \subseteq Peer /\ asking \subseteq Peer /\ dials \subseteq Dial
  /\ conn \in [Link -> 0..MaxConns]
  /\ boot \in [Peer -> Node \cup {NoNode}]
  /\ reconnect \in [Peer -> BOOLEAN] /\ reregister \in [Peer -> BOOLEAN]
  /\ {reconnecting, discovering, masterKnown, attempted} \subseteq BOOLEAN
  /\ connections = Total(conn)
  /\ attempted => boot["worker"] # NoNode
  /\ boot["master"] = "bootstrap" => \/ Connected("master", "bootstrap")
                                     \/ FirstDial("master") \in dials
                                     \/ reconnect["master"]

(* If the bootstrap node stays up, the master that has identified it is    *)
(* connected with it and registered again for good, and so is a worker     *)
(* connected that ever lost it: no timer, flag or failed dial stops the    *)
(* attempts.                                                               *)
Reconnects ==
  /\ <>[](bootUp /\ boot["master"] = "bootstrap")
       => <>[](Connected("master", "bootstrap") /\ "master" \in registered)
  /\ <>[](bootUp /\ reconnect["worker"]) => <>[]Connected("worker", "bootstrap")
=============================================================================
