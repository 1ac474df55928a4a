--------------------------- MODULE Reconnect_proofs --------------------------
(***************************************************************************)
(* What Reconnect guarantees for any number of connections, faults and     *)
(* restarts:                                                               *)
(*   ReconnectTyping  the variables keep their types, the counter of       *)
(*                    /health is right, the worker has registered only     *)
(*                    with a bootstrap node it knows, and the master that  *)
(*                    lost its bootstrap node dials it, or will.           *)
(***************************************************************************)
EXTENDS Reconnect, FiniteSetTheorems, TLAPS

(* The parts of TypeOK. *)
Types ==
  /\ bootUp \in BOOLEAN
  /\ registered \subseteq Peer /\ asking \subseteq Peer /\ dials \subseteq Dial
  /\ conn \in [Link -> 0..MaxConns]
  /\ boot \in [Peer -> Node \cup {NoNode}]
  /\ reconnect \in [Peer -> BOOLEAN] /\ reregister \in [Peer -> BOOLEAN]
  /\ {reconnecting, discovering, masterKnown, attempted} \subseteq BOOLEAN

Counted == connections = Total(conn)

AttemptedKnows == attempted => boot["worker"] # NoNode

MasterTries == boot["master"] = "bootstrap" => \/ Connected("master", "bootstrap")
                                               \/ FirstDial("master") \in dials
                                               \/ reconnect["master"]

LEMMA Parts == TypeOK <=> Types /\ Counted /\ AttemptedKnows /\ MasterTries
  BY DEF TypeOK, Types, Counted, AttemptedKnows, MasterTries

-----------------------------------------------------------------------------
(* The links *)

LEMMA LinkOfTwo == ASSUME NEW n \in Node, NEW p \in Node, n # p PROVE {n, p} \in Link
  <1>1. IsFiniteSet({p}) /\ Cardinality({p}) = 1
    BY FS_Singleton
  <1>2. Cardinality({p} \cup {n}) = 2
    BY <1>1, FS_AddElement
  <1>3. {p} \cup {n} = {n, p}
    OBVIOUS
  <1> QED BY <1>2, <1>3 DEF Link

(* The two links the bootstrap node counts. *)
LEMMA BootLinks ==
  /\ {"master", "bootstrap"} \in Link /\ {"worker", "bootstrap"} \in Link
  /\ {"master", "bootstrap"} # {"worker", "bootstrap"}
  <1>1. {"master", "bootstrap"} \in Link
    BY LinkOfTwo DEF Node, Peer
  <1>2. {"worker", "bootstrap"} \in Link
    BY LinkOfTwo DEF Node, Peer
  <1>3. "master" \notin {"worker", "bootstrap"}
    OBVIOUS
  <1> QED BY <1>1, <1>2, <1>3

LEMMA ConnIsNat ==
  ASSUME NEW c \in [Link -> 0..MaxConns], NEW l \in Link
  PROVE  c[l] \in Nat /\ c[l] <= MaxConns
  <1>1. c[l] \in 0..MaxConns
    OBVIOUS
  <1> QED BY <1>1, ReconnectAssumption

LEMMA TotalIsNat ==
  ASSUME NEW c \in [Link -> 0..MaxConns]
  PROVE  /\ c[{"master", "bootstrap"}] \in Nat /\ c[{"worker", "bootstrap"}] \in Nat
         /\ Total(c) \in Nat
  BY BootLinks, ConnIsNat DEF Total

LEMMA FirstDialIsDial == ASSUME NEW n \in Peer PROVE FirstDial(n) \in Dial
  BY DEF FirstDial, Dial, Peer, Node

-----------------------------------------------------------------------------
(* Connections that end *)

LEMMA LoseKeepsInv ==
  ASSUME TypeOK, NEW cut, NEW left \in [Link -> 0..MaxConns], NEW fresh \in SUBSET Peer,
         Lose(cut, left, fresh),
         \A l \in Link : left[l] <= conn[l],
         \A l \in Link : conn[l] > 0 /\ left[l] = 0 => l \in cut,
         bootUp' \in BOOLEAN, registered' \subseteq Peer
  PROVE  TypeOK'
  <1> DEFINE MB == {"master", "bootstrap"}
             WB == {"worker", "bootstrap"}
  <1>0. Types /\ Counted /\ AttemptedKnows /\ MasterTries
    BY Parts
  <1>1. "master" \in Peer /\ "worker" \in Peer
    BY DEF Peer
  <1>2. Types'
    <2>1. conn' \in [Link -> 0..MaxConns]
      BY DEF Lose
    <2>2. dials' \subseteq Dial
      BY <1>0, FirstDialIsDial DEF Lose, Types
    <2>3. boot' \in [Peer -> Node \cup {NoNode}]
      BY <1>0 DEF Lose, Types
    <2>4. reconnect' \in [Peer -> BOOLEAN]
      BY <1>0 DEF Lose, Types
    <2>5. reregister' \in [Peer -> BOOLEAN]
      BY <1>0 DEF Lose, Types
    <2>6. asking' \subseteq Peer
      BY <1>0 DEF Lose, Types
    <2>7. /\ reconnecting' \in BOOLEAN /\ discovering' \in BOOLEAN
          /\ masterKnown' \in BOOLEAN /\ attempted' \in BOOLEAN
      BY DEF Lose
    <2> QED BY <2>1, <2>2, <2>3, <2>4, <2>5, <2>6, <2>7 DEF Types
  <1>3. Counted'
    <2>1. connections = Total(conn) /\ connections' = SaturatingSub(Total(conn) - Total(left))
          /\ conn' = left
      BY <1>0 DEF Lose, Counted
    <2>2. /\ conn[MB] \in Nat /\ conn[WB] \in Nat /\ left[MB] \in Nat /\ left[WB] \in Nat
          /\ left[MB] <= conn[MB] /\ left[WB] <= conn[WB]
      BY <1>0, TotalIsNat, BootLinks DEF Types
    <2>3. /\ Total(conn) = conn[MB] + conn[WB] /\ Total(left) = left[MB] + left[WB]
      BY DEF Total
    <2>4. SaturatingSub(Total(conn) - Total(left)) = Total(left)
      BY <2>1, <2>2, <2>3 DEF SaturatingSub
    <2> QED BY <2>1, <2>4 DEF Counted
  <1>4. AttemptedKnows'
    <2>1. attempted' => attempted /\ "worker" \notin fresh /\ ~NotesLoss("worker", cut, left)
      BY DEF Lose
    <2>2. boot'["worker"] = IF "worker" \in fresh \/ NotesLoss("worker", cut, left)
                              THEN NoNode ELSE boot["worker"]
      BY <1>1 DEF Lose
    <2> QED BY <1>0, <2>1, <2>2 DEF AttemptedKnows
  <1>5. MasterTries'
    <2> SUFFICES ASSUME boot'["master"] = "bootstrap", ~(conn'[MB] > 0),
                        ~(FirstDial("master") \in dials')
                 PROVE  reconnect'["master"]
      BY DEF MasterTries, Connected, FirstDial
    <2>1. "master" \notin fresh /\ boot["master"] = "bootstrap"
      <3>1. boot'["master"] = IF "master" \in fresh THEN NoNode ELSE boot["master"]
        BY <1>1 DEF Lose
      <3>2. NoNode # "bootstrap"
        BY ReconnectAssumption DEF Node
      <3> QED BY <3>1, <3>2
    <2>2. FirstDial("master") \notin dials
      BY <2>1 DEF Lose, FirstDial
    <2>3. reconnect'["master"] = (reconnect["master"] \/ NotesLoss("master", cut, left))
      BY <1>1, <2>1 DEF Lose
    <2>4. CASE conn[MB] > 0
      <3>1. left[MB] = 0
        BY BootLinks, ConnIsNat DEF Lose
      <3>2. MB \in cut
        BY <2>4, <3>1, BootLinks
      <3>3. NotesLoss("master", cut, left)
        BY <3>1, <3>2, <2>1 DEF NotesLoss
      <3> QED BY <2>3, <3>3
    <2>5. CASE ~(conn[MB] > 0)
      BY <1>0, <2>1, <2>2, <2>3, <2>5 DEF MasterTries, Connected
    <2> QED BY <2>4, <2>5
  <1> QED BY <1>2, <1>3, <1>4, <1>5 DEF TypeOK, Types, Counted, AttemptedKnows, MasterTries

LEMMA CloseKeepsInv ==
  ASSUME TypeOK, NEW l \in Link, Close(l)
  PROVE  TypeOK'
  <1> DEFINE left == [conn EXCEPT ![l] = @ - 1]
  <1>1. conn \in [Link -> 0..MaxConns] /\ conn[l] > 0
    BY DEF TypeOK, Close
  <1>2. conn[l] \in Nat /\ conn[l] <= MaxConns
    BY <1>1, ConnIsNat
  <1>3. conn[l] - 1 \in 0..MaxConns
    BY <1>1, <1>2, ReconnectAssumption
  <1>4. left \in [Link -> 0..MaxConns]
    BY <1>1, <1>3
  <1>5. \A k \in Link : left[k] <= conn[k] /\ (conn[k] > 0 /\ left[k] = 0 => k \in {l})
    <2> TAKE k \in Link
    <2>1. conn[k] \in Nat
      BY <1>1, ConnIsNat
    <2>2. left[k] = IF k = l THEN conn[l] - 1 ELSE conn[k]
      BY <1>1
    <2> QED BY <2>1, <2>2
  <1>6. Lose({l}, left, {}) /\ bootUp' = bootUp /\ registered' = registered
    BY DEF Close
  <1>7. bootUp' \in BOOLEAN /\ registered' \subseteq Peer
    BY <1>6 DEF TypeOK
  <1> HIDE DEF left
  <1> QED BY <1>4, <1>5, <1>6, <1>7, LoseKeepsInv

LEMMA CloseAllKeepsInv ==
  ASSUME TypeOK, NEW n \in Node, NEW fresh \in SUBSET Peer, CloseAllOf(n, fresh),
         bootUp' \in BOOLEAN, registered' \subseteq Peer
  PROVE  TypeOK'
  <1> DEFINE left == [l \in Link |-> IF n \in l THEN 0 ELSE conn[l]]
             cut == {l \in Link : n \in l /\ conn[l] > 0}
  <1>1. conn \in [Link -> 0..MaxConns]
    BY DEF TypeOK
  <1>2. left \in [Link -> 0..MaxConns]
    <2>1. 0 \in 0..MaxConns
      BY ReconnectAssumption
    <2> QED BY <1>1, <2>1
  <1>3. \A k \in Link : left[k] <= conn[k] /\ (conn[k] > 0 /\ left[k] = 0 => k \in cut)
    <2> TAKE k \in Link
    <2>1. conn[k] \in Nat
      BY <1>1, ConnIsNat
    <2> QED BY <2>1
  <1>4. Lose(cut, left, fresh)
    BY DEF CloseAllOf
  <1> HIDE DEF left, cut
  <1> QED BY <1>2, <1>3, <1>4, LoseKeepsInv

-----------------------------------------------------------------------------
(* Dials *)

LEMMA EstablishKeepsInv ==
  ASSUME TypeOK, NEW d \in Dial, Establish(d)
  PROVE  TypeOK'
  <1> DEFINE k == {d.from, d.to}
             MB == {"master", "bootstrap"}
             WB == {"worker", "bootstrap"}
  <1>0. Types /\ Counted /\ AttemptedKnows /\ MasterTries
    BY Parts
  <1>1. d.from \in Peer /\ d.from \in Node /\ d.to \in Node /\ d.from # d.to
    BY DEF Dial, Node
  <1>2. k \in Link
    BY <1>1, LinkOfTwo
  <1>3. conn \in [Link -> 0..MaxConns] /\ conn' = [conn EXCEPT ![k] = @ + 1]
    BY <1>0 DEF Types, Establish
  <1>4. conn[k] \in Nat /\ conn[k] + 1 \in 0..MaxConns
    <2>1. conn[k] \in Nat /\ conn[k] < MaxConns
      BY <1>2, <1>3, ConnIsNat DEF Establish
    <2> QED BY <2>1, ReconnectAssumption
  <1>5. /\ dials' = dials \ {d} /\ boot' = boot /\ attempted' = attempted
        /\ reconnect' = reconnect
    BY DEF Establish
  <1>6. Types'
    <2>1. conn' \in [Link -> 0..MaxConns]
      <3> HIDE DEF k
      <3> QED BY <1>2, <1>3, <1>4
    <2>2. reconnecting' \in BOOLEAN
      BY <1>0 DEF Types, Establish
    <2> QED BY <1>0, <2>1, <2>2 DEF Types, Establish
  <1>7. Counted'
    <2>1. d.to = "bootstrap" => k = MB \/ k = WB
      BY <1>1 DEF Peer
    <2>2. d.to # "bootstrap" => k # MB /\ k # WB
      BY <1>1 DEF Peer
    <2>3. /\ conn'[MB] = IF k = MB THEN conn[MB] + 1 ELSE conn[MB]
          /\ conn'[WB] = IF k = WB THEN conn[WB] + 1 ELSE conn[WB]
      <3> HIDE DEF k, MB, WB
      <3>1. MB \in Link /\ WB \in Link
        BY BootLinks DEF MB, WB
      <3> QED BY <1>3, <3>1
    <2>4. connections' = IF d.to = "bootstrap" THEN connections + 1 ELSE connections
      BY DEF Establish
    <2>5. conn[MB] \in Nat /\ conn[WB] \in Nat /\ MB # WB
      BY <1>3, TotalIsNat, BootLinks
    <2>6. connections = conn[MB] + conn[WB]
      BY <1>0 DEF Counted, Total
    <2>7. connections' = conn'[MB] + conn'[WB]
      <3> HIDE DEF k, MB, WB
      <3> QED BY <2>1, <2>2, <2>3, <2>4, <2>5, <2>6
    <2> QED BY <2>7 DEF Counted, Total
  <1>8. AttemptedKnows'
    BY <1>0, <1>5 DEF AttemptedKnows
  <1>9. MasterTries'
    <2>1. \A l \in Link : conn[l] > 0 => conn'[l] > 0
      <3> TAKE l \in Link
      <3>1. conn[l] \in Nat
        BY <1>3, ConnIsNat
      <3> HIDE DEF k
      <3> QED BY <1>3, <3>1
    <2>2. d = FirstDial("master") => conn'[MB] > 0
      <3>1. d = FirstDial("master") => k = MB
        BY DEF FirstDial
      <3>2. conn'[k] = conn[k] + 1
        <4> HIDE DEF k
        <4> QED BY <1>2, <1>3
      <3> HIDE DEF k
      <3> QED BY <3>1, <3>2, <1>4
    <2> QED BY <1>0, <1>5, <2>1, <2>2, BootLinks DEF MasterTries, Connected
  <1> QED BY <1>6, <1>7, <1>8, <1>9 DEF TypeOK, Types, Counted, AttemptedKnows, MasterTries

LEMMA DialFailsKeepsInv ==
  ASSUME TypeOK, NEW d \in Dial, DialFails(d)
  PROVE  TypeOK'
  <1>1. /\ boot' = boot /\ conn' = conn /\ connections' = connections /\ attempted' = attempted
        /\ dials' = dials \ {d}
    BY DEF DialFails, serverVars
  <1>2. \/ reconnecting' = FALSE /\ reconnect' = [reconnect EXCEPT !["master"] = TRUE]
        \/ UNCHANGED <<reconnecting, reconnect>> /\ ~(d.from = "master" /\ d.to = "bootstrap")
    BY DEF DialFails, DialError
  <1>3. Types'
    BY <1>1, <1>2 DEF TypeOK, Types, DialFails, serverVars
  <1>4. MasterTries'
    <2>1. reconnect \in [Peer -> BOOLEAN] /\ "master" \in Peer
      BY DEF TypeOK, Peer
    <2>2. d = FirstDial("master") => reconnect'["master"]
      BY <1>2, <2>1 DEF FirstDial
    <2>3. reconnect["master"] => reconnect'["master"]
      BY <1>2, <2>1
    <2> QED BY <1>1, <2>2, <2>3 DEF TypeOK, MasterTries, Connected
  <1> QED BY <1>1, <1>3, <1>4 DEF TypeOK, Types, MasterTries

LEMMA MasterReconnectKeepsInv ==
  ASSUME TypeOK, MasterReconnect
  PROVE  TypeOK'
  <1>1. /\ boot' = boot /\ conn' = conn /\ connections' = connections /\ attempted' = attempted
        /\ bootUp' = bootUp /\ registered' = registered /\ asking' = asking
        /\ reregister' = reregister /\ discovering' = discovering /\ masterKnown' = masterKnown
    BY DEF MasterReconnect, serverVars
  <1>2. \/ /\ reconnecting' = TRUE /\ dials' = dials \cup {FirstDial("master")}
           /\ reconnect' = [reconnect EXCEPT !["master"] = FALSE]
        \/ UNCHANGED <<reconnecting, dials, reconnect>>
    BY DEF MasterReconnect
  <1>3. FirstDial("master") \in Dial
    BY FirstDialIsDial DEF Peer
  <1>4. Types'
    BY <1>1, <1>2, <1>3 DEF TypeOK, Types
  <1>5. MasterTries'
    BY <1>1, <1>2 DEF TypeOK, MasterTries, Connected
  <1> QED BY <1>1, <1>4, <1>5 DEF TypeOK, Types, MasterTries

LEMMA WorkerReconnectKeepsInv ==
  ASSUME TypeOK, WorkerReconnect
  PROVE  TypeOK'
  <1>1. FirstDial("worker") \in Dial
    BY FirstDialIsDial DEF Peer
  <1> QED BY <1>1 DEF TypeOK, WorkerReconnect, serverVars, loopVars, Connected

-----------------------------------------------------------------------------
(* Identification and rendezvous *)

LEMMA IdentifyKeepsInv ==
  ASSUME TypeOK, NEW n \in Peer, NEW p \in Node, Identify(n, p)
  PROVE  TypeOK'
  <1>1. /\ bootUp' = bootUp /\ registered' = registered /\ dials' = dials /\ conn' = conn
        /\ connections' = connections /\ reconnect' = reconnect
        /\ reregister' = reregister /\ reconnecting' = reconnecting
    BY DEF Identify, serverVars, linkVars
  <1>2. boot' = IF boot[n] = NoNode THEN [boot EXCEPT ![n] = p] ELSE boot
    BY DEF Identify, NewBoot
  <1>3. NoNode \notin Node
    BY ReconnectAssumption
  <1>4. Types'
    <2>1. boot' \in [Peer -> Node \cup {NoNode}]
      BY <1>2 DEF TypeOK
    <2>2. asking' \subseteq Peer
      BY DEF TypeOK, Identify
    <2>3. discovering' \in BOOLEAN /\ masterKnown' \in BOOLEAN /\ attempted' \in BOOLEAN
      BY DEF Identify
    <2> QED BY <1>1, <2>1, <2>2, <2>3 DEF TypeOK, Types
  <1>5. AttemptedKnows'
    <2>1. attempted' => attempted \/ n = "worker"
      BY DEF Identify, Peer
    <2>2. boot \in [Peer -> Node \cup {NoNode}] /\ "worker" \in Peer
      BY DEF TypeOK, Peer
    <2>3. n = "worker" => boot'["worker"] # NoNode
      BY <1>2, <1>3, <2>2
    <2>4. boot["worker"] # NoNode => boot'["worker"] # NoNode
      BY <1>2, <1>3, <2>2
    <2> QED BY <2>1, <2>3, <2>4 DEF TypeOK, AttemptedKnows
  <1>6. MasterTries'
    <2>1. boot \in [Peer -> Node \cup {NoNode}] /\ "master" \in Peer
      BY DEF TypeOK, Peer
    <2>2. boot'["master"] = boot["master"] \/ (n = "master" /\ boot'["master"] = p)
      BY <1>2, <2>1
    <2>3. Connected(n, p)
      BY DEF Identify
    <2> QED BY <1>1, <2>2, <2>3 DEF TypeOK, MasterTries, Connected
  <1> QED BY <1>1, <1>4, <1>5, <1>6 DEF TypeOK, Types, AttemptedKnows, MasterTries

(* Steps that keep the connections, the counter and what the loops know.   *)
LEMMA RendezvousKeepsInv ==
  ASSUME TypeOK, UNCHANGED <<conn, connections, bootUp, boot, reconnect, reconnecting,
                             masterKnown, attempted>>,
         dials \subseteq dials', dials' \subseteq Dial,
         registered' \subseteq Peer, asking' \subseteq Peer,
         reregister' \in [Peer -> BOOLEAN], discovering' \in BOOLEAN
  PROVE  TypeOK'
  BY DEF TypeOK, Connected

LEMMA LoopKeepsInv ==
  ASSUME TypeOK, NEW n \in Peer,
         Registered(n) \/ RegisterFailed(n) \/ DoReregister(n) \/ Expired(n)
  PROVE  TypeOK'
  <1>1. CASE Registered(n)
    <2>1. [from |-> "worker", to |-> "master"] \in Dial
      BY DEF Dial, Peer, Node
    <2>2. dials \subseteq dials' /\ dials' \subseteq Dial
      BY <1>1, <2>1 DEF Registered, DialMaster, TypeOK
    <2> QED BY <1>1, <2>2, RendezvousKeepsInv DEF Registered, TypeOK
  <1>2. CASE RegisterFailed(n)
    <2>1. reregister' \in [Peer -> BOOLEAN]
      BY <1>2 DEF RegisterFailed, TypeOK
    <2> QED BY <1>2, <2>1, RendezvousKeepsInv DEF RegisterFailed, TypeOK, serverVars, linkVars
  <1>3. CASE DoReregister(n)
    BY <1>3, RendezvousKeepsInv DEF DoReregister, TypeOK, serverVars, linkVars
  <1>4. CASE Expired(n)
    BY <1>4, RendezvousKeepsInv DEF Expired, TypeOK, linkVars, loopVars
  <1> QED BY <1>1, <1>2, <1>3, <1>4

LEMMA DiscoveredKeepsInv ==
  ASSUME TypeOK, Discovered
  PROVE  TypeOK'
  <1>1. [from |-> "master", to |-> "worker"] \in Dial
    BY DEF Dial, Peer, Node
  <1>2. dials \subseteq dials' /\ dials' \subseteq Dial
    BY <1>1 DEF Discovered, TypeOK
  <1> QED BY <1>2, RendezvousKeepsInv DEF Discovered, TypeOK, serverVars

-----------------------------------------------------------------------------
LEMMA InitInv == Init => TypeOK
  <1> SUFFICES ASSUME Init PROVE Types /\ Counted /\ AttemptedKnows /\ MasterTries
    BY Parts
  <1>1. Types
    <2>1. 0 \in 0..MaxConns
      BY ReconnectAssumption
    <2>2. \A n \in Peer : FirstDial(n) \in Dial
      BY FirstDialIsDial
    <2> QED BY <2>1, <2>2 DEF Init, Types
  <1>2. Counted
    BY BootLinks DEF Init, Counted, Total
  <1>3. AttemptedKnows
    BY DEF Init, AttemptedKnows
  <1>4. MasterTries
    BY DEF Init, MasterTries, Peer
  <1> QED BY <1>1, <1>2, <1>3, <1>4

LEMMA NextKeepsInv == TypeOK /\ [Next]_vars => TypeOK'
  <1> SUFFICES ASSUME TypeOK, [Next]_vars PROVE TypeOK'
    OBVIOUS
  <1>1. CASE StopBootstrap
    <2>1. /\ CloseAllOf("bootstrap", {}) /\ "bootstrap" \in Node
          /\ bootUp' = FALSE /\ registered' = {}
      BY <1>1 DEF StopBootstrap, Node
    <2> QED BY <2>1, CloseAllKeepsInv
  <1>2. CASE StartBootstrap
    BY <1>2 DEF StartBootstrap, TypeOK, Connected, linkVars, loopVars
  <1>3. ASSUME NEW n \in Peer, Restart(n) PROVE TypeOK'
    <2>1. /\ CloseAllOf(n, {n}) /\ n \in Node /\ {n} \in SUBSET Peer
          /\ bootUp' \in BOOLEAN /\ registered' \subseteq Peer
      BY <1>3 DEF Restart, Node, TypeOK
    <2> QED BY <2>1, CloseAllKeepsInv
  <1>4. CASE UNCHANGED vars
    BY <1>4 DEF vars, serverVars, linkVars, loopVars, TypeOK, Connected
  <1> QED BY <1>1, <1>2, <1>3, <1>4, CloseKeepsInv, EstablishKeepsInv, DialFailsKeepsInv,
             MasterReconnectKeepsInv, WorkerReconnectKeepsInv, IdentifyKeepsInv, LoopKeepsInv,
             DiscoveredKeepsInv
          DEF Next

-----------------------------------------------------------------------------
(* The counter of /health is the number of connections; the worker has     *)
(* registered only while it knows its bootstrap node; and the master that  *)
(* knows its bootstrap node is connected with it, dials it, or has a timer *)
(* to: no failed dial, restart or second connection stops it.              *)
THEOREM ReconnectTyping == Spec => []TypeOK
  BY InitInv, NextKeepsInv, PTL DEF Spec
=============================================================================
