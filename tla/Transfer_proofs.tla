-------------------------- MODULE Transfer_proofs --------------------------
(***************************************************************************)
(* What Transfer guarantees for files of every length and content:         *)
(*   TransferTyping    the variables keep their types;                     *)
(*   OneChunkAtATime   the inductive invariant TransferInv;                *)
(*   StaysInStep       no chunk is skipped, repeated or taken damaged;     *)
(*   RefinesCopy       every behaviour is one of AtomicCopy.               *)
(***************************************************************************)
EXTENDS Transfer, SequenceTheorems, TLAPS

-----------------------------------------------------------------------------
(* Facts about short sequences *)

(* What is sent into an empty stream is alone there. *)
LEMMA AppendToEmpty ==
  ASSUME NEW S, NEW q \in Seq(S), q = <<>>, NEW x \in S
  PROVE  Append(q, x) \in Seq(S) /\ Len(Append(q, x)) = 1 /\ Append(q, x)[1] = x
  OBVIOUS

(* What is read from a stream with one message leaves nothing behind. *)
LEMMA ReadTheOnly ==
  ASSUME NEW S, NEW q \in Seq(S), q # <<>>, Len(q) <= 1
  PROVE  Head(q) \in S /\ Head(q) = q[1] /\ Tail(q) = <<>> /\ Tail(q) \in Seq(S)
<1>1. Len(q) = 1
  <2>1. Len(q) \in Nat \ {0}
    BY EmptySeq
  <2> QED BY <2>1
<1>2. Tail(q) \in Seq(S) /\ Len(Tail(q)) = 0
  BY <1>1, HeadTailProperties
<1>3. Tail(q) = <<>>
  BY <1>2, EmptySeq
<1>4. Head(q) \in S /\ Head(q) = q[1]
  BY <1>1, ElementOfSeq
<1> QED BY <1>2, <1>3, <1>4

(* Two sequences with the same elements up to their common length. *)
LEMMA SamePrefix ==
  ASSUME NEW S, NEW s \in Seq(S), NEW t \in Seq(S), Len(s) <= Len(t),
         \A i \in 1..Len(s) : s[i] = t[i]
  PROVE  s = SubSeq(t, 1, Len(s))
<1>1. Len(s) \in Nat /\ Len(t) \in Nat
  BY LenProperties
<1>2. \A i \in 1..Len(s) : t[i] \in S
  BY <1>1, ElementOfSeq
<1>3. SubSeq(t, 1, Len(s)) \in Seq(S)
  BY <1>1, <1>2, SubSeqProperties
<1>4. Len(SubSeq(t, 1, Len(s))) = Len(s)
  BY <1>1, <1>2, SubSeqProperties
<1>5. \A i \in 1..Len(s) : SubSeq(t, 1, Len(s))[i] = t[i]
  BY <1>1, <1>2, SubSeqProperties
<1> QED BY <1>3, <1>4, <1>5, SeqEqual

(* They are one sequence when they are of one length. *)
LEMMA SameLength ==
  ASSUME NEW S, NEW s \in Seq(S), NEW t \in Seq(S), \A i \in 1..Len(s) : s[i] = t[i]
  PROVE  s = t <=> Len(s) = Len(t)
  BY SeqEqual

(* A sequence is what it is cut to at any length it has. *)
LEMMA CutIsSeq ==
  ASSUME NEW S, NEW s \in Seq(S), NEW n \in 0..Len(s)
  PROVE  SubSeq(s, 1, n) \in Seq(S)
<1>1. Len(s) \in Nat /\ \A i \in 1..n : s[i] \in S
  BY LenProperties, ElementOfSeq
<1> QED BY <1>1, SubSeqProperties

-----------------------------------------------------------------------------
(* The steps of the sender *)

LEMMA InitInv == Init => TransferInv
<1> SUFFICES ASSUME Init PROVE TransferInv
  OBVIOUS
<1>1. file \in Seq(Chunk)
  BY SeqDef, TransferAssumption DEF Init, File
<1>2. TypeOK
  BY <1>1, EmptySeq DEF Init, TypeOK
<1>3. Len(file) \in Nat
  BY <1>1, LenProperties
<1> QED BY <1>2, <1>3 DEF Init, TransferInv, OneOnItsWay, ChunksAreNext, AcksAreTrue,
                          SenderInStep, KeptInStep

(* Only the sender moves, and nothing is on its way afterwards that was not before. *)
LEMMA SendChunkInv == TransferInv /\ SendChunk => TransferInv'
<1> SUFFICES ASSUME TransferInv, SendChunk PROVE TransferInv'
  OBVIOUS
<1> DEFINE c == [data |-> file[offset + 1], sha256 |-> file[offset + 1],
                 is_last |-> offset + 1 = Len(file)]
<1>1. TypeOK /\ OneOnItsWay /\ SenderInStep /\ KeptInStep
  BY DEF TransferInv
<1>2. /\ sPc = "send" /\ offset < Len(file) /\ sPc' = "wait"
      /\ toR' = Deliver(toR, c)
      /\ UNCHANGED <<file, offset, rPc, chunk, got, out, toS, stream>>
  BY DEF SendChunk, receiver
<1>3. toR = <<>> /\ toS = <<>> /\ rPc # "ack" /\ Len(got) = offset
  BY <1>1, <1>2 DEF SenderInStep
<1>4. c \in TransferChunk
  <2>1. file[offset + 1] \in Chunk
    BY <1>1, <1>2, LenProperties, ElementOfSeq DEF TypeOK
  <2> QED BY <2>1 DEF TransferChunk
<1>5. /\ toR' \in Seq(TransferChunk) /\ Len(toR') <= 1
      /\ toR' # <<>> => toR'[1] = c
  <2> HIDE DEF c
  <2>1. CASE stream = "up"
    BY <2>1, <1>1, <1>2, <1>3, <1>4, AppendToEmpty DEF Deliver, TypeOK
  <2>2. CASE stream # "up"
    BY <2>2, <1>1, <1>2, <1>3 DEF Deliver, TypeOK
  <2> QED BY <2>1, <2>2
<1>6. TypeOK'
  BY <1>1, <1>2, <1>5 DEF TypeOK
<1>7. OneOnItsWay'
  BY <1>1, <1>2, <1>3, <1>5 DEF OneOnItsWay
<1>8. ChunksAreNext' /\ AcksAreTrue'
  BY <1>2, <1>3, <1>5 DEF ChunksAreNext, IsNext, AcksAreTrue
<1>9. SenderInStep' /\ KeptInStep'
  BY <1>1, <1>2 DEF SenderInStep, KeptInStep
<1> QED BY <1>6, <1>7, <1>8, <1>9 DEF TransferInv

LEMMA ReadAckInv == TransferInv /\ ReadAck => TransferInv'
<1> SUFFICES ASSUME TransferInv, ReadAck PROVE TransferInv'
  OBVIOUS
<1>1. TypeOK /\ OneOnItsWay /\ AcksAreTrue /\ SenderInStep /\ KeptInStep
  BY DEF TransferInv
<1>2. /\ sPc = "wait" /\ toS # <<>> /\ toS' = Tail(toS)
      /\ IF Head(toS) THEN sPc' = "send" /\ offset' = offset + 1
                      ELSE sPc' = "failed" /\ offset' = offset
      /\ UNCHANGED <<file, rPc, chunk, got, out, toR, stream>>
  BY DEF ReadAck, receiver
<1>3. toS' = <<>> /\ toS' \in Seq(BOOLEAN) /\ Head(toS) = toS[1] /\ Head(toS) \in BOOLEAN
  BY <1>1, <1>2, ReadTheOnly DEF TypeOK, OneOnItsWay
<1>4. toR = <<>> /\ rPc # "ack"
  BY <1>1, <1>2 DEF OneOnItsWay
<1>5. /\ offset < Len(file) /\ Len(file) \in Nat /\ offset \in Nat
      /\ Len(got) = IF Head(toS) THEN offset + 1 ELSE offset
  BY <1>1, <1>2, <1>3, LenProperties DEF TypeOK, SenderInStep, AcksAreTrue
<1>6. TypeOK'
  <2>1. sPc' \in {"send", "failed"} /\ offset' \in Nat
    <3>1. \/ sPc' = "send" /\ offset' = offset + 1
          \/ sPc' = "failed" /\ offset' = offset
      BY <1>2, Zenon
    <3>2. offset \in Nat
      BY <1>1 DEF TypeOK
    <3> QED BY <3>1, <3>2
  <2> QED BY <1>1, <1>2, <1>3, <2>1 DEF TypeOK, Ended
<1>7. OneOnItsWay' /\ ChunksAreNext' /\ AcksAreTrue'
  BY <1>1, <1>2, <1>3, <1>4 DEF OneOnItsWay, ChunksAreNext, AcksAreTrue
<1>8. SenderInStep'
  BY <1>2, <1>3, <1>4, <1>5 DEF SenderInStep
<1>9. KeptInStep'
  BY <1>1, <1>2, <1>3, <1>5 DEF KeptInStep
<1> QED BY <1>6, <1>7, <1>8, <1>9 DEF TransferInv

(* Steps of the sender that touch neither the stream nor the file. *)
LEMMA SenderStopsInv ==
  TransferInv /\ (ReadFile \/ SendComplete \/ AckTimeout \/ SenderEof) => TransferInv'
<1> SUFFICES ASSUME TransferInv, ReadFile \/ SendComplete \/ AckTimeout \/ SenderEof
             PROVE  TransferInv'
  OBVIOUS
<1>1. TypeOK /\ OneOnItsWay /\ ChunksAreNext /\ AcksAreTrue /\ SenderInStep /\ KeptInStep
  BY DEF TransferInv
<1>2. /\ UNCHANGED <<file, offset, rPc, chunk, got, out, toR, toS, stream>>
      /\ \/ sPc = "start" /\ sPc' \in {"send", "failed"}
         \/ sPc = "send" /\ offset = Len(file) /\ sPc' = "ok"
         \/ sPc' = "failed"
  BY DEF ReadFile, SendComplete, AckTimeout, SenderEof, receiver
<1>3. TypeOK'
  BY <1>1, <1>2 DEF TypeOK, Ended
<1>4. OneOnItsWay' /\ ChunksAreNext' /\ AcksAreTrue'
  BY <1>1, <1>2 DEF OneOnItsWay, ChunksAreNext, IsNext, AcksAreTrue
<1>5. SenderInStep'
  BY <1>1, <1>2 DEF SenderInStep
<1>6. KeptInStep'
  BY <1>1, <1>2 DEF KeptInStep
<1> QED BY <1>3, <1>4, <1>5, <1>6 DEF TransferInv

-----------------------------------------------------------------------------
(* The steps of the receiver *)

LEMMA ReadChunkInv == TransferInv /\ ReadChunk => TransferInv'
<1> SUFFICES ASSUME TransferInv, ReadChunk PROVE TransferInv'
  OBVIOUS
<1>1. TypeOK /\ OneOnItsWay /\ ChunksAreNext /\ SenderInStep /\ KeptInStep
  BY DEF TransferInv
<1>2. /\ rPc = "read" /\ toR # <<>> /\ chunk' = Head(toR) /\ toR' = Tail(toR) /\ rPc' = "ack"
      /\ UNCHANGED <<file, sPc, offset, got, out, toS, stream>>
  BY DEF ReadChunk
<1>3. /\ toR' = <<>> /\ toR' \in Seq(TransferChunk)
      /\ chunk' = toR[1] /\ chunk' \in TransferChunk
  BY <1>1, <1>2, ReadTheOnly DEF TypeOK, OneOnItsWay
<1>4. TypeOK'
  BY <1>1, <1>2, <1>3 DEF TypeOK
<1>5. OneOnItsWay'
  BY <1>1, <1>2, <1>3, TransferAssumption DEF OneOnItsWay
<1>6. ChunksAreNext' /\ AcksAreTrue'
  BY <1>1, <1>2, <1>3 DEF OneOnItsWay, ChunksAreNext, IsNext, AcksAreTrue
<1>7. SenderInStep' /\ KeptInStep'
  BY <1>1, <1>2 DEF SenderInStep, KeptInStep
<1> QED BY <1>4, <1>5, <1>6, <1>7 DEF TransferInv

LEMMA WriteAckInv == TransferInv /\ WriteAck => TransferInv'
<1> SUFFICES ASSUME TransferInv, WriteAck PROVE TransferInv'
  OBVIOUS
<1>1. TypeOK /\ OneOnItsWay /\ ChunksAreNext /\ SenderInStep /\ KeptInStep
  BY DEF TransferInv
<1>2. /\ rPc = "ack" /\ toS' = Deliver(toS, Intact(chunk)) /\ chunk' = NoChunk
      /\ IF Intact(chunk)
           THEN /\ got' = Append(got, chunk.data)
                /\ rPc' = IF chunk.is_last THEN "write" ELSE "read"
           ELSE rPc' = "failed" /\ got' = got
      /\ UNCHANGED <<file, sPc, offset, out, toR, stream>>
  BY DEF WriteAck
<1>3. toR = <<>> /\ toS = <<>> /\ chunk \in TransferChunk
  BY <1>1, <1>2 DEF TypeOK, OneOnItsWay
<1>4. /\ offset < Len(file) /\ Len(got) = offset
      /\ chunk.sha256 = file[offset + 1]
      /\ chunk.is_last = (offset + 1 = Len(file))
  BY <1>1, <1>2 DEF ChunksAreNext, IsNext
<1>5. Intact(chunk) \in BOOLEAN /\ chunk.sha256 \in Chunk /\ Len(file) \in Nat /\ offset \in Nat
  BY <1>1, <1>3, LenProperties DEF Intact, TransferChunk, TypeOK
<1>6. toS' \in Seq(BOOLEAN) /\ Len(toS') <= 1 /\ (toS' # <<>> => toS'[1] = Intact(chunk))
  <2>1. CASE stream = "up"
    BY <2>1, <1>2, <1>3, <1>1, <1>5, AppendToEmpty DEF Deliver, TypeOK
  <2>2. CASE stream # "up"
    BY <2>2, <1>1, <1>2, <1>3 DEF Deliver, TypeOK
  <2> QED BY <2>1, <2>2
<1>7. ASSUME Intact(chunk)
      PROVE  /\ got' \in Seq(Chunk) /\ Len(got') = offset + 1
             /\ \A i \in 1..Len(got') : got'[i] = file[i]
  <2>1. chunk.data = file[offset + 1] /\ chunk.data \in Chunk
    BY <1>7, <1>4, <1>5 DEF Intact
  <2>2. got' = Append(got, chunk.data) /\ got \in Seq(Chunk)
    BY <1>1, <1>2, <1>7 DEF TypeOK
  <2>3. got' \in Seq(Chunk) /\ Len(got') = offset + 1
    BY <2>1, <2>2, <1>4, <1>5
  <2>4. \A i \in 1..offset : got'[i] = got[i]
    BY <2>1, <2>2, <1>4, <1>5
  <2>5. got'[offset + 1] = chunk.data
    BY <2>1, <2>2, <1>4, <1>5
  <2>6. \A i \in 1..offset : got[i] = file[i]
    BY <1>1, <1>4 DEF KeptInStep
  <2>7. \A i \in 1..(offset + 1) : i \in 1..offset \/ i = offset + 1
    BY <1>5
  <2> QED BY <2>1, <2>3, <2>4, <2>5, <2>6, <2>7
<1>8. TypeOK'
  BY <1>1, <1>2, <1>6, <1>7 DEF TypeOK, Ended
<1>9. OneOnItsWay' /\ ChunksAreNext'
  BY <1>2, <1>3, <1>6 DEF OneOnItsWay, ChunksAreNext
<1>10. AcksAreTrue'
  BY <1>2, <1>4, <1>5, <1>6, <1>7 DEF AcksAreTrue
<1>11. SenderInStep'
  BY <1>1, <1>2 DEF SenderInStep
<1>12. KeptInStep'
  <2>1. CASE Intact(chunk)
    <3>1. file # <<>>
      BY <1>4, <1>5, <1>1, EmptySeq DEF TypeOK
    <3>2. rPc' = (IF chunk.is_last THEN "write" ELSE "read") /\ UNCHANGED <<file, offset>>
      BY <2>1, <1>2
    <3>3. Len(got') = offset + 1 /\ \A i \in 1..Len(got') : got'[i] = file[i]
      BY <2>1, <1>7
    <3>4. rPc' \in {"write", "ok"} => Len(got') = Len(file)
      BY <3>2, <3>3, <1>4
    <3> QED BY <3>1, <3>2, <3>3, <3>4, <1>4, <1>5 DEF KeptInStep
  <2>2. CASE ~Intact(chunk)
    BY <2>2, <1>1, <1>2 DEF KeptInStep
  <2> QED BY <2>1, <2>2
<1> QED BY <1>8, <1>9, <1>10, <1>11, <1>12 DEF TransferInv

LEMMA WriteFileInv == TransferInv /\ WriteFile => TransferInv'
<1> SUFFICES ASSUME TransferInv, WriteFile PROVE TransferInv'
  OBVIOUS
<1>1. TypeOK /\ OneOnItsWay /\ ChunksAreNext /\ AcksAreTrue /\ SenderInStep /\ KeptInStep
  BY DEF TransferInv
<1>2. /\ rPc = "write" /\ rPc' \in Ended
      /\ out' \in {SubSeq(got, 1, n) : n \in 0..Len(got)} \cup {out, got}
      /\ UNCHANGED <<file, sPc, offset, chunk, got, toR, toS, stream>>
  BY DEF WriteFile, Ended
<1>3. out' \in Seq(Chunk) \cup {NoFile}
  <2>1. got \in Seq(Chunk) /\ out \in Seq(Chunk) \cup {NoFile}
    BY <1>1 DEF TypeOK
  <2>2. \A n \in 0..Len(got) : SubSeq(got, 1, n) \in Seq(Chunk)
    BY <2>1, CutIsSeq
  <2> QED BY <1>2, <2>1, <2>2
<1>4. TypeOK'
  BY <1>1, <1>2, <1>3 DEF TypeOK
<1>5. OneOnItsWay' /\ ChunksAreNext' /\ AcksAreTrue'
  BY <1>1, <1>2 DEF OneOnItsWay, ChunksAreNext, IsNext, AcksAreTrue, Ended
<1>6. SenderInStep' /\ KeptInStep'
  BY <1>1, <1>2 DEF SenderInStep, KeptInStep, Ended
<1> QED BY <1>4, <1>5, <1>6 DEF TransferInv

(* Steps of the receiver that touch neither the stream nor what it keeps. *)
LEMMA ReceiverStopsInv ==
  TransferInv /\ (CreateDir \/ WriteAckFails \/ ChunkTimeout \/ ReceiverEof) => TransferInv'
<1> SUFFICES ASSUME TransferInv, CreateDir \/ WriteAckFails \/ ChunkTimeout \/ ReceiverEof
             PROVE  TransferInv'
  OBVIOUS
<1>1. TypeOK /\ OneOnItsWay /\ ChunksAreNext /\ AcksAreTrue /\ SenderInStep /\ KeptInStep
  BY DEF TransferInv
<1>2. /\ UNCHANGED <<file, sPc, offset, got, out, toR, toS, stream>>
      /\ rPc' \in {"read", "failed"}
      /\ chunk' \in {chunk, NoChunk}
  BY DEF CreateDir, WriteAckFails, ChunkTimeout, ReceiverEof
<1>3. TypeOK'
  BY <1>1, <1>2 DEF TypeOK, Ended
<1>4. OneOnItsWay' /\ ChunksAreNext' /\ AcksAreTrue'
  BY <1>1, <1>2 DEF OneOnItsWay, ChunksAreNext, IsNext, AcksAreTrue
<1>5. SenderInStep'
  BY <1>1, <1>2 DEF SenderInStep
<1>6. KeptInStep'
  BY <1>1, <1>2 DEF KeptInStep
<1> QED BY <1>3, <1>4, <1>5, <1>6 DEF TransferInv

-----------------------------------------------------------------------------
(* The steps of the stream *)

LEMMA DamageInv == TransferInv /\ Damage => TransferInv'
<1> SUFFICES ASSUME TransferInv, Damage PROVE TransferInv'
  OBVIOUS
<1>1. TypeOK /\ OneOnItsWay /\ ChunksAreNext /\ SenderInStep /\ KeptInStep
  BY DEF TransferInv
<1>2. /\ toR # <<>> /\ toR' = [toR EXCEPT ![1] = [toR[1] EXCEPT !.data = Damaged]]
      /\ UNCHANGED <<file, sPc, offset, rPc, chunk, got, out, toS, stream>>
  BY DEF Damage, receiver
<1>3. toR \in Seq(TransferChunk) /\ 1 \in 1..Len(toR) /\ Len(toR) \in Nat
  BY <1>1, <1>2, EmptySeq, LenProperties DEF TypeOK
<1>4. toR[1] \in TransferChunk
  BY <1>3, ElementOfSeq
<1> DEFINE d == [toR[1] EXCEPT !.data = Damaged]
<1>5. d \in TransferChunk /\ d.sha256 = toR[1].sha256 /\ d.is_last = toR[1].is_last
  BY <1>4 DEF TransferChunk
<1>6. toR' \in Seq(TransferChunk) /\ Len(toR') = Len(toR) /\ toR'[1] = d
  <2> HIDE DEF d
  <2>1. toR' = [toR EXCEPT ![1] = d]
    BY <1>2 DEF d
  <2> QED BY <2>1, <1>3, <1>5, ExceptSeq
<1>7. TypeOK'
  BY <1>1, <1>2, <1>6 DEF TypeOK
<1>8. OneOnItsWay'
  BY <1>1, <1>2, <1>6 DEF OneOnItsWay
<1>9. ChunksAreNext'
  <2>1. IsNext(toR[1]) /\ rPc # "ack"
    BY <1>1, <1>2 DEF ChunksAreNext, OneOnItsWay
  <2> HIDE DEF d
  <2> QED BY <2>1, <1>2, <1>5, <1>6 DEF ChunksAreNext, IsNext
<1>10. AcksAreTrue'
  BY <1>1, <1>2 DEF OneOnItsWay, AcksAreTrue
<1>11. SenderInStep'
  BY <1>1, <1>2 DEF SenderInStep
<1>12. KeptInStep'
  BY <1>1, <1>2 DEF KeptInStep
<1> QED BY <1>7, <1>8, <1>9, <1>10, <1>11, <1>12 DEF TransferInv

(* What is under way is lost, and a side that crashes does nothing more. *)
LEMMA LossInv ==
  TransferInv /\ (Lose \/ SenderCrash \/ ReceiverCrash) => TransferInv'
<1> SUFFICES ASSUME TransferInv, Lose \/ SenderCrash \/ ReceiverCrash
             PROVE  TransferInv'
  OBVIOUS
<1>1. TypeOK /\ OneOnItsWay /\ ChunksAreNext /\ SenderInStep /\ KeptInStep
  BY DEF TransferInv
<1>2. /\ UNCHANGED <<file, offset, got, out>>
      /\ toR' = <<>> /\ toS' = <<>>
      /\ stream' \in {"silent", "stalled", "broken"}
      /\ sPc' \in {sPc, "gone"}
      /\ \/ rPc' = rPc /\ chunk' = chunk
         \/ rPc' = "gone" /\ chunk' = NoChunk
  BY <1>1 DEF Lose, LoseAll, Worse, SenderCrash, ReceiverCrash, receiver, TypeOK
<1>3. TypeOK'
  BY <1>1, <1>2, EmptySeq DEF TypeOK
<1>4. OneOnItsWay'
  BY <1>1, <1>2, EmptySeq DEF OneOnItsWay
<1>5. ChunksAreNext' /\ AcksAreTrue'
  BY <1>1, <1>2 DEF ChunksAreNext, IsNext, AcksAreTrue
<1>6. SenderInStep'
  BY <1>1, <1>2 DEF SenderInStep
<1>7. KeptInStep'
  BY <1>1, <1>2 DEF KeptInStep
<1> QED BY <1>3, <1>4, <1>5, <1>6, <1>7 DEF TransferInv

-----------------------------------------------------------------------------
(* The theorems *)

(* Whatever is lost, damaged or late, one thing is on its way at a time,   *)
(* and it is the chunk the receiver needs next or a true answer.           *)
THEOREM OneChunkAtATime == Spec => []TransferInv
<1>1. TransferInv /\ [Next]_vars => TransferInv'
  <2> SUFFICES ASSUME TransferInv, [Next]_vars PROVE TransferInv'
    OBVIOUS
  <2>1. CASE Sender
    BY <2>1, SendChunkInv, ReadAckInv, SenderStopsInv DEF Sender
  <2>2. CASE Receiver
    BY <2>2, ReadChunkInv, WriteAckInv, WriteFileInv, ReceiverStopsInv DEF Receiver
  <2>3. CASE Damage \/ Lose \/ SenderCrash \/ ReceiverCrash
    BY <2>3, DamageInv, LossInv
  <2>4. CASE UNCHANGED vars
    BY <2>4 DEF vars, TransferInv, TypeOK, OneOnItsWay, ChunksAreNext, IsNext, AcksAreTrue,
                SenderInStep, KeptInStep
  <2> QED BY <2>1, <2>2, <2>3, <2>4 DEF Next
<1> QED BY <1>1, InitInv, PTL DEF Spec

(* The variables keep their types for files of every length. *)
THEOREM TransferTyping == Spec => []TypeOK
<1>1. TransferInv => TypeOK
  BY DEF TransferInv
<1> QED BY <1>1, OneChunkAtATime, PTL

(* What the receiver keeps is the beginning of the file, and it is at most *)
(* one chunk ahead of what the sender knows.                               *)
THEOREM StaysInStep == Spec => []InStep
<1>1. TransferInv => InStep
  <2> SUFFICES ASSUME TransferInv PROVE InStep
    OBVIOUS
  <2>1. got \in Seq(Chunk) /\ file \in Seq(Chunk) /\ KeptInStep
    BY DEF TransferInv, TypeOK
  <2>2. got = SubSeq(file, 1, Len(got))
    BY <2>1, SamePrefix DEF KeptInStep
  <2> QED BY <2>1, <2>2 DEF InStep, KeptInStep
<1> QED BY <1>1, OneChunkAtATime, PTL

-----------------------------------------------------------------------------
(* Transfer implements AtomicCopy *)

(* The receiver has the whole file when it has as many chunks. *)
LEMMA WholeFile ==
  ASSUME TransferInv PROVE got = file <=> Len(got) = Len(file)
<1>1. got \in Seq(Chunk) /\ file \in Seq(Chunk) /\ \A i \in 1..Len(got) : got[i] = file[i]
  BY DEF TransferInv, TypeOK, KeptInStep
<1> QED BY <1>1, SameLength

(* A step of the sender is a step of AtomicCopy's sender, or a stutter. *)
LEMMA SenderRefines ==
  ASSUME TransferInv, Sender \/ SenderCrash PROVE [Copy!Next]_(Copy!vars)
<1>1. UNCHANGED <<file, rPc, got, out>>
  BY DEF Sender, ReadFile, SendChunk, SendComplete, ReadAck, AckTimeout, SenderEof, SenderCrash,
         receiver
<1>2. CASE sPc' \in {"send", "wait"} /\ sPc \in {"start", "send", "wait"}
  BY <1>1, <1>2 DEF Copy!vars
<1>3. CASE sPc' \in {"failed", "gone"} /\ sPc \in {"start", "send", "wait"}
  BY <1>1, <1>3 DEF Copy!Next, Copy!SenderGivesUp
<1>4. CASE SendComplete
  <2>1. sPc = "send" /\ sPc' = "ok" /\ Len(got) = Len(file)
    BY <1>4 DEF SendComplete, TransferInv, SenderInStep
  <2>2. (file # <<>> /\ got = file) \/ file = <<>>
    BY <2>1, WholeFile
  <2> QED BY <1>1, <2>1, <2>2 DEF Copy!Next, Copy!Confirm
<1> QED BY <1>2, <1>3, <1>4 DEF Sender, ReadFile, SendChunk, ReadAck, AckTimeout, SenderEof,
                                SenderCrash, Ended, TransferInv, TypeOK

(* A step of the receiver is a step of AtomicCopy's, or a stutter. *)
LEMMA ReceiverRefines ==
  ASSUME TransferInv, Receiver \/ ReceiverCrash PROVE [Copy!Next]_(Copy!vars)
<1>1. UNCHANGED <<file, sPc>>
  BY DEF Receiver, CreateDir, ReadChunk, WriteAck, WriteAckFails, ChunkTimeout, ReceiverEof,
         WriteFile, ReceiverCrash
<1>2. CASE UNCHANGED <<got, out>> /\ rPc \in {"start", "read", "ack"}
           /\ rPc' \in {"read", "ack"}
  BY <1>1, <1>2 DEF Copy!vars
<1>3. CASE UNCHANGED <<got, out>> /\ rPc \in {"start", "read", "ack"}
           /\ rPc' \in {"failed", "gone"}
  BY <1>1, <1>3 DEF Copy!Next, Copy!ReceiverGivesUp
<1>4. CASE WriteAck /\ Intact(chunk)
  <2>1. /\ rPc = "ack" /\ UNCHANGED out /\ offset < Len(file) /\ Len(got) = offset
        /\ rPc' = IF offset + 1 = Len(file) THEN "write" ELSE "read"
    BY <1>4 DEF WriteAck, TransferInv, ChunksAreNext, IsNext
  <2>2. TransferInv'
    BY <1>4, WriteAckInv
  <2>3. Len(got') = offset + 1 /\ Len(file) \in Nat /\ offset \in Nat /\ Len(got) \in Nat
    BY <1>4, LenProperties DEF WriteAck, TransferInv, TypeOK, ChunksAreNext, IsNext, Intact,
       TransferChunk
  <2>4. got # file
    BY <2>1, <2>3, WholeFile
  <2>5. got' = file <=> offset + 1 = Len(file)
    <3>1. /\ got' \in Seq(Chunk) /\ file \in Seq(Chunk)
          /\ \A i \in 1..Len(got') : got'[i] = file[i]
      BY <2>2, <1>1 DEF TransferInv, TypeOK, KeptInStep
    <3>2. got' = file <=> Len(got') = Len(file)
      BY <3>1, SameLength
    <3> QED BY <3>2, <2>3
  <2>6. CASE offset + 1 = Len(file)
    BY <1>1, <2>1, <2>3, <2>4, <2>5, <2>6, EmptySeq DEF Copy!Next, Copy!Accept
  <2>7. CASE offset + 1 # Len(file)
    BY <1>1, <2>1, <2>4, <2>5, <2>7 DEF Copy!vars
  <2> QED BY <2>6, <2>7
<1>5. CASE WriteFile
  <2>1. rPc = "write" /\ UNCHANGED got /\ got = file
    BY <1>5, WholeFile DEF WriteFile, TransferInv, KeptInStep
  <2>2. CASE rPc' = "ok" /\ out' = got
    BY <1>1, <2>1, <2>2 DEF Copy!Next, Copy!Store
  <2>3. CASE rPc' = "failed" /\ out' \in {SubSeq(got, 1, n) : n \in 0..Len(got)} \cup {out}
    BY <1>1, <2>1, <2>3 DEF Copy!Next, Copy!StoreFails, Copy!Prefixes
  <2> QED BY <1>5, <2>2, <2>3 DEF WriteFile
<1>6. CASE ReceiverCrash /\ rPc = "write"
  BY <1>1, <1>6 DEF ReceiverCrash, Copy!Next, Copy!StoreFails
<1> QED BY <1>2, <1>3, <1>4, <1>5, <1>6
        DEF Receiver, CreateDir, ReadChunk, WriteAck, WriteAckFails, ChunkTimeout, ReceiverEof,
            ReceiverCrash, Ended, TransferInv, TypeOK

(* A transfer is an atomic copy: every behaviour is one of AtomicCopy, for *)
(* files of any length and whatever the stream does.                       *)
THEOREM RefinesCopy == Spec => ImplementsCopy
<1>1. Init => Copy!Init
  <2> SUFFICES ASSUME Init PROVE Copy!Init
    OBVIOUS
  <2>1. ~(file # <<>> /\ got = file)
    BY DEF Init
  <2> QED BY <2>1 DEF Init, Copy!Init
<1>2. TransferInv /\ [Next]_vars => [Copy!Next]_(Copy!vars)
  <2> SUFFICES ASSUME TransferInv, [Next]_vars PROVE [Copy!Next]_(Copy!vars)
    OBVIOUS
  <2>1. CASE Sender \/ SenderCrash
    BY <2>1, SenderRefines
  <2>2. CASE Receiver \/ ReceiverCrash
    BY <2>2, ReceiverRefines
  <2>3. CASE Damage \/ Lose \/ UNCHANGED vars
    BY <2>3 DEF Damage, Lose, receiver, vars, Copy!vars
  <2> QED BY <2>1, <2>2, <2>3 DEF Next
<1> QED BY <1>1, <1>2, OneChunkAtATime, PTL DEF Spec, ImplementsCopy, Copy!Spec
=============================================================================
