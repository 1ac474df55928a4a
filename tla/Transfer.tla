------------------------------ MODULE Transfer ------------------------------
(***************************************************************************)
(* send_file_chunked and receive_file_chunked (decentgpu-common) at the    *)
(* two ends of one stream.  A chunk is sent when the one before it was     *)
(* acknowledged; each side has a timeout on what it reads, and none on     *)
(* what it writes.  The stream keeps its messages in order; it may break,  *)
(* it may go silent (a peer that vanished) and then take no more writes    *)
(* (its buffers are full), and it may hand over damaged data, which the    *)
(* hash of the chunk is there to find.  A side that returns drops it.      *)
(***************************************************************************)
EXTENDS Integers, Sequences

CONSTANTS Chunk,      \* contents of a chunk (64 KiB or, at the end, less)
          Damaged,    \* contents that are not what was sent
          MaxChunks,  \* bound on the length of a file, in chunks
          NoFile, NoChunk

File == UNION {[1..n -> Chunk] : n \in 0..MaxChunks}

VARIABLES file,
          sPc, offset,     \* the sender; chunks acknowledged to it
          rPc, chunk, got, \* the receiver; the chunk it checks, the data it has
          out,             \* what is at output_path
          toR, toS,        \* the stream in both directions
          stream           \* "up"; "silent": nothing that is written arrives;
                           \* "stalled": nor does a write end; "broken"

vars == <<file, sPc, offset, rPc, chunk, got, out, toR, toS, stream>>

TransferChunk == [data : Chunk \cup {Damaged}, sha256 : Chunk, is_last : BOOLEAN]

ASSUME TransferAssumption ==
    /\ MaxChunks \in Nat
    /\ Damaged \notin Chunk
    /\ NoChunk \notin TransferChunk
    /\ NoFile \notin Seq(Chunk)

Ended == {"ok", "failed"}

Init == /\ file \in File
        /\ sPc = "start" /\ offset = 0
        /\ rPc = "start" /\ chunk = NoChunk /\ got = <<>>
        /\ out = NoFile
        /\ toR = <<>> /\ toS = <<>>
        /\ stream = "up"

TypeOK == /\ file \in Seq(Chunk)
          /\ sPc \in {"start", "send", "wait", "gone"} \cup Ended
          /\ offset \in Nat
          /\ rPc \in {"start", "read", "ack", "write", "gone"} \cup Ended
          /\ chunk \in TransferChunk \cup {NoChunk}
          /\ got \in Seq(Chunk)
          /\ out \in Seq(Chunk) \cup {NoFile}
          /\ toR \in Seq(TransferChunk) /\ toS \in Seq(BOOLEAN)
          /\ stream \in {"up", "silent", "stalled", "broken"}

receiver == <<rPc, chunk, got, out>>

-----------------------------------------------------------------------------
(* The sender. *)

(* The file is read as a whole, or cannot be read. *)
ReadFile == /\ sPc = "start"
            /\ sPc' \in {"send", "failed"}
            /\ UNCHANGED <<file, offset, receiver, toR, toS, stream>>

(* write_length_prefixed waits for room, without a timeout; then the frame *)
(* leaves, whether or not it arrives.                                      *)
CanWrite == stream # "stalled"
Deliver(q, msg) == IF stream = "up" THEN Append(q, msg) ELSE q

(* What a side notices: the stream broke, or the other side dropped it. *)
Closed(other) == stream = "broken" \/ (stream = "up" /\ other \in Ended)

SendChunk ==
    /\ sPc = "send" /\ offset < Len(file)
    /\ CanWrite
    /\ toR' = Deliver(toR, [data |-> file[offset + 1], sha256 |-> file[offset + 1],
                            is_last |-> offset + 1 = Len(file)])
    /\ sPc' = "wait"
    /\ UNCHANGED <<file, offset, receiver, toS, stream>>

(* Mutant: the last acknowledgement is not waited for. *)
SendCompleteEarly == /\ sPc = "wait" /\ offset + 1 = Len(file)
                     /\ sPc' = "ok"
                     /\ UNCHANGED <<file, offset, receiver, toR, toS, stream>>

(* An empty file gets here without a chunk. *)
SendComplete == /\ sPc = "send" /\ offset = Len(file)
                /\ sPc' = "ok"
                /\ UNCHANGED <<file, offset, receiver, toR, toS, stream>>

(* Mutant: any acknowledgement will do. *)
ReadAckAny == /\ sPc = "wait" /\ toS # <<>>
              /\ toS' = Tail(toS)
              /\ sPc' = "send" /\ offset' = offset + 1
              /\ UNCHANGED <<file, receiver, toR, stream>>

ReadAck == /\ sPc = "wait" /\ toS # <<>>
           /\ toS' = Tail(toS)
           /\ IF Head(toS) THEN sPc' = "send" /\ offset' = offset + 1
                           ELSE sPc' = "failed" /\ UNCHANGED offset
           /\ UNCHANGED <<file, receiver, toR, stream>>

(* Mutant: the sender waits for ever. *)
AckTimeoutNever == FALSE /\ UNCHANGED vars

(* 60 s without the acknowledgement, which may still be on its way. *)
AckTimeout == /\ sPc = "wait"
              /\ sPc' = "failed"
              /\ UNCHANGED <<file, offset, receiver, toR, toS, stream>>

(* The stream has ended, and all that came before its end is read; a write *)
(* to a stream that the other side dropped may fail or be lost.            *)
SenderEof == /\ sPc \in {"send", "wait"}
             /\ toS = <<>>
             /\ Closed(rPc)
             /\ sPc' = "failed"
             /\ UNCHANGED <<file, offset, receiver, toR, toS, stream>>

-----------------------------------------------------------------------------
(* The receiver. *)

CreateDir == /\ rPc = "start"
             /\ rPc' \in {"read", "failed"}
             /\ UNCHANGED <<file, sPc, offset, chunk, got, out, toR, toS, stream>>

ReadChunk == /\ rPc = "read" /\ toR # <<>>
             /\ chunk' = Head(toR) /\ toR' = Tail(toR)
             /\ rPc' = "ack"
             /\ UNCHANGED <<file, sPc, offset, got, out, toS, stream>>

(* Mutant: the data is not compared with its hash. *)
AlwaysIntact(c) == TRUE

Intact(c) == c.data = c.sha256

(* The verdict is sent, then the data kept or the transfer given up. *)
WriteAck ==
    /\ rPc = "ack"
    /\ CanWrite
    /\ toS' = Deliver(toS, Intact(chunk))
    /\ IF Intact(chunk)
         THEN /\ got' = Append(got, chunk.data)
              /\ rPc' = IF chunk.is_last THEN "write" ELSE "read"
         ELSE rPc' = "failed" /\ UNCHANGED got
    /\ chunk' = NoChunk
    /\ UNCHANGED <<file, sPc, offset, out, toR, stream>>

WriteAckFails == /\ rPc = "ack"
                 /\ Closed(sPc)
                 /\ rPc' = "failed" /\ chunk' = NoChunk
                 /\ UNCHANGED <<file, sPc, offset, got, out, toR, toS, stream>>

(* 120 s without a chunk. *)
ChunkTimeout == /\ rPc = "read"
                /\ rPc' = "failed"
                /\ UNCHANGED <<file, sPc, offset, chunk, got, out, toR, toS, stream>>

ReceiverEof == /\ rPc = "read" /\ toR = <<>>
               /\ Closed(sPc)
               /\ rPc' = "failed"
               /\ UNCHANGED <<file, sPc, offset, chunk, got, out, toR, toS, stream>>

WriteFile == /\ rPc = "write"
             /\ \/ rPc' = "ok" /\ out' = got
                \/ rPc' = "failed" /\ out' \in {SubSeq(got, 1, n) : n \in 0..Len(got)} \cup {out}
             /\ UNCHANGED <<file, sPc, offset, chunk, got, toR, toS, stream>>

-----------------------------------------------------------------------------
(* The stream. *)

Damage == /\ toR # <<>>
          /\ toR' = [toR EXCEPT ![1].data = Damaged]
          /\ UNCHANGED <<file, sPc, offset, receiver, toS, stream>>

(* The connection is lost, or the peer vanishes: nobody is told, then the  *)
(* buffers fill, and at last the connection may be given up.  A stream     *)
(* that only stops for a while is one whose messages take long.            *)
Worse(how) == CASE how = "up" -> {"silent", "stalled", "broken"}
                [] how = "silent" -> {"stalled", "broken"}
                [] how = "stalled" -> {"broken"}
                [] how = "broken" -> {}

LoseAll == toR' = <<>> /\ toS' = <<>>

Lose == /\ stream' \in Worse(stream)
        /\ LoseAll
        /\ UNCHANGED <<file, sPc, offset, receiver>>

SenderCrash == /\ sPc \notin Ended \cup {"gone"}
               /\ sPc' = "gone"
               /\ stream' \in (Worse(stream) \cup {stream}) \ {"up"}
               /\ LoseAll
               /\ UNCHANGED <<file, offset, receiver>>

ReceiverCrash == /\ rPc \notin Ended \cup {"gone"}
                 /\ rPc' = "gone" /\ chunk' = NoChunk
                 /\ stream' \in (Worse(stream) \cup {stream}) \ {"up"}
                 /\ LoseAll
                 /\ UNCHANGED <<file, sPc, offset, got, out>>

Sender == ReadFile \/ SendChunk \/ SendComplete \/ ReadAck \/ AckTimeout \/ SenderEof

Receiver == \/ CreateDir \/ ReadChunk \/ WriteAck \/ WriteAckFails
            \/ ChunkTimeout \/ ReceiverEof \/ WriteFile

Next == Sender \/ Receiver \/ Damage \/ Lose \/ SenderCrash \/ ReceiverCrash

Spec == Init /\ [][Next]_vars

(* Each side runs, and its timeout fires; a write ends if it can. *)
FairSpec == Spec /\ WF_vars(Sender) /\ WF_vars(Receiver)

-----------------------------------------------------------------------------
(* What the receiver has kept is the beginning of the file, and it is the  *)
(* acknowledged chunks, or one more: no chunk is skipped, repeated or      *)
(* taken damaged, wherever a timeout meets a late answer.                  *)
InStep == /\ Len(got) \in {offset, offset + 1}
          /\ got = SubSeq(file, 1, Len(got))

(* Both sides return, unless they crash, or are in a write that nobody     *)
(* will ever take: a timeout ends every read, and nothing ends that write. *)
SenderOver == sPc \in Ended \cup {"gone"} \/ (sPc = "send" /\ offset < Len(file) /\ ~CanWrite)
ReceiverOver == rPc \in Ended \cup {"gone"} \/ (rPc = "ack" /\ ~CanWrite)
BothEnd == <>[](SenderOver /\ ReceiverOver)

(* Why these hold: one thing is on its way at a time, a chunk, the chunk   *)
(* that the receiver looks at, or its acknowledgement;                     *)
OneOnItsWay ==
    /\ Len(toR) <= 1 /\ Len(toS) <= 1
    /\ toR # <<>> => toS = <<>> /\ rPc # "ack"
    /\ toS # <<>> => rPc # "ack"
    /\ rPc = "ack" => chunk # NoChunk

(* it is the chunk at the sender's offset, damaged or not,                 *)
IsNext(c) == /\ offset < Len(file)
             /\ Len(got) = offset
             /\ c.sha256 = file[offset + 1]
             /\ c.is_last = (offset + 1 = Len(file))

ChunksAreNext == /\ toR # <<>> => IsNext(toR[1])
                 /\ rPc = "ack" => IsNext(chunk)

(* or tells whether the receiver is one chunk ahead of the sender;         *)
AcksAreTrue == toS # <<>> => Len(got) = IF toS[1] THEN offset + 1 ELSE offset

(* a sender that waits for nothing has nothing under way;                  *)
SenderInStep ==
    /\ sPc \in {"start", "send", "ok"} =>
         toR = <<>> /\ toS = <<>> /\ rPc # "ack" /\ Len(got) = offset
    /\ sPc = "wait" => offset < Len(file)
    /\ sPc = "ok" => offset = Len(file)

(* and what is written is the whole file.                                  *)
KeptInStep == /\ offset <= Len(file) /\ Len(got) <= Len(file)
              /\ Len(got) \in {offset, offset + 1}
              /\ \A i \in 1..Len(got) : got[i] = file[i]
              /\ rPc \in {"write", "ok"} => file # <<>> /\ Len(got) = Len(file)

TransferInv == /\ TypeOK
               /\ OneOnItsWay
               /\ ChunksAreNext
               /\ AcksAreTrue
               /\ SenderInStep
               /\ KeptInStep

Copy == INSTANCE AtomicCopy WITH
    File <- File, NoFile <- NoFile, file <- file, out <- out,
    sender <- IF sPc = "ok" THEN "ok" ELSE IF sPc \in {"failed", "gone"} THEN "failed" ELSE "running",
    receiver <- CASE rPc = "ok" -> "ok"
                  [] rPc \in {"failed", "gone"} -> "failed"
                  [] rPc = "write" -> "holds"
                  [] OTHER -> "running",
    held <- file # <<>> /\ got = file

(* The transfer is an atomic copy: what is stored after a success is the   *)
(* file, and a sender that succeeds knows that the receiver has all of it. *)
ImplementsCopy == Copy!Spec
=============================================================================
