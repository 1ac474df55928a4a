----------------------------- MODULE AtomicCopy -----------------------------
(***************************************************************************)
(* What a chunked file transfer promises.  The receiver has the whole file *)
(* or nothing, and stores what it has; the sender may only call the        *)
(* transfer a success once the receiver has everything.  Either side may   *)
(* give up at any time, without the other.  An empty file is never         *)
(* received: no chunk would announce its end.                              *)
(***************************************************************************)
EXTENDS Integers, Sequences

CONSTANTS File,    \* the contents a file may have
          NoFile   \* nothing at output_path

VARIABLES file,               \* what is sent
          sender, receiver,   \* "running", "ok", "failed"; a receiver also "holds" the file
          held,               \* the receiver had the whole file
          out                 \* what is at output_path

vars == <<file, sender, receiver, held, out>>

Prefixes(f) == {SubSeq(f, 1, n) : n \in 0..Len(f)}

Init == /\ file \in File
        /\ sender = "running" /\ receiver = "running"
        /\ held = FALSE
        /\ out = NoFile

Accept == /\ receiver = "running" /\ file # <<>>
          /\ receiver' = "holds" /\ held' = TRUE
          /\ UNCHANGED <<file, sender, out>>

Store == /\ receiver = "holds"
         /\ receiver' = "ok" /\ out' = file
         /\ UNCHANGED <<file, sender, held>>

(* A write that fails may leave a part of the file behind. *)
StoreFails == /\ receiver = "holds"
              /\ receiver' = "failed"
              /\ out' \in Prefixes(file) \cup {out}
              /\ UNCHANGED <<file, sender, held>>

ReceiverGivesUp == /\ receiver = "running"
                   /\ receiver' = "failed"
                   /\ UNCHANGED <<file, sender, held, out>>

Confirm == /\ sender = "running"
           /\ held \/ file = <<>>
           /\ sender' = "ok"
           /\ UNCHANGED <<file, receiver, held, out>>

SenderGivesUp == /\ sender = "running"
                 /\ sender' = "failed"
                 /\ UNCHANGED <<file, receiver, held, out>>

Next == Accept \/ Store \/ StoreFails \/ ReceiverGivesUp \/ Confirm \/ SenderGivesUp

Spec == Init /\ [][Next]_vars
=============================================================================
