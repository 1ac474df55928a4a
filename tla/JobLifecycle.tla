---------------------------- MODULE JobLifecycle ----------------------------
(***************************************************************************)
(* What the platform promises about one job, whatever the order in which   *)
(* the HTTP handlers, the scheduler, the P2P loop and the workers act:     *)
(* a job is handed to one worker at most, is executed at most once and by  *)
(* that worker, and ends as that execution ended unless it was cancelled   *)
(* first.  The statuses are those of the CHECK constraint of               *)
(* migrations/004_jobs.sql ('running' is never written by any code).       *)
(***************************************************************************)
EXTENDS Naturals

CONSTANTS Job,      \* job ids
          Worker,   \* peer ids of workers
          NoPeer    \* the NULL of jobs.worker_peer_id

VARIABLES status,   \* jobs.status, "none" before the row exists
          owner,    \* jobs.worker_peer_id
          runs,     \* how many times the job's code was started
          result    \* how the execution ended: "none", "completed", "failed"

vars == <<status, owner, runs, result>>

Outcome == {"completed", "failed"}
Terminal == Outcome \cup {"cancelled"}
Status == {"none", "pending", "assigned"} \cup Terminal

Init == /\ status = [j \in Job |-> "none"]
        /\ owner  = [j \in Job |-> NoPeer]
        /\ runs   = [j \in Job |-> 0]
        /\ result = [j \in Job |-> "none"]

(* A hirer submits the job: its row appears as pending. *)
Submit(j) == /\ status[j] = "none"
             /\ status' = [status EXCEPT ![j] = "pending"]
             /\ UNCHANGED <<owner, runs, result>>

(* The job is given to worker w, for good. *)
Assign(j, w) == /\ status[j] = "pending"
                /\ owner[j] = NoPeer
                /\ status' = [status EXCEPT ![j] = "assigned"]
                /\ owner' = [owner EXCEPT ![j] = w]
                /\ UNCHANGED <<runs, result>>

(* Its worker starts it: possibly after a cancel, which no worker hears of. *)
Start(j) == /\ owner[j] # NoPeer
            /\ runs[j] = 0
            /\ runs' = [runs EXCEPT ![j] = 1]
            /\ UNCHANGED <<status, owner, result>>

(* The execution ends, in one way only. *)
Finish(j, o) == /\ runs[j] = 1
                /\ result[j] = "none"
                /\ result' = [result EXCEPT ![j] = o]
                /\ UNCHANGED <<status, owner, runs>>

(* The job ends as its execution did. *)
Report(j) == /\ status[j] = "assigned"
             /\ result[j] \in Outcome
             /\ status' = [status EXCEPT ![j] = result[j]]
             /\ UNCHANGED <<owner, runs, result>>

(* The hirer cancels a job that has not ended. *)
Cancel(j) == /\ status[j] \in {"pending", "assigned"}
             /\ status' = [status EXCEPT ![j] = "cancelled"]
             /\ UNCHANGED <<owner, runs, result>>

Next == \E j \in Job :
          \/ Submit(j)
          \/ \E w \in Worker : Assign(j, w)
          \/ Start(j)
          \/ \E o \in Outcome : Finish(j, o)
          \/ Report(j)
          \/ Cancel(j)

Spec == Init /\ [][Next]_vars
=============================================================================
